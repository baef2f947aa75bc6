---------------------------- MODULE ConfigProofs -----------------------------
(***************************************************************************)
(* merge() puts the dictionaries together by priority, whatever they say:  *)
(* the mappings it merges in place, later than what was queued before      *)
(* them, come to the same as if each option were looked up on its own.     *)
(***************************************************************************)
EXTENDS Session, FiniteSetTheorems, SequenceTheorems, WellFoundedInduction, TLAPS

(***************************************************************************)
(* The greatest element of a set of positions.                             *)
(***************************************************************************)
\* A set of naturals with a bound has a greatest element.
LEMMA MaxExists ==
  ASSUME NEW n \in Nat, NEW S, S \subseteq 1..n, S # {}
  PROVE  Max(S) \in S /\ \A y \in S : y <= Max(S)
<1> DEFINE below == {n - y : y \in S}
<1>1. below \subseteq Nat /\ below # {}
  OBVIOUS
<1>2. PICK k \in below : \A l \in below : <<l, k>> \notin OpToRel(<, Nat)
  <2> HIDE DEF below
  <2> QED
    BY <1>1, WFMin, NatLessThanWellFounded, Zenon
<1>3. \A l \in below : ~(l < k)
  <2> HIDE DEF below
  <2>1. ASSUME NEW l \in below, l < k PROVE <<l, k>> \in OpToRel(<, Nat)
    <3>1. l \in Nat /\ k \in Nat
      BY <1>1
    <3> QED
      BY <2>1, <3>1, Zenon DEF OpToRel
  <2> QED
    BY <1>2, <2>1
<1>4. PICK x \in S : k = n - x
  OBVIOUS
<1>5. ASSUME NEW y \in S PROVE y <= x
  <2>1. x \in 1..n /\ y \in 1..n
    OBVIOUS
  <2>2. ~(n - y < n - x)
    BY <1>3, <1>4
  <2> QED
    BY <2>1, <2>2
<1>6. \E z \in S : \A y \in S : z >= y
  BY <1>5
<1> QED
  BY <1>6 DEF Max

\* It is the element that is not less than the others.
LEMMA MaxIs ==
  ASSUME NEW S, S \subseteq Int, NEW x \in S, \A y \in S : y <= x
  PROVE  Max(S) = x
<1>1. \A y \in S : x >= y
  OBVIOUS
<1>2. ASSUME NEW z \in S, \A y \in S : z >= y PROVE z = x
  BY <1>2
<1> QED
  BY <1>1, <1>2 DEF Max

(***************************************************************************)
(* What an option should be, one layer after the other.                    *)
(***************************************************************************)
AreDicts(layers) ==
  /\ layers \in Seq(Range(layers))
  /\ \A i \in DOMAIN layers : IsDict(layers[i])

\* The layers after the last that says something else than a mapping of k.
Maps(layers, m, k) ==
  {i \in Setting(layers, m, k) :
     \A j \in Setting(layers, m, k) : j >= i => IsMap(layers[j][k])}
NamesIn(layers, maps, k) == UNION {DOMAIN layers[i][k].map : i \in maps}
Naming(layers, maps, k, n) == {i \in maps : n \in DOMAIN layers[i][k].map}

\* ByPriority with its parts named.
LEMMA Parts ==
  ASSUME NEW layers, NEW m, NEW k
  PROVE  LET maps == Maps(layers, m, k)
         IN  ByPriority(layers, m, k) =
               IF maps = {} THEN layers[Max(Setting(layers, m, k))][k]
               ELSE Mapping([n \in NamesIn(layers, maps, k) |->
                      layers[Max(Naming(layers, maps, k, n))][k].map[n]])
BY DEF ByPriority, Maps, NamesIn, Naming

\* An option that a layer does not set stays as it is.
LEMMA NotSet ==
  ASSUME NEW layers, NEW m \in Nat, NEW k, k \notin DOMAIN layers[m + 1]
  PROVE  ByPriority(layers, m + 1, k) = ByPriority(layers, m, k)
<1>1. Setting(layers, m + 1, k) = Setting(layers, m, k)
  BY DEF Setting
<1>2. Maps(layers, m + 1, k) = Maps(layers, m, k)
  BY <1>1 DEF Maps
<1> QED
  BY <1>1, <1>2, Parts

\* The layers that set an option, with one layer more.
LEMMA SetMore ==
  ASSUME NEW layers, NEW m \in Nat, NEW k, k \in DOMAIN layers[m + 1]
  PROVE  /\ Setting(layers, m + 1, k) = Setting(layers, m, k) \cup {m + 1}
         /\ Setting(layers, m, k) \subseteq 1..m
         /\ Max(Setting(layers, m + 1, k)) = m + 1
<1>1. Setting(layers, m + 1, k) = Setting(layers, m, k) \cup {m + 1}
  BY DEF Setting
<1>2. Setting(layers, m, k) \subseteq 1..m
  BY DEF Setting
<1>3. /\ m + 1 \in Setting(layers, m + 1, k)
      /\ Setting(layers, m + 1, k) \subseteq Int
      /\ \A y \in Setting(layers, m + 1, k) : y <= m + 1
  BY <1>1, <1>2
<1> QED
  BY <1>1, <1>2, <1>3, MaxIs

\* A value that is not a mapping hides what was there.
LEMMA SetOne ==
  ASSUME NEW layers, NEW m \in Nat, NEW k,
         k \in DOMAIN layers[m + 1], ~IsMap(layers[m + 1][k])
  PROVE  ByPriority(layers, m + 1, k) = layers[m + 1][k]
<1>1. Maps(layers, m + 1, k) = {}
  BY SetMore DEF Maps
<1> QED
  BY <1>1, SetMore, Parts

\* The option is a mapping if and only if some last layers all say so.
LEMMA MapOrNot ==
  ASSUME NEW layers, NEW m \in Nat, NEW k, Setting(layers, m, k) # {}
  PROVE  IsMap(ByPriority(layers, m, k)) <=> Maps(layers, m, k) # {}
<1> DEFINE last == Max(Setting(layers, m, k))
<1>1. CASE Maps(layers, m, k) = {}
  <2>1. last \in Setting(layers, m, k) /\ \A j \in Setting(layers, m, k) : j <= last
    <3>1. Setting(layers, m, k) \subseteq 1..m
      BY DEF Setting
    <3> QED
      BY <3>1, MaxExists
  <2>2. Setting(layers, m, k) \subseteq Int
    BY DEF Setting
  <2>3. ASSUME IsMap(layers[last][k]) PROVE FALSE
    <3> HIDE DEF last
    <3>1. \A j \in Setting(layers, m, k) : j >= last => j = last
      BY <2>1, <2>2
    <3> QED
      BY <1>1, <2>1, <2>3, <3>1 DEF Maps
  <2> QED
    BY <1>1, <2>3, Parts
<1>2. CASE Maps(layers, m, k) # {}
  BY <1>2, Parts DEF IsMap, Mapping
<1> QED
  BY <1>1, <1>2

\* The layers that count, when the next one says a mapping, too.
LEMMA MapsMore ==
  ASSUME NEW layers, NEW m \in Nat, NEW k,
         k \in DOMAIN layers[m + 1], IsMap(layers[m + 1][k])
  PROVE  Maps(layers, m + 1, k) = Maps(layers, m, k) \cup {m + 1}
<1> DEFINE set == Setting(layers, m, k)
           more == Setting(layers, m + 1, k)
<1>1. more = set \cup {m + 1} /\ set \subseteq 1..m
  BY SetMore
<1> HIDE DEF set, more
<1>2. ASSUME NEW i \in more
      PROVE  (\A j \in more : j >= i => IsMap(layers[j][k]))
               <=> (i = m + 1 \/ (i \in set /\ \A j \in set : j >= i => IsMap(layers[j][k])))
  <2>1. CASE i = m + 1
    BY <1>1, <2>1
  <2>2. CASE i \in set
    <3>1. i \in 1..m
      BY <1>1, <2>2
    <3> QED
      BY <1>1, <2>2, <3>1
  <2> QED
    BY <1>1, <1>2, <2>1, <2>2
<1> QED
  BY <1>1, <1>2 DEF Maps, set, more

\* The first mapping of an option, or the first after another value, is taken
\* as it is.
LEMMA SetMap ==
  ASSUME NEW layers, NEW m \in Nat, NEW k,
         k \in DOMAIN layers[m + 1], IsMap(layers[m + 1][k]),
         layers[m + 1][k].map = [x \in DOMAIN layers[m + 1][k].map |-> layers[m + 1][k].map[x]],
         Maps(layers, m, k) = {}
  PROVE  ByPriority(layers, m + 1, k) = Mapping(layers[m + 1][k].map)
<1> DEFINE f == layers[m + 1][k].map
<1>1. Maps(layers, m + 1, k) = {m + 1}
  BY MapsMore
<1>2. NamesIn(layers, {m + 1}, k) = DOMAIN f
  BY DEF NamesIn
<1>3. ASSUME NEW n \in DOMAIN f
      PROVE  Max(Naming(layers, {m + 1}, k, n)) = m + 1
  <2>1. Naming(layers, {m + 1}, k, n) = {m + 1}
    BY <1>3 DEF Naming
  <2>2. \A y \in {m + 1} : y <= m + 1
    OBVIOUS
  <2>3. {m + 1} \subseteq Int /\ m + 1 \in {m + 1}
    OBVIOUS
  <2>4. Max({m + 1}) = m + 1
    BY <2>2, <2>3, MaxIs
  <2> QED
    BY <2>1, <2>4
<1>4. [n \in NamesIn(layers, {m + 1}, k) |->
         layers[Max(Naming(layers, {m + 1}, k, n))][k].map[n]] = [n \in DOMAIN f |-> f[n]]
  BY <1>2, <1>3
<1> QED
  BY <1>1, <1>4, Parts

\* A mapping over a mapping is put together with it name by name.
LEMMA MapOverMap ==
  ASSUME NEW layers, NEW m \in Nat, NEW k,
         k \in DOMAIN layers[m + 1], IsMap(layers[m + 1][k]),
         Maps(layers, m, k) # {}
  PROVE  ByPriority(layers, m + 1, k)
           = Mapping(Upon(layers[m + 1][k].map, ByPriority(layers, m, k).map))
<1> DEFINE maps == Maps(layers, m, k)
           f == layers[m + 1][k].map
           old == [n \in NamesIn(layers, maps, k) |->
                     layers[Max(Naming(layers, maps, k, n))][k].map[n]]
           more == maps \cup {m + 1}
<1>1. Maps(layers, m + 1, k) = more
  BY MapsMore
<1>2. ByPriority(layers, m, k).map = old
  BY Parts DEF Mapping
<1>3. maps \subseteq 1..m
  BY SetMore DEF Maps
<1> HIDE DEF maps
<1>4. NamesIn(layers, more, k) = DOMAIN f \cup DOMAIN old
  BY DEF NamesIn
<1>5. ASSUME NEW n \in DOMAIN f PROVE Max(Naming(layers, more, k, n)) = m + 1
  <2>0. Naming(layers, more, k, n) \subseteq more
    BY DEF Naming
  <2>1. /\ m + 1 \in Naming(layers, more, k, n)
        /\ Naming(layers, more, k, n) \subseteq Int
        /\ \A i \in Naming(layers, more, k, n) : i <= m + 1
    <3>1. m + 1 \in Naming(layers, more, k, n)
      BY <1>5 DEF Naming
    <3>2. \A i \in more : i \in Int /\ i <= m + 1
      BY <1>3
    <3> QED
      BY <2>0, <3>1, <3>2
  <2> QED
    BY <2>1, MaxIs
<1>6. ASSUME NEW n, n \notin DOMAIN f
      PROVE  Naming(layers, more, k, n) = Naming(layers, maps, k, n)
  BY <1>6 DEF Naming
<1>7. [n \in NamesIn(layers, more, k) |->
         layers[Max(Naming(layers, more, k, n))][k].map[n]] = Upon(f, old)
  <2>1. ASSUME NEW n \in NamesIn(layers, more, k)
        PROVE  layers[Max(Naming(layers, more, k, n))][k].map[n]
                 = IF n \in DOMAIN f THEN f[n] ELSE old[n]
    <3>1. CASE n \in DOMAIN f
      BY <1>5, <3>1
    <3>2. CASE n \notin DOMAIN f
      <4>1. n \in NamesIn(layers, maps, k)
        BY <1>4, <2>1, <3>2
      <4> QED
        BY <1>6, <3>2, <4>1
    <3> QED
      BY <3>1, <3>2
  <2> DEFINE new == [n \in NamesIn(layers, more, k) |->
                       layers[Max(Naming(layers, more, k, n))][k].map[n]]
             both == [n \in NamesIn(layers, more, k) |->
                        IF n \in DOMAIN f THEN f[n] ELSE old[n]]
  <2>2. new = both
    BY <2>1, Zenon
  <2>3. both = Upon(f, old)
    <3> HIDE DEF f, old, more
    <3> QED
      BY <1>4 DEF Upon
  <2> QED
    BY <2>2, <2>3
<1> QED
  BY <1>1, <1>2, <1>7, Parts

(***************************************************************************)
(* What a mapping will be when the queue is empty.                         *)
(***************************************************************************)
Saying(q, n, x) == {i \in TasksInto(q, n) : x \in DOMAIN q[i].new}
Value(h, q, n, x) ==
  IF Saying(q, n, x) = {} THEN h[n][x] ELSE q[Max(Saying(q, n, x))].new[x]
IsFcn(f) == f = [x \in DOMAIN f |-> f[x]]

\* Two functions that agree are equal.
LEMMA Agree ==
  ASSUME NEW f, NEW g, IsFcn(f), IsFcn(g), DOMAIN f = DOMAIN g,
         \A x \in DOMAIN f : f[x] = g[x]
  PROVE  f = g
BY DEF IsFcn

\* Upon, for the parts that are used of it.
LEMMA UponIs ==
  ASSUME NEW f, NEW g
  PROVE  /\ IsFcn(Upon(f, g)) /\ DOMAIN Upon(f, g) = DOMAIN f \cup DOMAIN g
         /\ \A x \in DOMAIN f : Upon(f, g)[x] = f[x]
         /\ \A x \in DOMAIN g \ DOMAIN f : Upon(f, g)[x] = g[x]
BY DEF Upon, IsFcn

\* Eventually with its parts named.
LEMMA EventuallyIs ==
  ASSUME NEW h, NEW q, NEW n
  PROVE  /\ IsFcn(Eventually(h, q, n))
         /\ \A x : x \in DOMAIN Eventually(h, q, n)
                     <=> x \in DOMAIN h[n] \/ Saying(q, n, x) # {}
         /\ \A x \in DOMAIN Eventually(h, q, n) : Eventually(h, q, n)[x] = Value(h, q, n, x)
<1> DEFINE names == DOMAIN h[n] \cup UNION {DOMAIN q[i].new : i \in TasksInto(q, n)}
<1>1. Eventually(h, q, n) = [x \in names |-> Value(h, q, n, x)]
  BY DEF Eventually, Value, Saying
<1>2. ASSUME NEW x
      PROVE  x \in names <=> x \in DOMAIN h[n] \/ Saying(q, n, x) # {}
  BY DEF Saying
<1> HIDE DEF names
<1> QED
  BY <1>1, <1>2 DEF IsFcn

\* The first task is carried out.
LEMMA FirstTask ==
  ASSUME NEW X, NEW q \in Seq(X), q # <<>>, NEW n, NEW x
  PROVE  /\ Saying(q, n, x) \subseteq 1..Len(q)
         /\ Saying(Tail(q), n, x) \subseteq 1..(Len(q) - 1)
         /\ 1 \in Saying(q, n, x) <=> (Head(q).into = n /\ x \in DOMAIN Head(q).new)
         /\ \A i \in 1..(Len(q) - 1) :
              i \in Saying(Tail(q), n, x) <=> i + 1 \in Saying(q, n, x)
<1>1. Len(q) \in Nat \ {0} /\ DOMAIN q = 1..Len(q) /\ Head(q) = q[1]
  OBVIOUS
<1>2. /\ DOMAIN Tail(q) = 1..(Len(q) - 1)
      /\ \A i \in 1..(Len(q) - 1) : Tail(q)[i] = q[i + 1]
  OBVIOUS
<1>3. \A i \in 1..(Len(q) - 1) : i + 1 \in 1..Len(q)
  BY <1>1
<1> QED
  BY <1>1, <1>2, <1>3 DEF Saying, TasksInto

\* The last task that says something of x stays the last.
LEMMA LastTask ==
  ASSUME NEW X, NEW q \in Seq(X), q # <<>>, NEW n, NEW x,
         Saying(Tail(q), n, x) # {}
  PROVE  /\ Saying(q, n, x) # {}
         /\ Tail(q)[Max(Saying(Tail(q), n, x))] = q[Max(Saying(q, n, x))]
<1> DEFINE S == Saying(q, n, x)
           T == Saying(Tail(q), n, x)
<1>0. Len(q) \in Nat \ {0} /\ Len(q) - 1 \in Nat
  OBVIOUS
<1>1. /\ S \subseteq 1..Len(q) /\ T \subseteq 1..(Len(q) - 1)
      /\ \A i \in 1..(Len(q) - 1) : i \in T <=> i + 1 \in S
  BY FirstTask
<1>2. \A i \in 1..(Len(q) - 1) : Tail(q)[i] = q[i + 1]
  OBVIOUS
<1> HIDE DEF S, T
<1>3. T # {}
  BY DEF T
<1>4. Max(T) \in T /\ \A y \in T : y <= Max(T)
  BY <1>0, <1>1, <1>3, MaxExists
<1>5. Max(T) + 1 \in S
  BY <1>1, <1>4
<1>6. ASSUME NEW y \in S PROVE y <= Max(T) + 1
  <2>1. Max(T) \in 1..(Len(q) - 1) /\ y \in 1..Len(q)
    BY <1>1, <1>4
  <2>2. CASE y = 1
    BY <2>1, <2>2
  <2>3. CASE y # 1
    <3>1. y - 1 \in 1..(Len(q) - 1) /\ (y - 1) + 1 = y
      BY <1>0, <2>1, <2>3
    <3>2. y - 1 \in T
      BY <1>1, <1>6, <3>1
    <3> QED
      BY <1>4, <2>1, <3>1, <3>2
  <2> QED
    BY <2>2, <2>3
<1>7. Max(S) = Max(T) + 1
  <2>1. S \subseteq Int
    BY <1>0, <1>1
  <2> QED
    BY <1>5, <1>6, <2>1, MaxIs
<1> QED
  BY <1>1, <1>2, <1>4, <1>5, <1>7 DEF S, T

\* Carrying out the first task changes nothing of what a mapping will be.
LEMMA TaskDone ==
  ASSUME NEW X, NEW q \in Seq(X), q # <<>>, NEW n, NEW h, NEW h2,
         IF Head(q).into = n THEN h2[n] = Upon(Head(q).new, h[n]) ELSE h2[n] = h[n]
  PROVE  Eventually(h2, Tail(q), n) = Eventually(h, q, n)
<1> DEFINE S(x) == Saying(q, n, x)
           T(x) == Saying(Tail(q), n, x)
           new == Head(q).new
<1>a. ASSUME Head(q).into = n
      PROVE  /\ DOMAIN h2[n] = DOMAIN new \cup DOMAIN h[n]
             /\ \A x \in DOMAIN new : h2[n][x] = new[x]
             /\ \A x \in DOMAIN h[n] \ DOMAIN new : h2[n][x] = h[n][x]
  <2>1. h2[n] = Upon(new, h[n])
    BY <1>a
  <2> QED
    BY <2>1 DEF Upon
<1>b. Head(q).into # n => h2[n] = h[n]
  OBVIOUS
<1>1. ASSUME NEW x PROVE T(x) # {} => S(x) # {}
  BY LastTask
<1>2. ASSUME NEW x, T(x) = {}
      PROVE  S(x) = IF Head(q).into = n /\ x \in DOMAIN Head(q).new THEN {1} ELSE {}
  <2>1. /\ S(x) \subseteq 1..Len(q)
        /\ 1 \in S(x) <=> (Head(q).into = n /\ x \in DOMAIN Head(q).new)
        /\ \A i \in 1..(Len(q) - 1) : i + 1 \notin S(x)
    BY <1>2, FirstTask
  <2>2. Len(q) \in Nat \ {0}
    OBVIOUS
  <2> HIDE DEF S
  <2>3. ASSUME NEW i \in S(x) PROVE i = 1
    <3>1. i \in 1..Len(q)
      BY <2>1
    <3>2. CASE i # 1
      <4>1. i - 1 \in 1..(Len(q) - 1) /\ (i - 1) + 1 = i
        BY <2>2, <3>1, <3>2
      <4> QED
        BY <2>1, <2>3, <4>1
    <3> QED
      BY <3>2
  <2> QED
    BY <2>1, <2>3
<1>3. DOMAIN Eventually(h2, Tail(q), n) = DOMAIN Eventually(h, q, n)
  <2>1. ASSUME NEW x
        PROVE  (x \in DOMAIN h2[n] \/ T(x) # {}) <=> (x \in DOMAIN h[n] \/ S(x) # {})
    <3>1. CASE T(x) # {}
      BY <1>1, <3>1
    <3>2. CASE T(x) = {}
      <4>1. CASE Head(q).into = n
        BY <1>a, <1>2, <3>2, <4>1
      <4>2. CASE Head(q).into # n
        BY <1>b, <1>2, <3>2, <4>2
      <4> QED
        BY <4>1, <4>2
    <3> QED
      BY <3>1, <3>2
  <2>2. \A x : x \in DOMAIN Eventually(h2, Tail(q), n) <=> x \in DOMAIN h2[n] \/ T(x) # {}
    BY EventuallyIs
  <2>3. \A x : x \in DOMAIN Eventually(h, q, n) <=> x \in DOMAIN h[n] \/ S(x) # {}
    BY EventuallyIs
  <2> HIDE DEF S, T
  <2>4. \A x : x \in DOMAIN Eventually(h2, Tail(q), n) <=> x \in DOMAIN Eventually(h, q, n)
    BY <2>1, <2>2, <2>3
  <2> QED
    BY <2>4
<1>4. ASSUME NEW x \in DOMAIN Eventually(h, q, n)
      PROVE  Value(h2, Tail(q), n, x) = Value(h, q, n, x)
  <2>1. CASE T(x) # {}
    BY <2>1, LastTask DEF Value
  <2>2. CASE T(x) = {} /\ Head(q).into = n /\ x \in DOMAIN Head(q).new
    <3>1. S(x) = {1}
      BY <1>2, <2>2
    <3>2. Max(S(x)) = 1
      <4>1. {1} \subseteq Int /\ 1 \in {1} /\ \A y \in {1} : y <= 1
        OBVIOUS
      <4>2. Max({1}) = 1
        BY <4>1, MaxIs
      <4> QED
        BY <3>1, <4>2
    <3>3. Value(h2, Tail(q), n, x) = Head(q).new[x]
      BY <1>a, <2>2 DEF Value
    <3>4. Value(h, q, n, x) = q[1].new[x]
      BY <3>1, <3>2 DEF Value
    <3> QED
      BY <3>3, <3>4
  <2>3. CASE T(x) = {} /\ ~(Head(q).into = n /\ x \in DOMAIN Head(q).new)
    <3>1. S(x) = {}
      BY <1>2, <2>3
    <3>2. x \in DOMAIN h[n]
      BY <3>1, EventuallyIs
    <3>3. h2[n][x] = h[n][x]
      BY <1>a, <1>b, <2>3, <3>2
    <3> QED
      BY <2>3, <3>1, <3>3 DEF Value
  <2> QED
    BY <2>1, <2>2, <2>3
<1>5. \A x \in DOMAIN Eventually(h, q, n) : Eventually(h2, Tail(q), n)[x] = Eventually(h, q, n)[x]
  BY <1>3, <1>4, EventuallyIs
<1> HIDE DEF S, T
<1> QED
  BY <1>3, <1>5, EventuallyIs, Agree

\* What becomes of the n-th mapping when the tasks ts are queued behind q.
Queued(h, r, q, ts, n) ==
  /\ (\A i \in DOMAIN ts : ts[i].into # n) => Eventually(h, r, n) = Eventually(h, q, n)
  /\ \A i \in DOMAIN ts :
       ts[i].into = n => Eventually(h, r, n) = Upon(ts[i].new, Eventually(h, q, n))

\* A task that is queued for a mapping is put upon what it would have been.
LEMMA TaskQueued ==
  ASSUME NEW X, NEW q \in Seq(X), NEW ts \in Seq(X), NEW h, NEW n,
         NEW r, r = q \o ts,
         \A i, j \in DOMAIN ts : ts[i].into = n /\ ts[j].into = n => i = j
  PROVE  Queued(h, r, q, ts, n)
<1> DEFINE S(x) == Saying(q, n, x)
           R(x) == Saying(r, n, x)
<1>1. /\ Len(q) \in Nat /\ Len(ts) \in Nat
      /\ DOMAIN q = 1..Len(q) /\ DOMAIN ts = 1..Len(ts)
      /\ DOMAIN r = 1..(Len(q) + Len(ts))
      /\ \A i \in 1..Len(q) : r[i] = q[i]
      /\ \A i \in 1..Len(ts) : r[Len(q) + i] = ts[i]
  OBVIOUS
<1>2. \A i \in DOMAIN r : i \in 1..Len(q) \/ \E j \in 1..Len(ts) : i = Len(q) + j
  <2>1. ASSUME NEW i \in DOMAIN r, i \notin 1..Len(q)
        PROVE  i - Len(q) \in 1..Len(ts) /\ i = Len(q) + (i - Len(q))
    BY <1>1, <2>1
  <2> QED
    BY <2>1
<1>3. ASSUME NEW x PROVE S(x) \subseteq R(x) /\ S(x) \subseteq 1..Len(q)
  BY <1>1 DEF Saying, TasksInto
<1>4. ASSUME NEW x, NEW i \in R(x), i \notin S(x)
      PROVE  \E j \in 1..Len(ts) :
               i = Len(q) + j /\ ts[j].into = n /\ x \in DOMAIN ts[j].new
  BY <1>1, <1>2, <1>4 DEF Saying, TasksInto
<1>5. ASSUME \A i \in DOMAIN ts : ts[i].into # n
      PROVE  Eventually(h, r, n) = Eventually(h, q, n)
  <2>1. ASSUME NEW x PROVE R(x) = S(x)
    <3>1. \A i \in R(x) : i \in S(x)
      BY <1>1, <1>4, <1>5
    <3> HIDE DEF R, S
    <3> QED
      BY <1>3, <3>1
  <2>2. ASSUME NEW x, S(x) # {} PROVE r[Max(S(x))] = q[Max(S(x))]
    <3>1. Max(S(x)) \in S(x)
      BY <1>1, <1>3, <2>2, MaxExists
    <3> QED
      BY <1>1, <1>3, <3>1
  <2>3. \A x : Value(h, r, n, x) = Value(h, q, n, x)
    BY <2>1, <2>2 DEF Value
  <2>4. DOMAIN Eventually(h, r, n) = DOMAIN Eventually(h, q, n)
    <3>1. \A x : x \in DOMAIN Eventually(h, r, n) <=> x \in DOMAIN h[n] \/ R(x) # {}
      BY EventuallyIs
    <3>2. \A x : x \in DOMAIN Eventually(h, q, n) <=> x \in DOMAIN h[n] \/ S(x) # {}
      BY EventuallyIs
    <3>3. \A x : x \in DOMAIN Eventually(h, r, n) <=> x \in DOMAIN Eventually(h, q, n)
      BY <2>1, <3>1, <3>2
    <3> QED
      BY <3>3
  <2>5. \A x \in DOMAIN Eventually(h, q, n) : Eventually(h, r, n)[x] = Eventually(h, q, n)[x]
    BY <2>3, <2>4, EventuallyIs
  <2> QED
    BY <2>4, <2>5, EventuallyIs, Agree
<1>6. ASSUME NEW i \in DOMAIN ts, ts[i].into = n
      PROVE  Eventually(h, r, n) = Upon(ts[i].new, Eventually(h, q, n))
  <2> DEFINE new == ts[i].new
  <2>1. ASSUME NEW x, x \in DOMAIN new
        PROVE  R(x) # {} /\ Max(R(x)) = Len(q) + i
    <3>1. Len(q) + i \in R(x)
      BY <1>1, <1>6, <2>1 DEF Saying, TasksInto
    <3>2. ASSUME NEW y \in R(x) PROVE y \in Int /\ y <= Len(q) + i
      <4>1. CASE y \in S(x)
        BY <1>1, <1>3, <4>1
      <4>2. CASE y \notin S(x)
        <5>1. PICK j \in 1..Len(ts) : y = Len(q) + j /\ ts[j].into = n
          BY <1>4, <4>2
        <5>2. j = i
          BY <1>1, <1>6, <5>1
        <5> QED
          BY <1>1, <5>1, <5>2
      <4> QED
        BY <4>1, <4>2
    <3>3. R(x) \subseteq Int /\ \A y \in R(x) : y <= Len(q) + i
      BY <3>2
    <3> HIDE DEF R
    <3> QED
      BY <3>1, <3>3, MaxIs
  <2>2. ASSUME NEW x, x \notin DOMAIN new PROVE R(x) = S(x)
    BY <1>1, <1>3, <1>4, <1>6, <2>2
  <2>3. ASSUME NEW x, x \notin DOMAIN new, S(x) # {} PROVE r[Max(S(x))] = q[Max(S(x))]
    <3>1. Max(S(x)) \in S(x)
      BY <1>1, <1>3, <2>3, MaxExists
    <3> QED
      BY <1>1, <1>3, <3>1
  <2>4. DOMAIN Eventually(h, r, n) = DOMAIN new \cup DOMAIN Eventually(h, q, n)
    <3>1. \A x : x \in DOMAIN Eventually(h, r, n) <=> x \in DOMAIN h[n] \/ R(x) # {}
      BY EventuallyIs
    <3>2. \A x : x \in DOMAIN Eventually(h, q, n) <=> x \in DOMAIN h[n] \/ S(x) # {}
      BY EventuallyIs
    <3> HIDE DEF R, S, new
    <3>3. \A x : x \in DOMAIN Eventually(h, r, n)
                  <=> x \in DOMAIN new \/ x \in DOMAIN Eventually(h, q, n)
      BY <2>1, <2>2, <3>1, <3>2
    <3> QED
      BY <3>3
  <2>5. ASSUME NEW x \in DOMAIN Eventually(h, r, n)
        PROVE  Eventually(h, r, n)[x] = Upon(new, Eventually(h, q, n))[x]
    <3>1. CASE x \in DOMAIN new
      <4>1. Value(h, r, n, x) = r[Len(q) + i].new[x]
        BY <2>1, <3>1 DEF Value
      <4>2. r[Len(q) + i] = ts[i]
        BY <1>1
      <4>3. Upon(new, Eventually(h, q, n))[x] = new[x]
        BY <3>1 DEF Upon
      <4>4. Eventually(h, r, n)[x] = Value(h, r, n, x)
        BY <2>5, EventuallyIs
      <4> QED
        BY <4>1, <4>2, <4>3, <4>4
    <3>2. CASE x \notin DOMAIN new
      <4>1. Value(h, r, n, x) = Value(h, q, n, x)
        BY <2>2, <2>3, <3>2 DEF Value
      <4>2. x \in DOMAIN Eventually(h, q, n) \ DOMAIN new
        BY <2>4, <2>5, <3>2
      <4>3. Upon(new, Eventually(h, q, n))[x] = Eventually(h, q, n)[x]
        BY <4>2 DEF Upon
      <4>4. Eventually(h, r, n)[x] = Value(h, r, n, x)
        BY <2>5, EventuallyIs
      <4>5. Eventually(h, q, n)[x] = Value(h, q, n, x)
        BY <4>2, EventuallyIs
      <4> QED
        BY <4>1, <4>3, <4>4, <4>5
    <3> QED
      BY <3>1, <3>2
  <2> HIDE DEF new
  <2>6. DOMAIN Upon(new, Eventually(h, q, n)) = DOMAIN Eventually(h, r, n)
    BY <2>4, UponIs
  <2>7. Eventually(h, r, n) = Upon(new, Eventually(h, q, n))
    <3>1. IsFcn(Upon(new, Eventually(h, q, n))) /\ IsFcn(Eventually(h, r, n))
      BY UponIs, EventuallyIs
    <3> QED
      BY <2>5, <2>6, <3>1, Agree
  <2> QED
    BY <2>7 DEF new
<1> QED
  BY <1>5, <1>6 DEF Queued

(***************************************************************************)
(* The steps of merge().                                                   *)
(***************************************************************************)
LEMMA SeqRange ==
  ASSUME NEW f, NEW n \in Nat, DOMAIN f = 1..n, IsFcn(f)
  PROVE  f \in Seq(Range(f)) /\ Len(f) = n
<1>1. f \in [1..n -> Range(f)]
  BY DEF IsFcn, Range
<1> QED
  BY <1>1

\* What a sequence that joins two others is made of.
Joins(r, s, t) ==
  /\ r \in Seq(Range(r)) /\ Len(r) = Len(s) + Len(t) /\ DOMAIN r = 1..Len(r)
  /\ \A i \in DOMAIN s : r[i] = s[i] /\ i \in DOMAIN r
  /\ \A i \in DOMAIN t : r[Len(s) + i] = t[i] /\ Len(s) + i \in DOMAIN r
  /\ \A i \in DOMAIN r :
       \/ i \in DOMAIN s /\ r[i] = s[i]
       \/ \E j \in DOMAIN t : i = Len(s) + j /\ r[i] = t[j]

\* s \o t is made of s and t.
LEMMA Concat ==
  ASSUME NEW X, NEW s \in Seq(X), NEW t \in Seq(X)
  PROVE  Joins(s \o t, s, t)
<1>0. PICK r : r = s \o t
  OBVIOUS
<1>1. /\ Len(s) \in Nat /\ Len(t) \in Nat
      /\ DOMAIN s = 1..Len(s) /\ DOMAIN t = 1..Len(t)
      /\ r \in Seq(X) /\ Len(r) = Len(s) + Len(t) /\ DOMAIN r = 1..Len(r)
      /\ \A i \in 1..Len(s) : r[i] = s[i]
      /\ \A i \in 1..Len(t) : r[Len(s) + i] = t[i]
  BY <1>0
<1>2. IsFcn(r)
  <2>1. r \in [1..Len(r) -> X]
    BY <1>1, LenProperties
  <2> QED
    BY <2>1 DEF IsFcn
<1>3. r \in Seq(Range(r))
  <2>1. Len(r) \in Nat
    BY <1>1
  <2> QED
    BY <1>1, <1>2, <2>1, SeqRange
<1>4. ASSUME NEW i \in DOMAIN r, i \notin DOMAIN s
      PROVE  i - Len(s) \in DOMAIN t /\ i = Len(s) + (i - Len(s))
  BY <1>1, <1>4
<1>5. ASSUME NEW i \in DOMAIN r
      PROVE  \/ i \in DOMAIN s /\ r[i] = s[i]
             \/ \E j \in DOMAIN t : i = Len(s) + j /\ r[i] = t[j]
  <2>1. CASE i \notin DOMAIN s
    <3>1. PICK j \in DOMAIN t : i = Len(s) + j
      BY <1>4, <2>1
    <3> QED
      BY <1>1, <3>1
  <2> QED
    BY <1>1, <2>1
<1> QED
  BY <1>0, <1>1, <1>3, <1>5 DEF Joins

\* A task that is into a mapping comes after all layers, and is put upon it.
LEMMA IntoMapping ==
  ASSUME NEW L, Len(L) \in Nat, NEW m \in 0..Len(L), MergedFirst(L, m),
         queue # <<>>, Head(queue).into # 0, MergeInto(Head(queue), Tail(queue))
  PROVE  MergedFirst(L, m)'
<1> DEFINE t == Head(queue).into
           new == Head(queue).new
<1>1. /\ queue \in Seq(Range(queue)) /\ heap \in Seq(Range(heap))
      /\ Len(queue) \in Nat \ {0} /\ DOMAIN queue = 1..Len(queue)
      /\ Head(queue) = queue[1] /\ 1 \in DOMAIN queue
      /\ Len(heap) \in Nat /\ DOMAIN heap = 1..Len(heap)
  BY DEF MergedFirst
<1>2. m = Len(L)
  <2>1. ASSUME 1 <= Len(L) - m PROVE FALSE
    <3>1. queue[1] = [into |-> 0, new |-> L[m + 1]]
      BY <1>1, <2>1 DEF MergedFirst
    <3> QED
      BY <1>1, <3>1
  <2> QED
    BY <2>1
<1>3. \A i \in DOMAIN queue : queue[i].into \in DOMAIN heap
  <2>1. \A i \in DOMAIN queue : ~(i <= Len(L) - m)
    BY <1>1, <1>2
  <2> QED
    BY <2>1 DEF MergedFirst
<1>4. t \in DOMAIN heap
  BY <1>1, <1>3
<1>5. /\ heap' = [heap EXCEPT ![t] = Upon(new, heap[t])]
      /\ queue' = Tail(queue) /\ result' = result
  BY DEF MergeInto
<1>6. /\ DOMAIN heap' = DOMAIN heap
      /\ \A n \in DOMAIN heap : heap'[n] = IF n = t THEN Upon(new, heap[n]) ELSE heap[n]
  <2> HIDE DEF t, new
  <2> QED
    BY <1>4, <1>5
<1>7. /\ DOMAIN queue' = 1..(Len(queue) - 1) /\ Len(queue') = Len(queue) - 1
      /\ queue' \in Seq(Range(queue))
      /\ \A i \in DOMAIN queue' : queue'[i] = queue[i + 1] /\ i + 1 \in DOMAIN queue
  BY <1>1, <1>5
<1>8. heap' \in Seq(Range(heap')) /\ queue' \in Seq(Range(queue'))
  <2>1. IsFcn(heap')
    <3> HIDE DEF t, new
    <3> QED
      BY <1>5 DEF IsFcn
  <2>2. IsFcn(queue')
    BY <1>7 DEF IsFcn
  <2> QED
    BY <1>1, <1>6, <1>7, <2>1, <2>2, SeqRange
<1>9. Len(queue') >= Len(L) - m
  BY <1>1, <1>2, <1>7
<1>10. \A i \in DOMAIN queue' :
         IF i <= Len(L) - m THEN queue'[i] = [into |-> 0, new |-> L[m + i]]
         ELSE queue'[i].into \in DOMAIN heap'
  <2>1. ASSUME NEW i \in DOMAIN queue'
        PROVE  ~(i <= Len(L) - m) /\ queue'[i].into \in DOMAIN heap'
    BY <1>1, <1>2, <1>3, <1>6, <1>7
  <2> QED
    BY <2>1
<1>11. \A n \in DOMAIN heap' : heap'[n] = [x \in DOMAIN heap'[n] |-> heap'[n][x]]
  <2>1. ASSUME NEW n \in DOMAIN heap PROVE IsFcn(heap'[n])
    <3>1. IsFcn(heap[n])
      BY DEF MergedFirst, IsFcn
    <3>2. IsFcn(Upon(new, heap[n]))
      BY UponIs
    <3> QED
      BY <1>6, <3>1, <3>2
  <2> QED
    BY <1>6, <2>1 DEF IsFcn
<1>12. ASSUME NEW n \in DOMAIN heap
       PROVE  Eventually(heap', queue', n) = Eventually(heap, queue, n)
  <2>1. IF Head(queue).into = n THEN heap'[n] = Upon(Head(queue).new, heap[n]) ELSE heap'[n] = heap[n]
    BY <1>6
  <2>2. Eventually(heap', Tail(queue), n) = Eventually(heap, queue, n)
    BY <1>1, <2>1, TaskDone
  <2> QED
    BY <1>5, <2>2
<1>13. DOMAIN result' = SetBy(L, m)
  BY <1>5 DEF MergedFirst
<1>14. \A k \in DOMAIN result' :
         IF result'[k].is = "ref"
         THEN /\ result'[k].ref \in DOMAIN heap'
              /\ ByPriority(L, m, k) = Mapping(Eventually(heap', queue', result'[k].ref))
              /\ \A l \in DOMAIN result' \ {k} :
                   result'[l].is = "ref" => result'[l].ref # result'[k].ref
         ELSE result'[k] = ByPriority(L, m, k) /\ ~IsMap(result'[k])
  BY <1>5, <1>6, <1>12 DEF MergedFirst
<1> QED
  BY <1>8, <1>9, <1>10, <1>11, <1>13, <1>14 DEF MergedFirst

\* SetToSeq lists a finite set, each element once.
LEMMA SetToSeqIs ==
  ASSUME NEW S, IsFiniteSet(S)
  PROVE  /\ SetToSeq(S) \in Seq(S) /\ Len(SetToSeq(S)) \in Nat
         /\ DOMAIN SetToSeq(S) = 1..Len(SetToSeq(S))
         /\ \A x \in S : \E i \in DOMAIN SetToSeq(S) : SetToSeq(S)[i] = x
         /\ \A i \in DOMAIN SetToSeq(S) : SetToSeq(S)[i] \in S
         /\ \A i, j \in DOMAIN SetToSeq(S) : SetToSeq(S)[i] = SetToSeq(S)[j] => i = j
<1> DEFINE n == Cardinality(S)
<1>1. n \in Nat /\ ExistsBijection(1..n, S)
  BY FS_CardinalityType
<1>2. PICK b \in Bijection(1..n, S) : TRUE
  BY <1>1 DEF ExistsBijection
<1>3. b \in [1..n -> S] /\ IsInjective(b)
  BY <1>2 DEF Bijection, Injection, IsInjective
<1>4. PICK s : s = SetToSeq(S)
  OBVIOUS
<1>5. s \in [1..n -> S] /\ IsInjective(s)
  BY <1>3, <1>4 DEF SetToSeq
<1>6. s \in Injection(1..n, S)
  BY <1>5 DEF Injection, IsInjective
<1>7. IsFiniteSet(1..n) /\ Cardinality(1..n) = n
  BY <1>1, FS_Interval
<1>8. s \in Surjection(1..n, S)
  BY <1>6, <1>7, FS_Injection
<1>9. s \in Seq(S) /\ Len(s) = n /\ DOMAIN s = 1..n
  BY <1>1, <1>5
<1>10. \A x \in S : \E i \in 1..n : s[i] = x
  BY <1>8 DEF Surjection
<1>11. \A i, j \in 1..n : s[i] = s[j] => i = j
  BY <1>5, <1>9 DEF IsInjective
<1> QED
  BY <1>1, <1>4, <1>5, <1>9, <1>10, <1>11

\* A mapping for which nothing is queued stays as it is.
LEMMA NoTask ==
  ASSUME NEW h, NEW q, NEW n, IsFcn(h[n]), \A i \in DOMAIN q : q[i].into # n
  PROVE  Eventually(h, q, n) = h[n]
<1>1. \A x : Saying(q, n, x) = {}
  BY DEF Saying, TasksInto
<1>2. \A x : x \in DOMAIN Eventually(h, q, n) <=> x \in DOMAIN h[n]
  BY <1>1, EventuallyIs
<1>3. \A x \in DOMAIN Eventually(h, q, n) : Eventually(h, q, n)[x] = h[n][x]
  BY <1>1, EventuallyIs DEF Value
<1>4. DOMAIN Eventually(h, q, n) = DOMAIN h[n]
  BY <1>2
<1> QED
  BY <1>3, <1>4, EventuallyIs, Agree

\* The options that one layer more sets.
LEMMA SetByMore ==
  ASSUME NEW L, NEW m \in Nat
  PROVE  /\ SetBy(L, m + 1) = SetBy(L, m) \cup DOMAIN L[m + 1]
         /\ \A k : k \in SetBy(L, m) <=> Setting(L, m, k) # {}
<1>1. 1..(m + 1) = 1..m \cup {m + 1}
  OBVIOUS
<1> QED
  BY <1>1 DEF SetBy, Setting

\* What the next layer does to the result: an option is left alone, is opened
\* for its mapping to be merged later, gets a copy of a mapping, or a value.
TakesIn(r, new, c) ==
  /\ DOMAIN r = DOMAIN result \cup DOMAIN new
  /\ \A k \in DOMAIN r :
       \/ k \in DOMAIN result \ DOMAIN new /\ r[k] = result[k]
       \/ /\ k \in DOMAIN new /\ k \in DOMAIN result /\ IsMap(new[k])
          /\ k \in Opened(new) /\ result[k].is = "ref" /\ r[k] = result[k]
       \/ /\ k \in DOMAIN new /\ IsMap(new[k])
          /\ k \in DOMAIN result => result[k].is # "ref"
          /\ \E i \in DOMAIN c : c[i] = k /\ r[k] = Ref(Len(heap) + i)
       \/ /\ k \in DOMAIN new /\ ~IsMap(new[k]) /\ new[k].is # "ref"
          /\ r[k] = new[k]

\* The result of the first part of _merge() is made of the old one and the layer.
LEMMA NewResult ==
  ASSUME NEW new, IsDict(new), NEW c, c = SetToSeq(Copied(new)),
         NEW value,
         \A k \in DOMAIN new \ Opened(new) :
           value[k] = IF IsMap(new[k]) THEN Ref(Len(heap) + CHOOSE i \in DOMAIN c : c[i] = k)
                      ELSE new[k],
         DOMAIN value = DOMAIN new \ Opened(new),
         NEW r, r = Upon(value, result)
  PROVE  TakesIn(r, new, c)
<1>1. Opened(new) \subseteq DOMAIN result /\ Opened(new) \subseteq DOMAIN new
  BY DEF Opened
<1>2. DOMAIN r = DOMAIN result \cup DOMAIN new
  BY <1>1 DEF Upon
<1>3. \A k \in DOMAIN r :
        r[k] = IF k \in DOMAIN new \ Opened(new) THEN value[k] ELSE result[k]
  BY <1>1, <1>2 DEF Upon
<1>4. ASSUME NEW k \in DOMAIN new \ Opened(new), IsMap(new[k])
      PROVE  /\ k \in DOMAIN result => result[k].is # "ref"
             /\ \E i \in DOMAIN c : c[i] = k /\ r[k] = Ref(Len(heap) + i)
  <2>1. k \in DOMAIN result => result[k].is # "ref"
    BY <1>4 DEF Opened
  <2>2. \E i \in DOMAIN c : c[i] = k
    <3>1. IsFiniteSet(Copied(new))
      BY FS_Subset DEF Copied, IsDict
    <3>2. k \in Copied(new)
      BY <1>4 DEF Copied
    <3> QED
      BY <3>1, <3>2, SetToSeqIs
  <2>3. PICK i : i = CHOOSE j \in DOMAIN c : c[j] = k
    OBVIOUS
  <2>4. i \in DOMAIN c /\ c[i] = k
    BY <2>2, <2>3
  <2>5. r[k] = Ref(Len(heap) + i)
    BY <1>2, <1>3, <1>4, <2>3
  <2> QED
    BY <2>1, <2>4, <2>5
<1>5. ASSUME NEW k \in DOMAIN new \ Opened(new), ~IsMap(new[k])
      PROVE  new[k].is # "ref" /\ r[k] = new[k]
  BY <1>2, <1>3, <1>5 DEF IsDict, IsMap
<1>6. \A k \in Opened(new) : r[k] = result[k] /\ result[k].is = "ref" /\ IsMap(new[k])
  BY <1>1, <1>2, <1>3 DEF Opened
<1>7. \A k \in DOMAIN result \ DOMAIN new : r[k] = result[k]
  BY <1>2, <1>3
<1> QED
  BY <1>1, <1>2, <1>4, <1>5, <1>6, <1>7 DEF TakesIn

\* The next layer: its mappings over mappings are queued, its other mappings
\* get places of their own.
LEMMA IntoResult ==
  ASSUME NEW L, Len(L) \in Nat, AreDicts(L), NEW m \in 0..Len(L), MergedFirst(L, m),
         queue # <<>>, Head(queue).into = 0, MergeInto(Head(queue), Tail(queue))
  PROVE  m + 1 \in 0..Len(L) /\ MergedFirst(L, m + 1)'
<1>1. /\ queue \in Seq(Range(queue)) /\ heap \in Seq(Range(heap))
      /\ Len(queue) \in Nat \ {0} /\ DOMAIN queue = 1..Len(queue)
      /\ Head(queue) = queue[1] /\ 1 \in DOMAIN queue
      /\ Len(heap) \in Nat /\ DOMAIN heap = 1..Len(heap)
  BY DEF MergedFirst
<1>2. /\ m + 1 \in 1..Len(L) /\ m \in Nat
      /\ Head(queue) = [into |-> 0, new |-> L[m + 1]]
  <2>1. ASSUME ~(1 <= Len(L) - m) PROVE FALSE
    <3>1. queue[1].into \in DOMAIN heap
      BY <1>1, <2>1 DEF MergedFirst
    <3> QED
      BY <1>1, <3>1
  <2>2. queue[1] = [into |-> 0, new |-> L[m + 1]]
    BY <1>1, <2>1 DEF MergedFirst
  <2> QED
    BY <1>1, <2>1, <2>2
<1> DEFINE new == Head(queue).new
           c == SetToSeq(Copied(new))
           o == SetToSeq(Opened(new))
<1>3. new = L[m + 1]
  BY <1>2
<1>4. IsDict(new)
  BY <1>2, <1>3 DEF AreDicts
<1>5. c = SetToSeq(Copied(new)) /\ o = SetToSeq(Opened(new))
  OBVIOUS
<1>6. /\ Len(c) \in Nat /\ DOMAIN c = 1..Len(c) /\ c \in Seq(Copied(new))
      /\ \A i \in DOMAIN c : c[i] \in Copied(new)
      /\ \A i, j \in DOMAIN c : c[i] = c[j] => i = j
      /\ Len(o) \in Nat /\ DOMAIN o = 1..Len(o) /\ o \in Seq(Opened(new))
      /\ \A i \in DOMAIN o : o[i] \in Opened(new)
      /\ \A i, j \in DOMAIN o : o[i] = o[j] => i = j
      /\ \A k \in Opened(new) : \E i \in DOMAIN o : o[i] = k
  <2>1. IsFiniteSet(Opened(new)) /\ IsFiniteSet(Copied(new))
    BY <1>4, FS_Subset DEF IsDict, Opened, Copied
  <2> QED
    BY <1>5, <2>1, SetToSeqIs
<1> DEFINE hs == [i \in DOMAIN c |-> new[c[i]].map]
           ts == [i \in DOMAIN o |-> [into |-> result[o[i]].ref, new |-> new[o[i]].map]]
           value == [k \in DOMAIN new \ Opened(new) |->
                       IF IsMap(new[k]) THEN Ref(Len(heap) + CHOOSE i \in DOMAIN c : c[i] = k)
                       ELSE new[k]]
<1>7. /\ heap' = heap \o hs /\ queue' = Tail(queue) \o ts
      /\ result' = Upon(value, result)
  <2>2. heap' = heap \o hs
    BY DEF MergeInto
  <2>3. queue' = Tail(queue) \o ts
    BY DEF MergeInto
  <2>4. result' = Upon(value, result)
    BY Zenon DEF MergeInto
  <2> QED
    BY <2>2, <2>3, <2>4
<1>8. /\ DOMAIN value = DOMAIN new \ Opened(new)
      /\ \A k \in DOMAIN new \ Opened(new) :
           value[k] = IF IsMap(new[k]) THEN Ref(Len(heap) + CHOOSE i \in DOMAIN c : c[i] = k)
                      ELSE new[k]
  OBVIOUS
<1> HIDE DEF new, c, o, value, hs, ts
<1>9. TakesIn(result', new, c)
  BY <1>4, <1>5, <1>7, <1>8, NewResult
<1>10. /\ Len(hs) = Len(c) /\ DOMAIN hs = 1..Len(c) /\ hs \in Seq(Range(hs))
      /\ Len(ts) = Len(o) /\ DOMAIN ts = 1..Len(o) /\ ts \in Seq(Range(ts))
  <2>1. DOMAIN hs = 1..Len(c) /\ IsFcn(hs) /\ DOMAIN ts = 1..Len(o) /\ IsFcn(ts)
    BY <1>6 DEF IsFcn, hs, ts
  <2> QED
    BY <1>6, <2>1, SeqRange
<1>11. \A i \in DOMAIN o :
         /\ ts[i].into = result[o[i]].ref /\ ts[i].new = new[o[i]].map
         /\ o[i] \in DOMAIN result /\ result[o[i]].is = "ref"
         /\ ts[i].into \in DOMAIN heap
  BY <1>6 DEF Opened, MergedFirst, ts
<1>12. \A i \in DOMAIN c : hs[i] = new[c[i]].map /\ IsFcn(hs[i])
  BY <1>4, <1>6 DEF IsDict, IsFcn, Copied, IsMap, hs
<1>13. /\ heap' \in Seq(Range(heap')) /\ Len(heap') = Len(heap) + Len(c)
       /\ \A n \in DOMAIN heap : heap'[n] = heap[n] /\ n \in DOMAIN heap'
       /\ \A i \in DOMAIN c : heap'[Len(heap) + i] = hs[i] /\ Len(heap) + i \in DOMAIN heap'
       /\ \A n \in DOMAIN heap' :
            \/ n \in DOMAIN heap
            \/ \E i \in DOMAIN c : n = Len(heap) + i /\ heap'[n] = hs[i]
  <2>1. heap \in Seq(Range(heap) \cup Range(hs)) /\ hs \in Seq(Range(heap) \cup Range(hs))
    BY <1>1, <1>10
  <2>2. PICK X : heap \in Seq(X) /\ hs \in Seq(X)
    BY <2>1
  <2>3. Joins(heap', heap, hs)
    BY <1>7, <2>2, Concat
  <2> QED
    BY <1>6, <1>10, <2>3 DEF Joins
<1>14. /\ Len(Tail(queue)) = Len(queue) - 1 /\ DOMAIN Tail(queue) = 1..(Len(queue) - 1)
       /\ Tail(queue) \in Seq(Range(queue) \cup Range(ts))
       /\ \A i \in 1..(Len(queue) - 1) : Tail(queue)[i] = queue[i + 1]
  BY <1>1
<1>15. ts \in Seq(Range(queue) \cup Range(ts))
  BY <1>10
<1>16. /\ queue' \in Seq(Range(queue')) /\ Len(queue') = Len(queue) - 1 + Len(o)
       /\ \A i \in 1..(Len(queue) - 1) : queue'[i] = queue[i + 1]
       /\ \A i \in DOMAIN queue' :
            \/ i \in 1..(Len(queue) - 1) /\ queue'[i] = queue[i + 1]
            \/ \E j \in DOMAIN o : i = Len(queue) - 1 + j /\ queue'[i] = ts[j]
  <2>1. PICK X : Tail(queue) \in Seq(X) /\ ts \in Seq(X)
    BY <1>14, <1>15
  <2>2. Joins(queue', Tail(queue), ts)
    BY <1>7, <2>1, Concat
  <2>3. PICK s : s = Tail(queue)
    OBVIOUS
  <2>4. /\ Len(s) = Len(queue) - 1 /\ DOMAIN s = 1..(Len(queue) - 1)
        /\ \A i \in DOMAIN s : s[i] = queue[i + 1]
        /\ DOMAIN ts = DOMAIN o /\ Len(ts) = Len(o)
    BY <1>6, <1>10, <1>14, <2>3
  <2>5. Joins(queue', s, ts)
    BY <2>2, <2>3
  <2>6. queue' \in Seq(Range(queue')) /\ Len(queue') = Len(queue) - 1 + Len(o)
    BY <2>4, <2>5 DEF Joins
  <2>7. \A i \in 1..(Len(queue) - 1) : queue'[i] = queue[i + 1]
    BY <2>4, <2>5 DEF Joins
  <2>8. ASSUME NEW i \in DOMAIN queue'
        PROVE  \/ i \in 1..(Len(queue) - 1) /\ queue'[i] = queue[i + 1]
               \/ \E j \in DOMAIN o : i = Len(queue) - 1 + j /\ queue'[i] = ts[j]
    <3>1. \/ i \in DOMAIN s /\ queue'[i] = s[i]
          \/ \E j \in DOMAIN ts : i = Len(s) + j /\ queue'[i] = ts[j]
      BY <2>5 DEF Joins
    <3> QED
      BY <2>4, <3>1
  <2> QED
    BY <2>6, <2>7, <2>8
<1>17. ASSUME NEW n \in DOMAIN heap
       PROVE  Eventually(heap', Tail(queue), n) = Eventually(heap, queue, n)
  <2>1. Head(queue).into # n
    BY <1>1, <1>2
  <2>2. heap'[n] = heap[n]
    BY <1>13
  <2> QED
    BY <1>1, <2>1, <2>2, TaskDone
<1>18. \A i, j \in DOMAIN ts : ts[i].into = ts[j].into => i = j
  <2>1. ASSUME NEW i \in DOMAIN o, NEW j \in DOMAIN o, ts[i].into = ts[j].into
        PROVE  i = j
    <3>1. result[o[i]].ref = result[o[j]].ref
      BY <1>11, <2>1
    <3>2. o[i] = o[j]
      BY <1>11, <3>1 DEF MergedFirst
    <3> QED
      BY <1>6, <3>2
  <2> QED
    BY <1>6, <1>10, <2>1
\* An option that is not opened is what it would have been.
<1>19. ASSUME NEW k \in DOMAIN result, result[k].is = "ref", k \notin Opened(new)
       PROVE  Eventually(heap', queue', result[k].ref) = Eventually(heap, queue, result[k].ref)
  <2>a. PICK X : Tail(queue) \in Seq(X) /\ ts \in Seq(X)
    BY <1>14, <1>15
  <2>b. \A i, j \in DOMAIN ts :
          ts[i].into = result[k].ref /\ ts[j].into = result[k].ref => i = j
    BY <1>18
  <2>1. result[k].ref \in DOMAIN heap
    BY <1>19 DEF MergedFirst
  <2>2. ASSUME NEW i \in DOMAIN ts PROVE ts[i].into # result[k].ref
    <3>1. o[i] \in Opened(new) /\ i \in DOMAIN o
      BY <1>6, <1>10, <2>2
    <3>2. o[i] # k
      BY <1>19, <3>1
    <3>3. result[o[i]].ref # result[k].ref
      BY <1>11, <1>19, <3>1, <3>2 DEF MergedFirst
    <3> QED
      BY <1>11, <3>1, <3>3
  <2>c. Queued(heap', queue', Tail(queue), ts, result[k].ref)
    BY <1>7, <2>a, <2>b, TaskQueued
  <2>3. Eventually(heap', queue', result[k].ref) = Eventually(heap', Tail(queue), result[k].ref)
    BY <2>2, <2>c DEF Queued
  <2> QED
    BY <1>7, <1>17, <2>1, <2>3
\* The new mapping of one that is opened is put upon it.
<1>20. ASSUME NEW k \in Opened(new)
       PROVE  Eventually(heap', queue', result[k].ref)
                = Upon(new[k].map, Eventually(heap, queue, result[k].ref))
  <2>a. PICK X : Tail(queue) \in Seq(X) /\ ts \in Seq(X)
    BY <1>14, <1>15
  <2>b. \A i, j \in DOMAIN ts :
          ts[i].into = result[k].ref /\ ts[j].into = result[k].ref => i = j
    BY <1>18
  <2>1. PICK i \in DOMAIN o : o[i] = k
    BY <1>6
  <2>2. ts[i].into = result[k].ref /\ ts[i].new = new[k].map /\ i \in DOMAIN ts
    BY <1>6, <1>10, <1>11, <2>1
  <2>3. result[k].ref \in DOMAIN heap
    BY <1>11, <2>1, <2>2
  <2>c. Queued(heap', queue', Tail(queue), ts, result[k].ref)
    BY <1>7, <2>a, <2>b, TaskQueued
  <2>4. Eventually(heap', queue', result[k].ref)
          = Upon(ts[i].new, Eventually(heap', Tail(queue), result[k].ref))
    BY <2>2, <2>c DEF Queued
  <2> QED
    BY <1>7, <1>17, <2>2, <2>3, <2>4
<1>21. \A i \in DOMAIN queue : queue[i].into = 0 \/ queue[i].into \in DOMAIN heap
  BY DEF MergedFirst
<1>22. \A i \in DOMAIN queue' : queue'[i].into = 0 \/ queue'[i].into \in DOMAIN heap
  <2>1. \A i \in 1..(Len(queue) - 1) : i + 1 \in DOMAIN queue
    BY <1>1
  <2>2. ASSUME NEW i \in DOMAIN queue'
        PROVE  queue'[i].into = 0 \/ queue'[i].into \in DOMAIN heap
    <3>1. CASE i \in 1..(Len(queue) - 1) /\ queue'[i] = queue[i + 1]
      BY <1>21, <2>1, <3>1
    <3>2. CASE \E j \in DOMAIN o : i = Len(queue) - 1 + j /\ queue'[i] = ts[j]
      BY <1>11, <3>2
    <3> QED
      BY <1>16, <3>1, <3>2
  <2> QED
    BY <2>2
\* A mapping in a place of its own is as the layer says.
<1>23. ASSUME NEW i \in DOMAIN c
       PROVE  /\ Len(heap) + i \notin DOMAIN heap
              /\ Eventually(heap', queue', Len(heap) + i) = new[c[i]].map
  <2>1. Len(heap) + i \notin DOMAIN heap /\ Len(heap) + i # 0
    BY <1>1, <1>6
  <2>2. heap'[Len(heap) + i] = new[c[i]].map /\ IsFcn(heap'[Len(heap) + i])
    BY <1>12, <1>13
  <2>3. \A j \in DOMAIN queue' : queue'[j].into # Len(heap) + i
    BY <1>22, <2>1
  <2> QED
    BY <2>1, <2>2, <2>3, NoTask
<1>24. /\ SetBy(L, m + 1) = SetBy(L, m) \cup DOMAIN new /\ DOMAIN result = SetBy(L, m)
       /\ \A k : k \in DOMAIN result <=> Setting(L, m, k) # {}
  <2>1. DOMAIN result = SetBy(L, m)
    BY DEF MergedFirst
  <2> QED
    BY <1>2, <1>3, <2>1, SetByMore
<1>25. ASSUME NEW k \in DOMAIN result, k \notin DOMAIN new
       PROVE  ByPriority(L, m + 1, k) = ByPriority(L, m, k)
  BY <1>2, <1>3, <1>25, NotSet
<1>26. ASSUME NEW k \in Opened(new)
       PROVE  ByPriority(L, m + 1, k) = Mapping(Eventually(heap', queue', result[k].ref))
  <2>1. /\ k \in DOMAIN result /\ result[k].is = "ref" /\ k \in DOMAIN new /\ IsMap(new[k])
    BY <1>26 DEF Opened
  <2>2. ByPriority(L, m, k) = Mapping(Eventually(heap, queue, result[k].ref))
    BY <2>1 DEF MergedFirst
  <2>3. Maps(L, m, k) # {}
    BY <1>2, <1>24, <2>1, <2>2, MapOrNot DEF IsMap, Mapping
  <2>4. ByPriority(L, m + 1, k) = Mapping(Upon(new[k].map, ByPriority(L, m, k).map))
    BY <1>2, <1>3, <2>1, <2>3, MapOverMap
  <2> QED
    BY <1>20, <1>26, <2>2, <2>4 DEF Mapping
<1>27. ASSUME NEW k \in DOMAIN new, IsMap(new[k]), k \in DOMAIN result => result[k].is # "ref"
       PROVE  ByPriority(L, m + 1, k) = Mapping(new[k].map)
  <2>1. Maps(L, m, k) = {}
    <3>1. CASE k \in DOMAIN result
      <4>1. ~IsMap(ByPriority(L, m, k))
        BY <1>27, <3>1 DEF MergedFirst
      <4> QED
        BY <1>2, <1>24, <3>1, <4>1, MapOrNot
    <3>2. CASE k \notin DOMAIN result
      BY <1>24, <3>2 DEF Maps
    <3> QED
      BY <3>1, <3>2
  <2>2. new[k].map = [x \in DOMAIN new[k].map |-> new[k].map[x]]
    BY <1>4, <1>27 DEF IsDict, IsMap
  <2> QED
    BY <1>2, <1>3, <1>27, <2>1, <2>2, SetMap
<1>28. ASSUME NEW k \in DOMAIN new, ~IsMap(new[k])
       PROVE  ByPriority(L, m + 1, k) = new[k]
  BY <1>2, <1>3, <1>28, SetOne
<1>29. DOMAIN result' = SetBy(L, m + 1)
  BY <1>9, <1>24 DEF TakesIn
<1>30. ASSUME NEW k \in DOMAIN result'
       PROVE  \/ /\ k \in DOMAIN result /\ result'[k] = result[k] /\ result'[k].is = "ref"
                 /\ result'[k].ref \in DOMAIN heap
                 /\ ByPriority(L, m + 1, k) = Mapping(Eventually(heap', queue', result'[k].ref))
              \/ \E i \in DOMAIN c :
                   /\ c[i] = k /\ result'[k].is = "ref" /\ result'[k].ref = Len(heap) + i
                   /\ ByPriority(L, m + 1, k) = Mapping(Eventually(heap', queue', result'[k].ref))
              \/ /\ result'[k].is # "ref" /\ ~IsMap(result'[k])
                 /\ result'[k] = ByPriority(L, m + 1, k)
  <2>1. CASE k \in DOMAIN result \ DOMAIN new /\ result'[k] = result[k]
    <3>1. CASE result[k].is = "ref"
      <4>1. k \notin Opened(new)
        BY <2>1 DEF Opened
      <4>2. ByPriority(L, m, k) = Mapping(Eventually(heap, queue, result[k].ref))
              /\ result[k].ref \in DOMAIN heap
        BY <2>1, <3>1 DEF MergedFirst
      <4>3. ByPriority(L, m + 1, k) = Mapping(Eventually(heap', queue', result[k].ref))
        BY <1>19, <1>25, <2>1, <3>1, <4>1, <4>2
      <4> QED
        BY <2>1, <3>1, <4>2, <4>3
    <3>2. CASE result[k].is # "ref"
      <4>1. result[k] = ByPriority(L, m, k) /\ ~IsMap(result[k])
        BY <2>1, <3>2 DEF MergedFirst
      <4> QED
        BY <1>25, <2>1, <3>2, <4>1
    <3> QED
      BY <3>1, <3>2
  <2>2. CASE /\ k \in DOMAIN new /\ k \in DOMAIN result /\ IsMap(new[k])
             /\ k \in Opened(new) /\ result[k].is = "ref" /\ result'[k] = result[k]
    <3>1. result[k].ref \in DOMAIN heap
      BY <2>2 DEF MergedFirst
    <3> QED
      BY <1>26, <2>2, <3>1
  <2>3. CASE /\ k \in DOMAIN new /\ IsMap(new[k])
             /\ k \in DOMAIN result => result[k].is # "ref"
             /\ \E i \in DOMAIN c : c[i] = k /\ result'[k] = Ref(Len(heap) + i)
    <3>1. PICK i \in DOMAIN c : c[i] = k /\ result'[k] = Ref(Len(heap) + i)
      BY <2>3
    <3>2. result'[k].is = "ref" /\ result'[k].ref = Len(heap) + i
      BY <3>1 DEF Ref
    <3>3. ByPriority(L, m + 1, k) = Mapping(Eventually(heap', queue', Len(heap) + i))
      BY <1>23, <1>27, <2>3, <3>1
    <3> QED
      BY <3>1, <3>2, <3>3
  <2>4. CASE /\ k \in DOMAIN new /\ ~IsMap(new[k]) /\ new[k].is # "ref"
             /\ result'[k] = new[k]
    BY <1>28, <2>4
  <2> QED
    BY <1>9, <2>1, <2>2, <2>3, <2>4 DEF TakesIn
<1>31. ASSUME NEW k \in DOMAIN result', result'[k].is = "ref",
              NEW l \in DOMAIN result', result'[l].is = "ref", l # k
       PROVE  result'[l].ref # result'[k].ref
  <2>1. CASE /\ k \in DOMAIN result /\ result'[k] = result[k]
             /\ l \in DOMAIN result /\ result'[l] = result[l]
    BY <1>31, <2>1 DEF MergedFirst
  <2>2. \A i \in DOMAIN c : Len(heap) + i \notin DOMAIN heap
    BY <1>23
  <2>3. \A i, j \in DOMAIN c : Len(heap) + i = Len(heap) + j => i = j
    BY <1>1, <1>6
  <2>4. \/ /\ k \in DOMAIN result /\ result'[k] = result[k] /\ result'[k].ref \in DOMAIN heap
        \/ \E i \in DOMAIN c : c[i] = k /\ result'[k].ref = Len(heap) + i
    BY <1>30, <1>31
  <2>5. \/ /\ l \in DOMAIN result /\ result'[l] = result[l] /\ result'[l].ref \in DOMAIN heap
        \/ \E i \in DOMAIN c : c[i] = l /\ result'[l].ref = Len(heap) + i
    BY <1>30, <1>31
  <2> QED
    BY <1>31, <2>1, <2>2, <2>3, <2>4, <2>5
<1>32. \A k \in DOMAIN result' :
         IF result'[k].is = "ref"
         THEN /\ result'[k].ref \in DOMAIN heap'
              /\ ByPriority(L, m + 1, k) = Mapping(Eventually(heap', queue', result'[k].ref))
              /\ \A l \in DOMAIN result' \ {k} :
                   result'[l].is = "ref" => result'[l].ref # result'[k].ref
         ELSE result'[k] = ByPriority(L, m + 1, k) /\ ~IsMap(result'[k])
  <2>1. \A n \in DOMAIN heap : n \in DOMAIN heap'
    BY <1>13
  <2>2. \A i \in DOMAIN c : Len(heap) + i \in DOMAIN heap'
    BY <1>13
  <2>3. ASSUME NEW k \in DOMAIN result', result'[k].is = "ref"
        PROVE  /\ result'[k].ref \in DOMAIN heap'
               /\ ByPriority(L, m + 1, k) = Mapping(Eventually(heap', queue', result'[k].ref))
    BY <1>30, <2>1, <2>2, <2>3
  <2> QED
    BY <1>30, <1>31, <2>3
<1>33. \A n \in DOMAIN heap' : heap'[n] = [x \in DOMAIN heap'[n] |-> heap'[n][x]]
  <2>1. ASSUME NEW n \in DOMAIN heap' PROVE IsFcn(heap'[n])
    <3>1. CASE n \in DOMAIN heap
      BY <1>13, <3>1 DEF MergedFirst, IsFcn
    <3>2. CASE \E i \in DOMAIN c : n = Len(heap) + i /\ heap'[n] = hs[i]
      BY <1>12, <3>2
    <3> QED
      BY <1>13, <3>1, <3>2
  <2> QED
    BY <2>1 DEF IsFcn
<1>34. Len(queue') >= Len(L) - (m + 1)
  <2>1. Len(queue) >= Len(L) - m
    BY DEF MergedFirst
  <2> QED
    BY <1>1, <1>2, <1>6, <1>16, <2>1
<1>35. ASSUME NEW i \in DOMAIN queue'
       PROVE  IF i <= Len(L) - (m + 1) THEN queue'[i] = [into |-> 0, new |-> L[(m + 1) + i]]
              ELSE queue'[i].into \in DOMAIN heap'
  <2>1. CASE i \in 1..(Len(queue) - 1) /\ queue'[i] = queue[i + 1]
    <3>1. i + 1 \in DOMAIN queue
      BY <1>1, <2>1
    <3>2. i + 1 <= Len(L) - m <=> i <= Len(L) - (m + 1)
      BY <1>2, <2>1
    <3>3. m + (i + 1) = (m + 1) + i
      BY <1>2, <2>1
    <3>4. IF i + 1 <= Len(L) - m THEN queue[i + 1] = [into |-> 0, new |-> L[m + (i + 1)]]
          ELSE queue[i + 1].into \in DOMAIN heap
      BY <3>1 DEF MergedFirst
    <3> QED
      BY <1>13, <2>1, <3>2, <3>3, <3>4
  <2>2. CASE \E j \in DOMAIN o : i = Len(queue) - 1 + j /\ queue'[i] = ts[j]
    <3>1. PICK j \in DOMAIN o : i = Len(queue) - 1 + j /\ queue'[i] = ts[j]
      BY <2>2
    <3>2. Len(queue) >= Len(L) - m
      BY DEF MergedFirst
    <3>3. ~(i <= Len(L) - (m + 1))
      BY <1>1, <1>2, <1>6, <3>1, <3>2
    <3> QED
      BY <1>11, <1>13, <3>1, <3>3
  <2> QED
    BY <1>16, <2>1, <2>2
<1> QED
  BY <1>2, <1>13, <1>16, <1>29, <1>32, <1>33, <1>34, <1>35 DEF MergedFirst

(***************************************************************************)
(* One merge from its beginning to its end.                                *)
(***************************************************************************)
LEMMA MergeBegins ==
  ASSUME NEW L, AreDicts(L), Merge(L)
  PROVE  Merging(L)'
<1>1. L \in Seq(Range(L)) /\ Len(L) \in Nat /\ DOMAIN L = 1..Len(L)
  BY DEF AreDicts
<1>2. queue' = Top(L) /\ heap' = <<>> /\ result' = <<>>
  BY DEF Merge, Empty
<1>3. /\ DOMAIN queue' = 1..Len(L) /\ IsFcn(queue')
      /\ \A i \in DOMAIN queue' : queue'[i] = [into |-> 0, new |-> L[i]]
  BY <1>1, <1>2 DEF Top, IsFcn
<1>4. queue' \in Seq(Range(queue')) /\ Len(queue') = Len(L)
  BY <1>1, <1>3, SeqRange
<1>5. heap' \in Seq(Range(heap')) /\ DOMAIN heap' = {} /\ DOMAIN result' = {}
  BY <1>2
<1>6. SetBy(L, 0) = {}
  BY DEF SetBy
<1>7. \A i \in DOMAIN queue' :
        IF i <= Len(L) - 0 THEN queue'[i] = [into |-> 0, new |-> L[0 + i]]
        ELSE queue'[i].into \in DOMAIN heap'
  BY <1>1, <1>3
<1>8. MergedFirst(L, 0)'
  BY <1>1, <1>4, <1>5, <1>6, <1>7 DEF MergedFirst
<1> QED
  BY <1>1, <1>8 DEF Merging

\* Each round of merge() leaves the invariant as it is, for one layer more or not.
LEMMA MergeGoesOn ==
  ASSUME NEW L, AreDicts(L), Merging(L), MergeStep
  PROVE  Merging(L)'
<1>1. Len(L) \in Nat
  BY DEF AreDicts
<1>2. PICK m \in 0..Len(L) : MergedFirst(L, m)
  BY DEF Merging
<1>3. queue # <<>> /\ MergeInto(Head(queue), Tail(queue))
  BY DEF MergeStep
<1>4. CASE Head(queue).into = 0
  <2>1. m + 1 \in 0..Len(L) /\ MergedFirst(L, m + 1)'
    BY <1>1, <1>2, <1>3, <1>4, IntoResult
  <2> QED
    BY <2>1 DEF Merging
<1>5. CASE Head(queue).into # 0
  <2>1. MergedFirst(L, m)'
    BY <1>1, <1>2, <1>3, <1>5, IntoMapping
  <2> QED
    BY <1>2, <2>1 DEF Merging
<1> QED
  BY <1>4, <1>5

\* What merge() returns is what the options should be.
LEMMA MergeEnds ==
  ASSUME NEW L, AreDicts(L), Merging(L), queue = <<>>
  PROVE  Result = Merged(L)
<1>1. Len(L) \in Nat
  BY DEF AreDicts
<1>2. PICK m \in 0..Len(L) : MergedFirst(L, m)
  BY DEF Merging
<1>3. m = Len(L)
  BY <1>1, <1>2 DEF MergedFirst
<1>4. ASSUME NEW k \in DOMAIN result
      PROVE  Result[k] = ByPriority(L, Len(L), k)
  <2>1. CASE result[k].is = "ref"
    <3>1. /\ ByPriority(L, Len(L), k) = Mapping(Eventually(heap, queue, result[k].ref))
          /\ IsFcn(heap[result[k].ref])
      BY <1>2, <1>3, <2>1 DEF MergedFirst, IsFcn
    <3>2. Eventually(heap, queue, result[k].ref) = heap[result[k].ref]
      BY <3>1, NoTask
    <3> QED
      BY <1>4, <2>1, <3>1, <3>2 DEF Result
  <2>2. CASE result[k].is # "ref"
    BY <1>2, <1>3, <1>4, <2>2 DEF MergedFirst, Result
  <2> QED
    BY <2>1, <2>2
<1>5. DOMAIN result = SetBy(L, Len(L))
  BY <1>2, <1>3 DEF MergedFirst
<1>6. IsFcn(Result) /\ DOMAIN Result = DOMAIN result
  BY DEF Result, IsFcn
<1>7. IsFcn(Merged(L)) /\ DOMAIN Merged(L) = SetBy(L, Len(L))
      /\ \A k \in SetBy(L, Len(L)) : Merged(L)[k] = ByPriority(L, Len(L), k)
  BY DEF Merged, IsFcn
<1> QED
  BY <1>4, <1>5, <1>6, <1>7, Agree

(***************************************************************************)
(* Every layer is a dictionary.                                            *)
(***************************************************************************)
\* A merged value is that of some layer, or a mapping each of whose values is.
LEMMA Whence ==
  ASSUME NEW L, AreDicts(L), NEW k \in DOMAIN Merged(L)
  PROVE  \/ \E i \in DOMAIN L : k \in DOMAIN L[i] /\ Merged(L)[k] = L[i][k]
         \/ /\ \E i \in DOMAIN L : k \in DOMAIN L[i] /\ IsMap(L[i][k])
            /\ \A x \in DOMAIN Merged(L)[k].map :
                 \E i \in DOMAIN L :
                   /\ k \in DOMAIN L[i] /\ IsMap(L[i][k]) /\ x \in DOMAIN L[i][k].map
                   /\ Merged(L)[k].map[x] = L[i][k].map[x]
<1> DEFINE set == Setting(L, Len(L), k)
           maps == Maps(L, Len(L), k)
<1>1. Len(L) \in Nat /\ DOMAIN L = 1..Len(L)
  BY DEF AreDicts
<1>2. k \in SetBy(L, Len(L)) /\ Merged(L)[k] = ByPriority(L, Len(L), k)
  BY DEF Merged
<1>3. set \subseteq 1..Len(L) /\ set # {} /\ \A i \in set : k \in DOMAIN L[i]
  BY <1>1, <1>2 DEF Setting, SetBy
<1>4. maps \subseteq set /\ \A i \in maps : IsMap(L[i][k])
  BY <1>1, <1>3 DEF Maps
<1>5. CASE maps = {}
  <2>1. Merged(L)[k] = L[Max(set)][k]
    BY <1>2, <1>5, Parts
  <2>2. Max(set) \in set
    BY <1>1, <1>3, MaxExists
  <2> QED
    BY <1>1, <1>3, <2>1, <2>2
<1>6. CASE maps # {}
  <2>1. PICK f : f = [n \in NamesIn(L, maps, k) |-> L[Max(Naming(L, maps, k, n))][k].map[n]]
    OBVIOUS
  <2>2. Merged(L)[k].map = f
    BY <1>2, <1>6, <2>1, Parts DEF Mapping
  <2>3. ASSUME NEW x \in DOMAIN f
        PROVE  \E i \in maps : x \in DOMAIN L[i][k].map /\ f[x] = L[i][k].map[x]
    <3>1. Naming(L, maps, k, x) # {} /\ Naming(L, maps, k, x) \subseteq 1..Len(L)
      BY <1>3, <1>4, <2>1 DEF NamesIn, Naming
    <3>2. Max(Naming(L, maps, k, x)) \in Naming(L, maps, k, x)
      BY <1>1, <3>1, MaxExists
    <3>3. f[x] = L[Max(Naming(L, maps, k, x))][k].map[x]
      BY <2>1
    <3> QED
      BY <3>2, <3>3 DEF Naming
  <2> HIDE DEF set, maps
  <2>4. \A i \in maps : i \in DOMAIN L /\ k \in DOMAIN L[i] /\ IsMap(L[i][k])
    BY <1>1, <1>3, <1>4
  <2> QED
    BY <1>6, <2>2, <2>3, <2>4
<1> QED
  BY <1>5, <1>6

\* What merge() makes of dictionaries is one.
LEMMA MergedIsDict ==
  ASSUME NEW L, AreDicts(L)
  PROVE  IsDict(Merged(L))
<1>1. Len(L) \in Nat /\ DOMAIN L = 1..Len(L)
  BY DEF AreDicts
<1>2. IsFcn(Merged(L)) /\ DOMAIN Merged(L) = SetBy(L, Len(L))
      /\ \A k \in SetBy(L, Len(L)) : Merged(L)[k] = ByPriority(L, Len(L), k)
  BY DEF Merged, IsFcn
<1>3. IsFiniteSet(SetBy(L, Len(L)))
  <2> DEFINE f == [i \in 1..Len(L) |-> DOMAIN L[i]]
  <2>1. f \in Surjection(1..Len(L), Range(f))
    BY DEF Surjection, Range
  <2>2. IsFiniteSet(1..Len(L))
    BY <1>1, FS_Interval
  <2>3. IsFiniteSet(Range(f))
    BY <2>1, <2>2, FS_Surjection
  <2>4. \A T \in Range(f) : IsFiniteSet(T)
    BY <1>1 DEF Range, AreDicts, IsDict
  <2>5. SetBy(L, Len(L)) = UNION Range(f)
    BY DEF SetBy, Range
  <2> QED
    BY <2>3, <2>4, <2>5, FS_UNION
<1>4. ASSUME NEW k \in SetBy(L, Len(L))
      PROVE  \/ ByPriority(L, Len(L), k).is = "one"
             \/ /\ ByPriority(L, Len(L), k).is = "map"
                /\ IsFcn(ByPriority(L, Len(L), k).map)
  <2> DEFINE set == Setting(L, Len(L), k)
             v == ByPriority(L, Len(L), k)
  <2>1. CASE Maps(L, Len(L), k) = {}
    <3>1. set \subseteq 1..Len(L) /\ set # {}
      BY <1>1, <1>4 DEF Setting, SetBy
    <3>2. Max(set) \in set
      BY <1>1, <3>1, MaxExists
    <3>3. v = L[Max(set)][k]
      BY <2>1, Parts
    <3>4. Max(set) \in DOMAIN L /\ k \in DOMAIN L[Max(set)]
      BY <1>1, <3>2 DEF Setting
    <3> QED
      BY <3>3, <3>4 DEF AreDicts, IsDict, IsFcn
  <2>2. CASE Maps(L, Len(L), k) # {}
    <3>1. PICK f : IsFcn(f) /\ v = Mapping(f)
      BY <2>2, Parts DEF IsFcn
    <3> QED
      BY <3>1 DEF Mapping
  <2> QED
    BY <2>1, <2>2
<1>5. ASSUME "timeout" \in DOMAIN Merged(L)
      PROVE  Merged(L)["timeout"].is = "one" /\ Merged(L)["timeout"].one \in Timeouts
  <2>1. \A i \in DOMAIN L : "timeout" \in DOMAIN L[i] =>
          L[i]["timeout"].is = "one" /\ L[i]["timeout"].one \in Timeouts
    BY DEF AreDicts, IsDict
  <2> QED
    BY <1>5, <2>1, Whence DEF IsMap
<1>6. ASSUME "services" \in DOMAIN Merged(L)
      PROVE  Merged(L)["services"].is = "one" /\ IsList(Merged(L)["services"].one)
  <2>1. \A i \in DOMAIN L : "services" \in DOMAIN L[i] =>
          L[i]["services"].is = "one" /\ IsList(L[i]["services"].one)
    BY DEF AreDicts, IsDict
  <2> QED
    BY <1>6, <2>1, Whence DEF IsMap
<1>7. ASSUME "aliases" \in DOMAIN Merged(L), Merged(L)["aliases"].is = "map",
             NEW x \in DOMAIN Merged(L)["aliases"].map
      PROVE  IsList(Merged(L)["aliases"].map[x])
  <2>1. \A i \in DOMAIN L :
          "aliases" \in DOMAIN L[i] /\ L[i]["aliases"].is = "map" =>
            \A y \in DOMAIN L[i]["aliases"].map : IsList(L[i]["aliases"].map[y])
    BY DEF AreDicts, IsDict
  <2> QED
    BY <1>7, <2>1, Whence DEF IsMap
<1> QED
  BY <1>2, <1>3, <1>4, <1>5, <1>6, <1>7 DEF IsDict, IsFcn

\* A place without a file sets nothing.
LEMMA EmptyIsDict == IsDict(Empty)
<1>1. DOMAIN Empty = {} /\ Empty = [k \in DOMAIN Empty |-> Empty[k]]
  BY DEF Empty
<1> QED
  BY <1>1, FS_EmptySet DEF IsDict

\* What from_glob() returns is a dictionary.
LEMMA GlobIsDict ==
  ASSUME NEW files, AreFiles(files)
  PROVE  IsDict(FromGlob(files))
<1>1. CASE Recognized(files) = {}
  BY <1>1, EmptyIsDict DEF FromGlob
<1>2. CASE Recognized(files) # {}
  <2>1. PICK i : i = CHOOSE j \in Recognized(files) : TRUE
    OBVIOUS
  <2>2. i \in DOMAIN files
    BY <1>2, <2>1 DEF Recognized
  <2> QED
    BY <1>2, <2>1, <2>2 DEF FromGlob, AreFiles
<1> QED
  BY <1>1, <1>2

\* The search for the end of the file system ends.
LEMMA SearchedIs ==
  ASSUME NEW dirs, dirs \in Seq(Range(dirs)), dirs # <<>>
  PROVE  \E n \in 1..Len(dirs) : Searched(dirs) = SubSeq(dirs, 1, n)
<1> DEFINE same == {n \in 1..Len(dirs) : \A i \in 1..n : dirs[i].fs = dirs[1].fs}
           P(n) == /\ \A i \in 1..n : dirs[i].fs = dirs[1].fs
                   /\ n < Len(dirs) => dirs[n + 1].fs # dirs[1].fs
<1>1. Len(dirs) \in Nat \ {0}
  OBVIOUS
<1>2. 1 \in same /\ same \subseteq 1..Len(dirs)
  BY <1>1
<1>3. PICK n : n = Max(same)
  OBVIOUS
<1>4. n \in same /\ \A y \in same : y <= n
  <2> HIDE DEF same
  <2> QED
    BY <1>1, <1>2, <1>3, MaxExists
<1>5. ASSUME n < Len(dirs), dirs[n + 1].fs = dirs[1].fs PROVE FALSE
  <2>1. n + 1 \in 1..Len(dirs)
    BY <1>1, <1>4, <1>5
  <2>2. \A i \in 1..(n + 1) : dirs[i].fs = dirs[1].fs
    <3>1. \A i \in 1..(n + 1) : i \in 1..n \/ i = n + 1
      BY <1>4
    <3> QED
      BY <1>4, <1>5, <3>1
  <2>3. n + 1 \in same
    BY <2>1, <2>2
  <2> QED
    BY <1>2, <1>4, <2>3
<1>6. P(n) /\ n \in 1..Len(dirs)
  BY <1>4, <1>5
<1>7. PICK l : l = CHOOSE k \in 1..Len(dirs) : P(k)
  OBVIOUS
<1>8. l \in 1..Len(dirs)
  <2> HIDE DEF P
  <2> QED
    BY <1>6, <1>7
<1>9. Searched(dirs) = SubSeq(dirs, 1, l)
  BY <1>7 DEF Searched
<1> QED
  BY <1>8, <1>9

\* The layers of from_app() are dictionaries.
LEMMA AppAreDicts ==
  ASSUME world \in Worlds
  PROVE  AreDicts(AppLayers)
<1> DEFINE dirs == world.dirs
<1>1. /\ dirs \in Seq(Range(dirs)) /\ dirs # <<>>
      /\ \A i \in DOMAIN dirs : AreFiles(dirs[i].files)
  BY ConfigAssumption
<1>2. PICK n \in 1..Len(dirs) : Searched(dirs) = SubSeq(dirs, 1, n)
  <2> HIDE DEF dirs
  <2> QED
    BY <1>1, SearchedIs
<1>3. PICK s : s = Searched(dirs)
  OBVIOUS
<1>4. n \in Nat /\ Len(dirs) \in Nat /\ DOMAIN dirs = 1..Len(dirs)
  BY <1>1
<1>5. DOMAIN s = 1..n /\ \A i \in 1..n : s[i] = dirs[i]
  <2> HIDE DEF dirs
  <2> QED
    BY <1>1, <1>2, <1>3, <1>4
<1> DEFINE t == [i \in DOMAIN s |-> s[i].files]
<1>6. IsFcn(t) /\ DOMAIN t = 1..n
  BY <1>5 DEF IsFcn
<1>7. Len(t) = n
  <2> HIDE DEF t
  <2> QED
    BY <1>4, <1>6, SeqRange
<1>8. AppFiles = Reverse(t)
  BY <1>3 DEF AppFiles
<1>9. DOMAIN AppFiles = 1..n /\ \A i \in 1..n : AppFiles[i] = t[(n - i) + 1]
  <2> HIDE DEF t
  <2> QED
    BY <1>7, <1>8 DEF Reverse
<1>10. ASSUME NEW i \in 1..n PROVE AreFiles(AppFiles[i])
  <2>1. (n - i) + 1 \in 1..n
    BY <1>4
  <2>2. (n - i) + 1 \in DOMAIN dirs
    BY <1>2, <1>4, <2>1
  <2> QED
    BY <1>1, <1>5, <1>9, <2>1, <2>2
<1>11. DOMAIN AppLayers = 1..n /\ IsFcn(AppLayers)
  BY <1>9 DEF AppLayers, IsFcn
<1>12. \A i \in 1..n : IsDict(AppLayers[i])
  BY <1>9, <1>10, GlobIsDict DEF AppLayers
<1>13. AppLayers \in Seq(Range(AppLayers))
  BY <1>4, <1>11, SeqRange
<1> QED
  BY <1>11, <1>12, <1>13 DEF AreDicts

\* The layers of from_cli() are dictionaries.
LEMMA CliAreDicts ==
  ASSUME world \in Worlds
  PROVE  AreDicts(CliLayers)
<1>1. /\ world.file \in Seq(Range(world.file)) /\ IsDict(world.args)
      /\ \A i \in DOMAIN world.file : IsDict(world.file[i])
  BY ConfigAssumption
<1>2. PICK X : X = Range(world.file) \cup {world.args}
  OBVIOUS
<1>3. world.file \in Seq(X) /\ <<world.args>> \in Seq(X)
  BY <1>1, <1>2
<1>4. Joins(CliLayers, world.file, <<world.args>>)
  BY <1>3, Concat DEF CliLayers
<1>5. DOMAIN <<world.args>> = {1} /\ <<world.args>>[1] = world.args
  OBVIOUS
<1> QED
  BY <1>1, <1>4, <1>5 DEF Joins, AreDicts

\* A list is one of its own elements.
LEMMA SelfRange ==
  ASSUME NEW S, NEW q \in Seq(S)
  PROVE  q \in Seq(Range(q))
<1>1. Len(q) \in Nat /\ DOMAIN q = 1..Len(q) /\ q = [i \in 1..Len(q) |-> q[i]]
  BY LenProperties
<1>2. q \in [1..Len(q) -> Range(q)]
  BY <1>1 DEF Range
<1> QED
  BY <1>1, <1>2

\* PGCTL_DEFAULTS is one.
LEMMA DefaultsIsDict == IsDict(Defaults)
<1>1. DOMAIN Defaults = {"services", "timeout", "no_force", "aliases"}
  BY DEF Defaults
<1>2. IsFiniteSet({"services", "timeout", "no_force", "aliases"})
  <2>1. IsFiniteSet({"services"})
    BY FS_Singleton
  <2>2. IsFiniteSet({"services"} \cup {"timeout"})
    BY <2>1, FS_AddElement
  <2>3. IsFiniteSet(({"services"} \cup {"timeout"}) \cup {"no_force"})
    BY <2>2, FS_AddElement
  <2>4. IsFiniteSet((({"services"} \cup {"timeout"}) \cup {"no_force"}) \cup {"aliases"})
    BY <2>3, FS_AddElement
  <2>5. (({"services"} \cup {"timeout"}) \cup {"no_force"}) \cup {"aliases"}
          = {"services", "timeout", "no_force", "aliases"}
    OBVIOUS
  <2> QED
    BY <2>4, <2>5
<1>3. Defaults = [k \in DOMAIN Defaults |-> Defaults[k]]
  BY DEF Defaults
<1>4. /\ Defaults["services"].is = "one" /\ Defaults["timeout"].is = "one"
      /\ Defaults["no_force"].is = "one" /\ Defaults["aliases"].is = "map"
      /\ IsFcn(Defaults["aliases"].map) /\ Defaults["timeout"].one \in Timeouts
  BY ConfigAssumption DEF Defaults, One, Mapping, IsFcn
<1>5. PICK a, b : a = <<"default">> /\ b = <<ALL_SERVICES>>
  OBVIOUS
<1>6. IsList(a) /\ IsList(b)
  <2>1. a \in Seq({"default"}) /\ b \in Seq({ALL_SERVICES})
    BY <1>5
  <2> QED
    BY <2>1, SelfRange DEF IsList
<1>7. /\ Defaults["services"].one = a /\ DOMAIN Defaults["aliases"].map = {"default"}
      /\ Defaults["aliases"].map["default"] = b
  BY <1>5 DEF Defaults, One, Mapping
<1> QED
  BY <1>1, <1>2, <1>3, <1>4, <1>6, <1>7 DEF IsDict, IsFcn

\* The layers of combined() are dictionaries when those are that were merged before.
LEMMA LayersAreDicts ==
  ASSUME world \in Worlds, NEW app, NEW cli, IsDict(app), IsDict(cli)
  PROVE  AreDicts(Layers(app, cli))
<1>1. AreFiles(world.system) /\ AreFiles(world.home) /\ IsDict(world.environ)
  BY ConfigAssumption
<1>2. AreFiles(System) /\ AreFiles(Home)
  <2>1. AreFiles(<<>>)
    BY DEF AreFiles
  <2> QED
    BY <1>1, <2>1 DEF System, Home
<1>3. PICK s, h, e : s = FromGlob(System) /\ h = FromGlob(Home) /\ e = world.environ
  OBVIOUS
<1>4. IsDict(s) /\ IsDict(h) /\ IsDict(e) /\ IsDict(Defaults)
  BY <1>1, <1>2, <1>3, GlobIsDict, DefaultsIsDict
<1>5. PICK d : d = Defaults
  OBVIOUS
<1>6. PICK L : L = <<d, s, h, app, e, cli>>
  OBVIOUS
<1>7. /\ DOMAIN L = 1..6 /\ L \in Seq(Range(L))
      /\ L[1] = d /\ L[2] = s /\ L[3] = h /\ L[4] = app /\ L[5] = e /\ L[6] = cli
  <2>1. L \in Seq({d, s, h, app, e, cli}) /\ Len(L) = 6
    BY <1>6
  <2>2. IsFcn(L) /\ DOMAIN L = 1..6
    BY <1>6, <2>1 DEF IsFcn
  <2> QED
    BY <1>6, <2>2, SeqRange
<1>8. \A i \in 1..6 : i = 1 \/ i = 2 \/ i = 3 \/ i = 4 \/ i = 5 \/ i = 6
  OBVIOUS
<1>9. AreDicts(L)
  BY <1>4, <1>5, <1>7, <1>8 DEF AreDicts
<1> QED
  BY <1>3, <1>5, <1>6, <1>9 DEF Layers

(***************************************************************************)
(* combined(), and the command around it.                                  *)
(***************************************************************************)
\* The layers are what they were as long as the world is.
LEMMA SameLayers ==
  ASSUME world' = world
  PROVE  /\ AppLayers' = AppLayers /\ CliLayers' = CliLayers
         /\ \A app, cli : Layers(app, cli)' = Layers(app, cli)
<1>1. System' = System /\ Home' = Home
  BY DEF System, Home
<1>2. AppFiles' = AppFiles
  BY DEF AppFiles
<1> QED
  BY <1>1, <1>2 DEF AppLayers, CliLayers, Layers

\* A step of combined() keeps the invariant.
LEMMA Combines ==
  ASSUME world \in Worlds, ConfigInv, Combining
  PROVE  world' = world /\ ConfigInv'
<1>0. world' = world
  BY DEF Combining, ReadFiles, MergeStep, MergedApp, MergedCli, MergedAll
<1>1. PICK A, C : A = AppLayers /\ C = CliLayers
  OBVIOUS
<1>2. AreDicts(A) /\ AreDicts(C) /\ A = AppLayers' /\ C = CliLayers'
  BY <1>0, <1>1, AppAreDicts, CliAreDicts, SameLayers
<1>3. PICK L : L = Layers(Merged(A), Merged(C))
  OBVIOUS
<1>4. AreDicts(L)
  BY <1>2, <1>3, MergedIsDict, LayersAreDicts
<1>5. CASE ReadFiles
  <2>1. CASE step' = "ambiguous"
    BY <1>0, <2>1 DEF ConfigInv
  <2>2. CASE step' = "app" /\ Merge(AppLayers)
    <3>1. Merging(A)'
      BY <1>1, <1>2, <2>2, MergeBegins
    <3>2. Merging(AppLayers)'
      BY <1>2, <3>1 DEF Merging, MergedFirst
    <3> QED
      BY <1>0, <2>2, <3>2 DEF ConfigInv
  <2> QED
    BY <1>5, <2>1, <2>2 DEF ReadFiles
<1>6. CASE MergeStep
  <2>1. step' = step /\ merged' = merged /\ queue # <<>>
    BY <1>6 DEF MergeStep
  <2>2. ASSUME step = "app" PROVE Merging(AppLayers)'
    <3>1. Merging(A)'
      BY <1>1, <1>2, <1>6, <2>2, MergeGoesOn DEF ConfigInv
    <3> QED
      BY <1>2, <3>1 DEF Merging, MergedFirst
  <2>3. ASSUME step = "cli" PROVE merged' = <<Merged(AppLayers')>> /\ Merging(CliLayers)'
    <3>1. Merging(C)'
      BY <1>1, <1>2, <1>6, <2>3, MergeGoesOn DEF ConfigInv
    <3>2. Merging(CliLayers)'
      BY <1>2, <3>1 DEF Merging, MergedFirst
    <3> QED
      BY <1>1, <1>2, <2>1, <2>3, <3>2 DEF ConfigInv
  <2>4. ASSUME step \in {"all", "combined"}
        PROVE  /\ step = "all" /\ merged' = <<Merged(AppLayers'), Merged(CliLayers')>>
               /\ Merging(Layers(merged[1], merged[2]))'
    <3>1. step = "all" /\ merged = <<Merged(A), Merged(C)>>
      BY <1>1, <2>1, <2>4 DEF ConfigInv
    <3>2. Layers(merged[1], merged[2]) = L
      BY <1>3, <3>1
    <3>3. Merging(L)'
      BY <1>4, <1>6, <2>4, <3>2, MergeGoesOn DEF ConfigInv
    <3>4. Layers(merged[1], merged[2])' = L
      BY <1>0, <2>1, <3>2, SameLayers
    <3>5. Merging(Layers(merged[1], merged[2]))'
      BY <3>3, <3>4 DEF Merging, MergedFirst
    <3> QED
      BY <1>2, <2>1, <3>1, <3>5
  <2> QED
    BY <1>0, <2>1, <2>2, <2>3, <2>4 DEF ConfigInv
<1>7. CASE MergedApp
  <2>1. step = "app" /\ queue = <<>> /\ merged' = <<Result>> /\ step' = "cli" /\ Merge(CliLayers)
    BY <1>7 DEF MergedApp
  <2>2. Result = Merged(A)
    BY <1>1, <1>2, <2>1, MergeEnds DEF ConfigInv
  <2>3. Merging(C)'
    BY <1>1, <1>2, <2>1, MergeBegins
  <2>4. Merging(CliLayers)'
    BY <1>2, <2>3 DEF Merging, MergedFirst
  <2>5. merged' = <<Merged(AppLayers')>>
    BY <1>2, <2>1, <2>2
  <2> QED
    BY <1>0, <2>1, <2>4, <2>5 DEF ConfigInv
<1>8. CASE MergedCli
  <2>1. /\ step = "cli" /\ queue = <<>> /\ merged' = Append(merged, Result) /\ step' = "all"
        /\ Merge(Layers(merged[1], Result))
    BY <1>8 DEF MergedCli
  <2>2. Result = Merged(C) /\ merged = <<Merged(A)>>
    BY <1>1, <1>2, <2>1, MergeEnds DEF ConfigInv
  <2>3. merged' = <<Merged(A), Merged(C)>>
    <3>1. PICK a, c : a = Merged(A) /\ c = Merged(C)
      OBVIOUS
    <3>2. PICK r : r = Append(<<a>>, c)
      OBVIOUS
    <3>3. <<a>> \in Seq({a, c}) /\ Len(<<a>>) = 1
      OBVIOUS
    <3>4. r \in Seq({a, c}) /\ Len(r) = 2 /\ r[1] = a /\ r[2] = c
      BY <3>2, <3>3, AppendProperties
    <3>5. r = <<a, c>>
      BY <3>4
    <3> QED
      BY <2>1, <2>2, <3>1, <3>2, <3>5
  <2>4. Layers(merged[1], Result) = L
    BY <1>3, <2>2
  <2>5. Merging(L)'
    BY <1>4, <2>1, <2>4, MergeBegins
  <2>6. Layers(merged[1], merged[2])' = L
    <3>1. merged'[1] = Merged(A) /\ merged'[2] = Merged(C)
      BY <2>3
    <3> QED
      BY <1>0, <1>3, <3>1, SameLayers
  <2>7. Merging(Layers(merged[1], merged[2]))'
    BY <2>5, <2>6 DEF Merging, MergedFirst
  <2> QED
    BY <1>0, <1>2, <2>1, <2>3, <2>7 DEF ConfigInv
<1>9. CASE MergedAll
  <2>1. /\ step = "all" /\ queue = <<>> /\ step' = "combined"
        /\ queue' = queue /\ result' = result /\ heap' = heap /\ merged' = merged
    BY <1>9 DEF MergedAll
  <2>2. /\ merged = <<Merged(A), Merged(C)>> /\ Merging(Layers(merged[1], merged[2]))
    BY <1>1, <2>1 DEF ConfigInv
  <2>3. Layers(merged[1], merged[2])' = Layers(merged[1], merged[2])
    BY <1>0, <2>1, SameLayers
  <2>4. PICK l : l = Layers(merged[1], merged[2])
    OBVIOUS
  <2>5. Merging(Layers(merged[1], merged[2]))'
    BY <2>1, <2>2, <2>3, <2>4 DEF Merging, MergedFirst
  <2> QED
    BY <1>0, <1>2, <2>1, <2>2, <2>5 DEF ConfigInv
<1> QED
  BY <1>5, <1>6, <1>7, <1>8, <1>9 DEF Combining

\* Without a step of combined() the invariant holds on.
LEMMA Unchanged ==
  ASSUME UNCHANGED configVars, ConfigInv
  PROVE  ConfigInv'
<1>1. /\ step' = step /\ world' = world /\ queue' = queue /\ result' = result
      /\ heap' = heap /\ merged' = merged
  BY DEF configVars
<1>2. ASSUME NEW L, Merging(L) PROVE Merging(L)'
  BY <1>1, <1>2 DEF Merging, MergedFirst
<1>3. PICK A, C, L : A = AppLayers /\ C = CliLayers /\ L = Layers(merged[1], merged[2])
  OBVIOUS
<1>4. A = AppLayers' /\ C = CliLayers' /\ L = Layers(merged[1], merged[2])'
  BY <1>1, <1>3, SameLayers
<1>5. ASSUME Merging(AppLayers) PROVE Merging(AppLayers)'
  <2>1. Merging(A)'
    BY <1>2, <1>3, <1>5
  <2> QED
    BY <1>4, <2>1 DEF Merging, MergedFirst
<1>6. ASSUME Merging(CliLayers) PROVE Merging(CliLayers)'
  <2>1. Merging(C)'
    BY <1>2, <1>3, <1>6
  <2> QED
    BY <1>4, <2>1 DEF Merging, MergedFirst
<1>7. ASSUME Merging(Layers(merged[1], merged[2]))
      PROVE  Merging(Layers(merged[1], merged[2]))'
  <2>1. Merging(L)'
    BY <1>2, <1>3, <1>7
  <2> QED
    BY <1>4, <2>1 DEF Merging, MergedFirst
<1> QED
  BY <1>1, <1>3, <1>4, <1>5, <1>6, <1>7 DEF ConfigInv

\* The options are put together from one world, however the command goes on.
THEOREM OptionsOnce == Spec => []OptionsInv
<1>1. Init => OptionsInv
  BY DEF Init, ConfigInit, OptionsInv, ConfigInv
<1>2. OptionsInv /\ [Next]_vars => OptionsInv'
  <2> SUFFICES ASSUME OptionsInv, [Next]_vars PROVE OptionsInv'
    OBVIOUS
  <2>1. CASE UNCHANGED <<stage, configVars>>
    BY <2>1, Unchanged DEF OptionsInv, configVars
  <2>2. CASE ConfigStep
    BY <2>2, Combines DEF OptionsInv, ConfigStep, sessionVars
  <2>3. CASE stage' # "config" /\ step' = "files"
    BY <2>3 DEF OptionsInv
  <2>4. CASE RaiseAmbiguous \/ BeginAliases
    BY <2>3, <2>4 DEF RaiseAmbiguous, BeginAliases, End, ForgetConfig
  <2>5. CASE RaiseAlias \/ DoNothing \/ BeginChange \/ EndChange
    BY <2>3, <2>5 DEF OptionsInv, RaiseAlias, DoNothing, BeginChange, EndChange, End, configVars
  <2>6. CASE AliasStep \/ LoopStep \/ Disturb \/ UNCHANGED vars
    BY <2>1, <2>6 DEF AliasStep, LoopStep, Disturb, vars, sessionVars
  <2> QED
    BY <2>2, <2>4, <2>5, <2>6 DEF Next, Advance
<1> QED
  BY <1>1, <1>2, PTL DEF Spec

\* When the queue of the last merge is empty, the options are what they should be.
LEMMA Combined ==
  ASSUME OptionsInv
  PROVE  MergedByPriority
<1> SUFFICES ASSUME OptionsInv, step = "combined"
             PROVE  /\ Result = Merged(Layers(merged[1], merged[2]))
                    /\ merged = <<Merged(AppLayers), Merged(CliLayers)>>
  BY DEF MergedByPriority
<1>1. world \in Worlds /\ ConfigInv
  BY DEF OptionsInv
<1>2. PICK A, C, L : A = AppLayers /\ C = CliLayers /\ L = Layers(Merged(A), Merged(C))
  OBVIOUS
<1>3. AreDicts(L)
  BY <1>1, <1>2, AppAreDicts, CliAreDicts, MergedIsDict, LayersAreDicts
<1>4. merged = <<Merged(A), Merged(C)>> /\ queue = <<>> /\ Merging(Layers(merged[1], merged[2]))
  BY <1>1, <1>2 DEF ConfigInv
<1>5. L = Layers(merged[1], merged[2])
  BY <1>2, <1>4
<1>6. Result = Merged(L)
  BY <1>3, <1>4, <1>5, MergeEnds
<1> QED
  BY <1>2, <1>4, <1>5, <1>6

\* Of the places that set an option the last in the order of combined() wins, and
\* aliases are put together name by name: the merge in place with its queue, as
\* config.py:137-160 does it, comes to that for all files, variables and arguments.
THEOREM MergesByPriority == Spec => []MergedByPriority
<1>1. OptionsInv => MergedByPriority
  BY Combined
<1> QED
  BY <1>1, OptionsOnce, PTL
=============================================================================
