----------------------------- MODULE CcdProofs -----------------------------
(***************************************************************************)
(* Proofs about Ccd, for any number of exposures, rows and messages.       *)
(***************************************************************************)
EXTENDS Ccd, TLAPS, WellFoundedInduction, FiniteSetTheorems

-----------------------------------------------------------------------------
(* Induction: the loops of the code are functions of the rounds done, and   *)
(* what holds after each round is shown by the first round after which it   *)
(* does not.                                                                *)

LEMMA LeastNatural ==
  ASSUME NEW T, T \subseteq Nat, T # {}
  PROVE  \E x \in T : \A y \in T : x <= y
<1> DEFINE R == {z \in Nat \X Nat : z[1] < z[2]}
<1>1. IsWellFoundedOn(R, Nat)
  BY NatLessThanWellFounded DEF OpToRel
<1> HIDE DEF R
<1>2. PICK x \in T : \A y \in T : <<y, x>> \notin R
  BY <1>1, WFMin
<1>3. ASSUME NEW y \in T PROVE x <= y
  <2>1. x \in Nat /\ y \in Nat
    OBVIOUS
  <2>2. y < x => <<y, x>> \in R
    <3>1. ASSUME y < x PROVE <<y, x>> \in Nat \X Nat /\ <<y, x>>[1] < <<y, x>>[2]
      BY <2>1, <3>1
    <3> QED BY <3>1 DEF R
  <2> QED BY <1>2, <2>1, <2>2
<1> QED BY <1>3

LEMMA Induction ==
  ASSUME NEW n \in Nat, NEW T, T \subseteq 0..n, 0 \notin T,
         \A k \in 1..n : k \in T => k - 1 \in T
  PROVE  T = {}
<1>1. SUFFICES ASSUME T # {} PROVE FALSE
  OBVIOUS
<1>2. PICK k \in T : \A y \in T : k <= y
  <2>1. T \subseteq Nat
    OBVIOUS
  <2> QED BY <1>1, <2>1, LeastNatural
<1>3. k \in 1..n
  <2>1. k \in 0..n /\ k # 0
    OBVIOUS
  <2> QED BY <2>1
<1>4. k - 1 \in T /\ ~(k <= k - 1)
  BY <1>3
<1> QED BY <1>2, <1>4

\* A loop of n rounds on S from b: round k takes f[k-1] to g[k][f[k-1]].
Bodies(S, n) == [1..n -> [S -> S]]
Runs(S, n, b, g) ==
  {f \in [0..n -> S] : f[0] = b /\ \A k \in 1..n : f[k] = g[k][f[k - 1]]}

LEMMA Rounds ==
  ASSUME NEW S, NEW n, n \in Nat, NEW b, b \in S, NEW g, g \in Bodies(S, n)
  PROVE  \E f : f \in Runs(S, n, b, g)
<1> USE DEF Bodies
<1> DEFINE P(j) == \E f \in [0..j -> S] : f[0] = b /\ \A k \in 1..j : f[k] = g[k][f[k - 1]]
           T == {j \in 0..n : ~P(j)}
<1>1. P(0)
  <2>1. [k \in 0..0 |-> b] \in [0..0 -> S] /\ [k \in 0..0 |-> b][0] = b /\ 1..0 = {}
    OBVIOUS
  <2> QED BY <2>1
<1>2. ASSUME NEW j \in 1..n, P(j - 1)
      PROVE  P(j)
  <2>1. PICK f \in [0..j - 1 -> S] : f[0] = b /\ \A k \in 1..j - 1 : f[k] = g[k][f[k - 1]]
    BY <1>2
  <2> DEFINE h == [k \in 0..j |-> IF k = j THEN g[j][f[j - 1]] ELSE f[k]]
  <2>2. \A k \in 0..j - 1 : k \in 0..j /\ k # j /\ h[k] = f[k]
    OBVIOUS
  <2>3. h[j] = g[j][f[j - 1]] /\ j - 1 \in 0..j - 1 /\ 0 \in 0..j - 1 /\ f[j - 1] \in S
    OBVIOUS
  <2>4. g[j] \in [S -> S]
    OBVIOUS
  <2>5. h \in [0..j -> S]
    <3>1. \A k \in 0..j : k # j => k \in 0..j - 1
      OBVIOUS
    <3>2. g[j][f[j - 1]] \in S
      BY <2>3, <2>4
    <3> QED BY <3>1, <3>2
  <2>6. ASSUME NEW k \in 1..j PROVE h[k] = g[k][h[k - 1]]
    <3>1. k - 1 \in 0..j - 1 /\ h[k - 1] = f[k - 1]
      BY <2>2
    <3>2. CASE k = j
      BY <2>3, <3>1, <3>2
    <3>3. CASE k # j
      <4>1. k \in 1..j - 1 /\ k \in 0..j - 1
        BY <3>3
      <4> QED BY <2>1, <2>2, <3>1, <4>1
    <3> QED BY <3>2, <3>3
  <2>7. h[0] = b
    BY <2>1, <2>2, <2>3
  <2> HIDE DEF h
  <2> QED BY <2>5, <2>6, <2>7
<1>3. T = {}
  <2> HIDE DEF P
  <2>1. T \subseteq 0..n /\ 0 \notin T
    BY <1>1
  <2>2. ASSUME NEW k \in 1..n, k \in T PROVE k - 1 \in T
    <3>1. k - 1 \in 0..n
      OBVIOUS
    <3> QED BY <1>2, <2>2, <3>1
  <2> HIDE DEF T
  <2> QED BY <2>1, <2>2, Induction
<1>4. P(n)
  <2> HIDE DEF P
  <2> QED BY <1>3
<1> QED BY <1>4 DEF Runs

-----------------------------------------------------------------------------
(* Lists                                                                    *)

\* List r is list l without its i-th entry.
Without(l, r, i) ==
  /\ Len(r) = Len(l) - 1
  /\ \A k \in 1..Len(r) : r[k] = IF k < i THEN l[k] ELSE l[k + 1]

LEMMA TailWithout ==
  ASSUME NEW S, NEW l \in Seq(S), l # <<>>
  PROVE  Tail(l) \in Seq(S) /\ Without(l, Tail(l), 1) /\ Head(l) = l[1]
BY DEF Without

LEMMA RemoveAtWithout ==
  ASSUME NEW S, NEW l \in Seq(S), NEW i \in 1..Len(l)
  PROVE  RemoveAt(l, i) \in Seq(S) /\ Without(l, RemoveAt(l, i), i)
<1> DEFINE a == SubSeq(l, 1, i - 1)
           b == SubSeq(l, i + 1, Len(l))
<1>1. /\ a \in Seq(S) /\ Len(a) = i - 1 /\ \A k \in 1..i - 1 : a[k] = l[k]
      /\ b \in Seq(S) /\ Len(b) = Len(l) - i /\ \A k \in 1..Len(l) - i : b[k] = l[k + i]
      /\ Len(l) \in Nat
  OBVIOUS
<1> HIDE DEF a, b
<1>2. /\ a \o b \in Seq(S) /\ Len(a \o b) = Len(l) - 1
      /\ \A k \in 1..Len(l) - 1 : (a \o b)[k] = IF k <= i - 1 THEN a[k] ELSE b[k - (i - 1)]
  <2>1. /\ a \o b \in Seq(S) /\ Len(a \o b) = Len(a) + Len(b)
        /\ \A k \in 1..Len(a) + Len(b) : (a \o b)[k] = IF k <= Len(a) THEN a[k] ELSE b[k - Len(a)]
    <3>1. a \in Seq(S) /\ b \in Seq(S)
      BY <1>1
    <3> QED BY ONLY <3>1
  <2>2. Len(a) + Len(b) = Len(l) - 1
    BY <1>1
  <2> QED BY <1>1, <2>1, <2>2, Zenon
<1>3. ASSUME NEW k \in 1..Len(l) - 1
      PROVE  (a \o b)[k] = IF k < i THEN l[k] ELSE l[k + 1]
  <2>1. CASE k < i
    <3>1. k \in 1..i - 1 /\ k <= i - 1
      BY <1>1, <2>1
    <3> QED BY <1>1, <1>2, <2>1, <3>1
  <2>2. CASE ~(k < i)
    <3>1. k - (i - 1) \in 1..Len(l) - i /\ ~(k <= i - 1) /\ k - (i - 1) + i = k + 1
      BY <1>1, <2>2
    <3>2. b[k - (i - 1)] = l[k + 1]
      BY <1>1, <3>1
    <3> QED BY <1>2, <2>2, <3>1, <3>2
  <2> QED BY <2>1, <2>2
<1> QED BY <1>2, <1>3 DEF a, b, RemoveAt, Without

\* What is left is in the same order, each once, and nothing else is gone.
LEMMA WithoutFacts ==
  ASSUME NEW S, NEW l \in Seq(S), NEW r \in Seq(S), NEW i \in 1..Len(l), Without(l, r, i),
         IsInjective(l)
  PROVE  /\ IsInjective(r) /\ ToSet(r) = ToSet(l) \ {l[i]}
         /\ \A a, b : Before(l, a, b) /\ a # l[i] /\ b # l[i] => Before(r, a, b)
         /\ r # <<>> => Head(r) = IF i = 1 THEN l[2] ELSE l[1]
         /\ i # 1 => r # <<>>
<1>0. /\ Len(l) \in Nat /\ Len(r) = Len(l) - 1 /\ DOMAIN l = 1..Len(l) /\ DOMAIN r = 1..Len(r)
      /\ \A k \in 1..Len(r) : r[k] = IF k < i THEN l[k] ELSE l[k + 1]
  BY DEF Without
<1> DEFINE old(k) == IF k < i THEN k ELSE k + 1
           new(k) == IF k < i THEN k ELSE k - 1
<1>1. \A k \in 1..Len(r) : old(k) \in 1..Len(l) /\ old(k) # i /\ r[k] = l[old(k)]
  BY <1>0
<1>2. \A k, m \in 1..Len(r) : old(k) = old(m) => k = m
  BY <1>0
<1>3. \A k \in 1..Len(l) : k # i => new(k) \in 1..Len(r) /\ old(new(k)) = k
  BY <1>0
<1>4. \A k, m \in 1..Len(l) : k # i /\ m # i /\ k < m => new(k) < new(m)
  BY <1>0
<1>9. \A k \in 1..Len(l) : k # i => r[new(k)] = l[k]
  BY <1>1, <1>3
<1> HIDE DEF old, new
<1>5. IsInjective(r)
  BY <1>0, <1>1, <1>2 DEF IsInjective
<1>6. ToSet(r) = ToSet(l) \ {l[i]}
  <2>1. ASSUME NEW x \in ToSet(r) PROVE x \in ToSet(l) \ {l[i]}
    <3>1. PICK k \in 1..Len(r) : x = r[k]
      BY <1>0 DEF ToSet
    <3>2. l[old(k)] # l[i]
      BY <1>0, <1>1 DEF IsInjective
    <3> QED BY <1>0, <1>1, <3>1, <3>2 DEF ToSet
  <2>2. ASSUME NEW x \in ToSet(l) \ {l[i]} PROVE x \in ToSet(r)
    <3>1. PICK k \in 1..Len(l) : x = l[k]
      BY <1>0 DEF ToSet
    <3>2. k # i
      BY <3>1
    <3> QED BY <1>0, <1>3, <1>9, <3>1, <3>2 DEF ToSet
  <2> QED BY <2>1, <2>2
<1>7. ASSUME NEW a, NEW b, Before(l, a, b), a # l[i], b # l[i]
      PROVE  Before(r, a, b)
  <2>1. PICK j \in 1..Len(l), k \in 1..Len(l) : j < k /\ l[j] = a /\ l[k] = b
    BY <1>0, <1>7 DEF Before
  <2>2. j # i /\ k # i
    BY <1>7, <2>1
  <2> QED BY <1>0, <1>3, <1>4, <1>9, <2>1, <2>2 DEF Before
<1>8. (r # <<>> => Head(r) = IF i = 1 THEN l[2] ELSE l[1]) /\ (i # 1 => r # <<>>)
  <2>1. r # <<>> => Head(r) = r[1] /\ 1 \in 1..Len(r)
    OBVIOUS
  <2>2. i # 1 => Len(r) # 0
    BY <1>0
  <2>3. r = <<>> => Len(r) = 0
    OBVIOUS
  <2> QED BY <1>0, <2>1, <2>2, <2>3
<1> QED BY <1>5, <1>6, <1>7, <1>8

\* List r is list l with x, which is put at its end, or at its start.
With(l, r, x) ==
  /\ r # <<>> /\ IsInjective(r) /\ ToSet(r) = ToSet(l) \cup {x}
  /\ \A a, b : Before(l, a, b) => Before(r, a, b)

LEMMA AppendWith ==
  ASSUME NEW S, NEW l \in Seq(S), NEW x \in S, x \notin ToSet(l), IsInjective(l)
  PROVE  LET r == Append(l, x)
         IN /\ r \in Seq(S) /\ With(l, r, x)
            /\ \A a \in ToSet(l) : Before(r, a, x)
            /\ l # <<>> => Head(r) = Head(l)
            /\ Len(r) = Len(l) + 1 /\ r[Len(l) + 1] = x /\ \A k \in 1..Len(l) : r[k] = l[k]
<1> DEFINE r == Append(l, x)
<1>0. /\ r \in Seq(S) /\ DOMAIN l = 1..Len(l) /\ DOMAIN r = 1..Len(l) + 1 /\ Len(l) \in Nat
      /\ Len(r) = Len(l) + 1 /\ r[Len(l) + 1] = x /\ \A k \in 1..Len(l) : r[k] = l[k]
      /\ r # <<>> /\ (l # <<>> => Head(r) = Head(l))
  <2>1. /\ r \in Seq(S) /\ DOMAIN l = 1..Len(l) /\ DOMAIN r = 1..Len(l) + 1 /\ Len(l) \in Nat
        /\ Len(r) = Len(l) + 1 /\ r[Len(l) + 1] = x /\ \A k \in 1..Len(l) : r[k] = l[k]
    OBVIOUS
  <2> HIDE DEF r
  <2>2. r # <<>> /\ Head(r) = r[1]
    BY <2>1
  <2>3. l # <<>> => Head(l) = l[1] /\ 1 \in 1..Len(l)
    OBVIOUS
  <2> QED BY <2>1, <2>2, <2>3
<1> HIDE DEF r
<1>1. \A k \in 1..Len(l) + 1 : k \in 1..Len(l) \/ k = Len(l) + 1
  BY <1>0
<1>2. \A k \in 1..Len(l) : l[k] \in ToSet(l) /\ l[k] # x /\ k \in 1..Len(l) + 1 /\ k < Len(l) + 1
  BY <1>0 DEF ToSet
<1>3. Len(l) + 1 \in 1..Len(l) + 1
  BY <1>0
<1>4. IsInjective(r)
  BY <1>0, <1>1, <1>2 DEF IsInjective
<1>5. ToSet(r) = ToSet(l) \cup {x}
  BY <1>0, <1>1, <1>2, <1>3 DEF ToSet
<1>6. \A a, b : Before(l, a, b) => Before(r, a, b)
  BY <1>0, <1>2 DEF Before
<1>7. \A a \in ToSet(l) : Before(r, a, x)
  BY <1>0, <1>2, <1>3 DEF Before, ToSet
<1> QED BY <1>0, <1>4, <1>5, <1>6, <1>7 DEF r, With

LEMMA ConsWith ==
  ASSUME NEW S, NEW l \in Seq(S), NEW x \in S, x \notin ToSet(l), IsInjective(l)
  PROVE  LET r == <<x>> \o l
         IN /\ r \in Seq(S) /\ With(l, r, x) /\ Head(r) = x
            /\ Len(r) = Len(l) + 1 /\ r[1] = x /\ \A k \in 1..Len(l) : r[k + 1] = l[k]
            /\ \A b \in ToSet(l) : Before(r, x, b)
<1> DEFINE r == <<x>> \o l
<1>0. /\ r \in Seq(S) /\ DOMAIN l = 1..Len(l) /\ DOMAIN r = 1..Len(l) + 1 /\ Len(l) \in Nat
      /\ Len(r) = Len(l) + 1 /\ r[1] = x /\ \A k \in 1..Len(l) : r[k + 1] = l[k]
      /\ r # <<>> /\ Head(r) = x
  OBVIOUS
<1> HIDE DEF r
<1>1. \A k \in 1..Len(l) + 1 : k # 1 => k - 1 \in 1..Len(l) /\ k - 1 + 1 = k
  BY <1>0
<1>2. \A k \in 1..Len(l) : l[k] \in ToSet(l) /\ l[k] # x /\ k + 1 \in 1..Len(l) + 1 /\ 1 < k + 1
  BY <1>0 DEF ToSet
<1>3. 1 \in 1..Len(l) + 1
  BY <1>0
<1>8. \A k \in 1..Len(l) + 1 : k # 1 => k - 1 \in 1..Len(l) /\ r[k] = l[k - 1]
  BY <1>0, <1>1
<1>4. IsInjective(r)
  <2>1. ASSUME NEW i \in 1..Len(l) + 1, NEW j \in 1..Len(l) + 1, r[i] = r[j] PROVE i = j
    <3>1. CASE i = 1 \/ j = 1
      <4>1. \A k \in 1..Len(l) + 1 : k # 1 => r[k] # x
        BY <1>2, <1>8
      <4> QED BY <1>0, <2>1, <3>1, <4>1
    <3>2. CASE i # 1 /\ j # 1
      <4>1. i - 1 \in 1..Len(l) /\ j - 1 \in 1..Len(l) /\ l[i - 1] = l[j - 1]
        BY <1>8, <2>1, <3>2
      <4>2. i - 1 = j - 1
        BY <1>0, <4>1 DEF IsInjective
      <4> QED BY <1>0, <4>2
    <3> QED BY <3>1, <3>2
  <2> QED BY <1>0, <2>1 DEF IsInjective
<1>5. ToSet(r) = ToSet(l) \cup {x}
  <2>1. ASSUME NEW y \in ToSet(r) PROVE y \in ToSet(l) \cup {x}
    BY <1>0, <1>8 DEF ToSet
  <2>2. ASSUME NEW y \in ToSet(l) \cup {x} PROVE y \in ToSet(r)
    <3>1. CASE y = x
      BY <1>0, <1>3, <3>1 DEF ToSet
    <3>2. CASE y \in ToSet(l)
      <4>1. PICK k \in 1..Len(l) : y = l[k]
        BY <1>0, <3>2 DEF ToSet
      <4>2. k + 1 \in DOMAIN r /\ r[k + 1] = y
        BY <1>0, <1>2, <4>1
      <4> QED BY <4>2 DEF ToSet
    <3> QED BY <3>1, <3>2
  <2> QED BY <2>1, <2>2
<1>6. ASSUME NEW a, NEW b, Before(l, a, b) PROVE Before(r, a, b)
  <2>1. PICK i \in 1..Len(l), j \in 1..Len(l) : i < j /\ l[i] = a /\ l[j] = b
    BY <1>0, <1>6 DEF Before
  <2>2. i + 1 \in DOMAIN r /\ j + 1 \in DOMAIN r /\ i + 1 < j + 1 /\ r[i + 1] = a /\ r[j + 1] = b
    BY <1>0, <2>1
  <2> QED BY <2>2 DEF Before
<1>7. ASSUME NEW b \in ToSet(l) PROVE Before(r, x, b)
  <2>1. PICK k \in 1..Len(l) : b = l[k]
    BY <1>0 DEF ToSet
  <2>2. k + 1 \in DOMAIN r /\ 1 \in DOMAIN r /\ 1 < k + 1 /\ r[k + 1] = b /\ r[1] = x
    BY <1>0, <1>2, <1>3, <2>1
  <2> QED BY <2>2 DEF Before
<1> QED BY <1>0, <1>4, <1>5, <1>6, <1>7 DEF r, With

-----------------------------------------------------------------------------
(* The operations on the queue                                              *)

\* What is said of the head of the queue: it has the timer, or it is complete
\* and its time is over.  No other exposure is complete.
Steady(d) ==
  /\ d.list # <<>> /\ d.exp[Head(d.list)].complete = 0
       => d.timer = d.exp[Head(d.list)].end /\ d.target = Head(d.list)
  /\ d.list # <<>> /\ d.exp[Head(d.list)].complete = 1 => d.exp[Head(d.list)].end <= now
  /\ \A i \in 2..Len(d.list) : d.exp[d.list[i]].complete # 1

DevInv(d) == d \in Devices /\ Allocated(d) /\ Steady(d)

\* Device e has the queue and the exposures of d, with other times.
Retimed(d, e) ==
  /\ e.list = d.list /\ e.row = d.row /\ e.registered = d.registered
  /\ \A y \in Ids : (e.exp[y] = None) <=> (d.exp[y] = None)
  /\ \A y \in Ids : d.exp[y] # None =>
       e.exp[y].client = d.exp[y].client /\ e.exp[y].complete = d.exp[y].complete

\* Device e has the queue and the exposures of d.
SameQueue(d, e) ==
  /\ e.list = d.list /\ e.registered = d.registered
  /\ \A y \in Ids : (e.exp[y] = None) <=> (d.exp[y] = None)
  /\ \A y \in Ids : d.exp[y] # None => e.exp[y].client = d.exp[y].client

\* No exposure of d's queue is complete.
Pending(d) == \A i \in 1..Len(d.list) : d.exp[d.list[i]].complete # 1

\* A device with one field set.
WithExp(d, v) == [d EXCEPT !.exp = v]
WithTimer(d, v) == [d EXCEPT !.timer = v]
WithTarget(d, v) == [d EXCEPT !.target = v]
WithList(d, v) == [d EXCEPT !.list = v]
WithRow(d, v) == [d EXCEPT !.row = v]
WithWoken(d, v) == [d EXCEPT !.woken = v]
WithBug(d, v) == [d EXCEPT !.bug = v]
WithRegistered(d, v) == [d EXCEPT !.registered = v]

LEMMA WithExpFacts ==
  ASSUME NEW d \in Devices, NEW v \in Memory
  PROVE  LET e == WithExp(d, v)
         IN /\ e \in Devices /\ e.exp = v
            /\ e.registered = d.registered /\ e.list = d.list /\ e.timer = d.timer /\ e.target = d.target
            /\ e.row = d.row /\ e.woken = d.woken /\ e.bug = d.bug
BY SMT DEF Devices, WithExp

LEMMA WithTimerFacts ==
  ASSUME NEW d \in Devices, NEW v \in Expiries
  PROVE  LET e == WithTimer(d, v)
         IN /\ e \in Devices /\ e.timer = v
            /\ e.registered = d.registered /\ e.list = d.list /\ e.target = d.target /\ e.row = d.row
            /\ e.woken = d.woken /\ e.bug = d.bug /\ e.exp = d.exp
BY SMT DEF Devices, WithTimer

LEMMA WithTargetFacts ==
  ASSUME NEW d \in Devices, NEW v \in Targets
  PROVE  LET e == WithTarget(d, v)
         IN /\ e \in Devices /\ e.target = v
            /\ e.registered = d.registered /\ e.list = d.list /\ e.timer = d.timer /\ e.row = d.row
            /\ e.woken = d.woken /\ e.bug = d.bug /\ e.exp = d.exp
BY SMT DEF Devices, WithTarget

LEMMA WithListFacts ==
  ASSUME NEW d \in Devices, NEW v \in Seq(Ids)
  PROVE  LET e == WithList(d, v)
         IN /\ e \in Devices /\ e.list = v
            /\ e.registered = d.registered /\ e.timer = d.timer /\ e.target = d.target /\ e.row = d.row
            /\ e.woken = d.woken /\ e.bug = d.bug /\ e.exp = d.exp
BY SMT DEF Devices, WithList

LEMMA WithRowFacts ==
  ASSUME NEW d \in Devices, NEW v \in RowStates
  PROVE  LET e == WithRow(d, v)
         IN /\ e \in Devices /\ e.row = v
            /\ e.registered = d.registered /\ e.list = d.list /\ e.timer = d.timer /\ e.target = d.target
            /\ e.woken = d.woken /\ e.bug = d.bug /\ e.exp = d.exp
BY SMT DEF Devices, WithRow

LEMMA WithWokenFacts ==
  ASSUME NEW d \in Devices, NEW v \in SUBSET Clients
  PROVE  LET e == WithWoken(d, v)
         IN /\ e \in Devices /\ e.woken = v
            /\ e.registered = d.registered /\ e.list = d.list /\ e.timer = d.timer /\ e.target = d.target
            /\ e.row = d.row /\ e.bug = d.bug /\ e.exp = d.exp
BY SMT DEF Devices, WithWoken

LEMMA WithBugFacts ==
  ASSUME NEW d \in Devices, NEW v \in BOOLEAN
  PROVE  LET e == WithBug(d, v)
         IN /\ e \in Devices /\ e.bug = v
            /\ e.registered = d.registered /\ e.list = d.list /\ e.timer = d.timer /\ e.target = d.target
            /\ e.row = d.row /\ e.woken = d.woken /\ e.exp = d.exp
BY SMT DEF Devices, WithBug

LEMMA WithRegisteredFacts ==
  ASSUME NEW d \in Devices, NEW v \in BOOLEAN
  PROVE  LET e == WithRegistered(d, v)
         IN /\ e \in Devices /\ e.registered = v
            /\ e.list = d.list /\ e.timer = d.timer /\ e.target = d.target /\ e.row = d.row
            /\ e.woken = d.woken /\ e.bug = d.bug /\ e.exp = d.exp
BY SMT DEF Devices, WithRegistered

LEMMA DeviceFields ==
  ASSUME NEW d \in Devices
  PROVE  /\ d.registered \in BOOLEAN /\ d.list \in Seq(Ids) /\ d.timer \in Expiries
         /\ d.target \in Targets /\ d.row \in RowStates /\ d.woken \in SUBSET Clients
         /\ d.bug \in BOOLEAN /\ d.exp \in Memory
BY SMT DEF Devices

LEMMA ExposureTypes ==
  ASSUME NEW d \in Devices
  PROVE  /\ Len(d.list) \in Nat /\ DOMAIN d.list = 1..Len(d.list)
         /\ \A i \in 1..Len(d.list) : d.list[i] \in Ids
         /\ d.exp \in [Ids -> Exposures \cup {None}]
         /\ \A y \in Ids : d.exp[y] # None =>
              /\ d.exp[y] \in Exposures /\ d.exp[y].msec \in Nat /\ d.exp[y].end \in Nat
              /\ d.exp[y].begin \in Nat /\ d.exp[y].client \in Clients
<1>1. /\ d.list \in Seq(Ids) /\ d.exp \in [Ids -> Exposures \cup {None}]
  BY DeviceFields DEF Memory
<1>2. Durations \subseteq Nat
  BY CcdAssumption, SMT
<1>3. ASSUME NEW e \in Exposures
      PROVE  e.msec \in Nat /\ e.end \in Nat /\ e.begin \in Nat /\ e.client \in Clients
  BY <1>2 DEF Exposures
<1> QED BY <1>1, <1>3

LEMMA MemoryWith ==
  ASSUME NEW m \in Memory, NEW x \in Ids, NEW e \in Exposures \cup {None}
  PROVE  /\ [m EXCEPT ![x] = e] \in Memory /\ [m EXCEPT ![x] = e][x] = e
         /\ \A y \in Ids : y # x => [m EXCEPT ![x] = e][y] = m[y]
BY DEF Memory

LEMMA StartExposureFacts ==
  ASSUME NEW d \in Devices, NEW x \in Ids, d.exp[x] # None, now \in Nat
  PROVE  LET e == StartExposure(d, x)
         IN /\ e \in Devices /\ Retimed(d, e)
            /\ e.timer = e.exp[x].end /\ e.target = x
<1> DEFINE t == now + d.exp[x].msec
           n == [d.exp[x] EXCEPT !.begun = TRUE, !.begin = now, !.end = t]
           m == [d.exp EXCEPT ![x] = n]
           e == WithTarget(WithTimer(WithExp(d, m), t), x)
<1>0. d.exp[x] \in Exposures /\ t \in Nat
  BY ExposureTypes
<1> HIDE DEF t
<1>1. /\ n \in Exposures /\ n.client = d.exp[x].client /\ n.complete = d.exp[x].complete
      /\ n.end = t /\ n # None
  BY <1>0, NoneAssumption DEF Exposures
<1> HIDE DEF n
<1>2. m \in Memory /\ m[x] = n /\ \A y \in Ids : y # x => m[y] = d.exp[y]
  BY <1>1, DeviceFields, MemoryWith
<1> HIDE DEF m
<1>3. StartExposure(d, x) = e
  BY SMT DEF StartExposure, WithExp, WithTimer, WithTarget, t, n, m
<1>4. e \in Devices /\ e.exp = m /\ e.list = d.list /\ e.row = d.row /\ e.timer = t /\ e.target = x /\ e.registered = d.registered
  <2>1. t \in Expiries /\ x \in Targets
    BY <1>0 DEF Expiries, Targets
  <2> QED BY <1>2, <2>1, WithExpFacts, WithTimerFacts, WithTargetFacts
<1> HIDE DEF e
<1> QED BY <1>1, <1>2, <1>3, <1>4 DEF Retimed

LEMMA AddTimerFacts ==
  ASSUME NEW d \in Devices, NEW x \in Ids, d.exp[x] # None
  PROVE  LET e == AddTimer(d, x)
         IN /\ e \in Devices /\ Retimed(d, e) /\ e.exp = d.exp
            /\ e.timer = e.exp[x].end /\ e.target = x
<1> DEFINE t == d.exp[x].end
           b == d.bug \/ d.timer # None
           e == WithBug(WithTimer(WithTarget(d, x), t), b)
<1>0. t \in Expiries /\ x \in Targets /\ b \in BOOLEAN
  <2>1. t \in Nat /\ d.bug \in BOOLEAN
    BY ExposureTypes, DeviceFields
  <2>2. (d.timer # None) \in BOOLEAN
    BY Zenon
  <2>3. b \in BOOLEAN
    BY Zenon
  <2> QED BY <2>1, <2>3 DEF Expiries, Targets
<1>1. AddTimer(d, x) = e
  BY SMT DEF AddTimer, WithBug, WithTimer, WithTarget
<1> HIDE DEF t, b
<1>2. /\ e \in Devices /\ e.exp = d.exp /\ e.list = d.list /\ e.row = d.row /\ e.registered = d.registered
      /\ e.timer = t /\ e.target = x
  BY <1>0, WithBugFacts, WithTimerFacts, WithTargetFacts
<1> HIDE DEF e
<1> QED BY <1>1, <1>2 DEF Retimed, t

\* Each exposure after the i-th is given new times; the head keeps its own.
LEMMA UpdateExposuresFacts ==
  ASSUME NEW d \in Devices, Allocated(d), NEW i \in 1..Len(d.list)
  PROVE  LET e == UpdateExposures(d, i)
         IN /\ e \in Devices /\ Retimed(d, e) /\ e.exp[Head(d.list)] = d.exp[Head(d.list)]
            /\ e.timer = d.timer /\ e.target = d.target
<1> DEFINE n == Len(d.list)
           b == d.exp[d.list[i]].end
           len(k) == d.exp[d.list[k]].msec
           D == [i..n -> Nat]
           IsEnd(f) == f = [k \in i..n |-> IF k = i THEN b ELSE f[k - 1] + len(k)]
           end == CHOOSE f : IsEnd(f)
<1>0. /\ n \in Nat /\ b \in Nat /\ \A k \in i..n : len(k) \in Nat
      /\ \A k \in 1..n : d.list[k] \in Ids /\ d.exp[d.list[k]] \in Exposures
  <2>1. \A k \in 1..n : d.list[k] \in Ids /\ d.exp[d.list[k]] # None
    BY ExposureTypes DEF Allocated
  <2>2. n \in Nat /\ i \in 1..n /\ i..n \subseteq 1..n
    BY ExposureTypes
  <2> HIDE DEF n
  <2> QED BY <2>1, <2>2, ExposureTypes
<1> HIDE DEF n, b, len
<1>1. \E f \in D : IsEnd(f)
  <2> DEFINE m == n - i
             g == [k \in 1..m |-> [t \in Nat |-> t + len(k + i)]]
  <2>1. m \in Nat /\ i \in Nat
    BY <1>0 DEF n
  <2>2. g \in Bodies(Nat, m)
    BY <1>0, <2>1 DEF Bodies
  <2>3. \A k \in 1..m, t \in Nat : g[k][t] = t + len(k + i)
    OBVIOUS
  <2> HIDE DEF g
  <2>4. PICK f \in [0..m -> Nat] : f[0] = b /\ \A k \in 1..m : f[k] = g[k][f[k - 1]]
    <3>1. b \in Nat /\ m \in Nat
      BY <1>0, <2>1
    <3> HIDE DEF m
    <3>2. PICK f : f \in Runs(Nat, m, b, g)
      BY <2>2, <3>1, Rounds, Zenon
    <3> QED BY <3>2 DEF Runs
  <2> DEFINE h == [k \in i..n |-> f[k - i]]
  <2>5. h \in D
    BY <1>0, <2>1
  <2>6. ASSUME NEW k \in i..n PROVE h[k] = IF k = i THEN b ELSE h[k - 1] + len(k)
    <3>1. CASE k = i
      BY <2>1, <2>4, <3>1
    <3>2. CASE k # i
      <4>1. k - i \in 1..m /\ k - 1 \in i..n /\ k - i - 1 \in 0..m /\ k - i - 1 = k - 1 - i /\ k - i + i = k
        BY <1>0, <2>1, <3>2
      <4>2. h[k - 1] = f[k - i - 1] /\ f[k - i - 1] \in Nat
        BY <4>1
      <4>3. f[k - i] = g[k - i][f[k - i - 1]]
        BY <2>4, <4>1
      <4>4. g[k - i][f[k - i - 1]] = f[k - i - 1] + len(k)
        BY <2>3, <4>1, <4>2
      <4> QED BY <3>2, <4>2, <4>3, <4>4
    <3> QED BY <3>1, <3>2
  <2>7. h = [k \in i..n |-> IF k = i THEN b ELSE h[k - 1] + len(k)]
    <3>1. h = [k \in i..n |-> h[k]]
      OBVIOUS
    <3> HIDE DEF h
    <3> QED BY <2>6, <3>1, Zenon
  <2> HIDE DEF h
  <2> QED BY <2>5, <2>7
<1>2. IsEnd(end)
  BY <1>1, Zenon
<1>3. \A k \in i..n : end[k] \in Nat
  <2> DEFINE T == {k \in 0..n - i : end[k + i] \notin Nat}
  <2>0. n - i \in Nat /\ i \in Nat
    BY <1>0 DEF n
  <2>1. ASSUME NEW k \in i..n PROVE end[k] = IF k = i THEN b ELSE end[k - 1] + len(k)
    <3> HIDE DEF end
    <3> QED BY <1>2
  <2> HIDE DEF end
  <2>2. end[i] = b /\ 0 + i = i /\ i \in i..n
    BY <1>0, <2>0, <2>1
  <2>3. ASSUME NEW k \in 1..n - i, k \in T PROVE k - 1 \in T
    <3>1. k + i \in i..n /\ k + i # i /\ k + i - 1 = k - 1 + i /\ k - 1 \in 0..n - i
      BY <1>0, <2>0
    <3>2. end[k + i] = end[k - 1 + i] + len(k + i) /\ len(k + i) \in Nat
      BY <1>0, <2>1, <3>1
    <3> QED BY <2>3, <3>1, <3>2
  <2>4. T = {}
    <3>1. T \subseteq 0..n - i /\ 0 \notin T
      BY <1>0, <2>2
    <3> HIDE DEF T
    <3> QED BY <2>0, <2>3, <3>1, Induction
  <2>5. ASSUME NEW k \in i..n PROVE end[k] \in Nat
    <3>1. k - i \in 0..n - i /\ k - i + i = k
      BY <1>0, <2>0
    <3> QED BY <2>4, <3>1
  <2> QED BY <2>5
<1> DEFINE m == [x \in Ids |->
             IF \E k \in i+1..n : d.list[k] = x
             THEN LET k == CHOOSE k \in i+1..n : d.list[k] = x
                  IN [d.exp[x] EXCEPT !.begin = end[k-1], !.end = end[k]]
             ELSE d.exp[x]]
           e == WithExp(d, m)
<1>4. UpdateExposures(d, i) = e
  BY SMT DEF UpdateExposures, WithExp, n, b, len
<1> HIDE DEF end
<1>5. ASSUME NEW x \in Ids
      PROVE  /\ m[x] \in Exposures \cup {None} /\ (m[x] = None <=> d.exp[x] = None)
             /\ d.exp[x] # None => m[x].client = d.exp[x].client /\ m[x].complete = d.exp[x].complete
  <2>1. CASE \E k \in i+1..n : d.list[k] = x
    <3> DEFINE k == CHOOSE k \in i+1..n : d.list[k] = x
    <3>1. k \in i+1..n /\ d.list[k] = x
      BY <2>1
    <3>2. m[x] = [d.exp[x] EXCEPT !.begin = end[k-1], !.end = end[k]]
      BY <2>1
    <3> HIDE DEF k, m
    <3>3. k \in 1..n /\ k \in i..n /\ k - 1 \in i..n
      BY <1>0, <3>1 DEF n
    <3>4. d.exp[x] \in Exposures /\ end[k] \in Nat /\ end[k - 1] \in Nat
      BY <1>0, <1>3, <3>1, <3>3
    <3> QED BY <3>2, <3>4, NoneAssumption DEF Exposures
  <2>2. CASE ~\E k \in i+1..n : d.list[k] = x
    <3>1. m[x] = d.exp[x]
      BY <2>2
    <3> HIDE DEF m
    <3> QED BY <3>1, ExposureTypes
  <2> QED BY <2>1, <2>2
<1>6. m[Head(d.list)] = d.exp[Head(d.list)]
  <2>1. n > 0 /\ Head(d.list) = d.list[1] /\ 1 \in 1..n
    <3>1. d.list \in Seq(Ids) /\ Len(d.list) > 0
      BY <1>0, DeviceFields DEF n
    <3> QED BY <3>1 DEF n
  <2>2. ASSUME NEW k \in i+1..n PROVE d.list[k] # d.list[1]
    <3>1. k \in 1..n /\ k # 1
      BY <1>0 DEF n
    <3> QED BY <2>1, <3>1, ExposureTypes DEF Allocated, IsInjective, n
  <2>3. d.list[1] \in Ids
    BY <1>0, <2>1
  <2> QED BY <2>1, <2>2, <2>3
<1>7. m \in Memory
  <2>1. m = [x \in Ids |-> m[x]]
    OBVIOUS
  <2> HIDE DEF m
  <2> QED BY <1>5, <2>1 DEF Memory
<1> HIDE DEF m
<1>8. /\ e \in Devices /\ e.exp = m /\ e.list = d.list /\ e.row = d.row
      /\ e.timer = d.timer /\ e.target = d.target /\ e.registered = d.registered
  BY <1>7, WithExpFacts
<1> HIDE DEF e
<1> QED BY <1>4, <1>5, <1>6, <1>8 DEF Retimed

LEMMA RetimedFacts ==
  ASSUME NEW d \in Devices, NEW e, Retimed(d, e), Allocated(d)
  PROVE  Allocated(e) /\ SameQueue(d, e) /\ (Pending(d) => Pending(e))
<1>1. DOMAIN d.list = 1..Len(d.list) /\ \A i \in 1..Len(d.list) : d.list[i] \in Ids /\ d.exp[d.list[i]] # None
  BY ExposureTypes DEF Allocated
<1>2. e.list = d.list
  BY DEF Retimed
<1>3. \A i \in 1..Len(d.list) : e.exp[d.list[i]] # None /\ e.exp[d.list[i]].complete = d.exp[d.list[i]].complete
  BY <1>1 DEF Retimed
<1> QED BY <1>1, <1>2, <1>3 DEF Retimed, Allocated, SameQueue, Pending

\* complete_exposure and finish_exposure for the head of the queue.
LEMMA FinishExposureFacts ==
  ASSUME NEW d \in Devices, NEW x \in Ids, d.exp[x] # None, d.list # <<>>,
         d.exp[x].complete = 0, Head(d.list) = x
  PROVE  LET e == FinishExposure(d, x)
         IN /\ e \in Devices /\ SameQueue(d, e)
            /\ e.exp[x].complete = 1 /\ e.exp[x].end = d.exp[x].end
            /\ \A y \in Ids : y # x => e.exp[y] = d.exp[y]
            /\ e.row = StartLoad /\ e.timer = d.timer /\ e.target = d.target
<1> DEFINE n == [d.exp[x] EXCEPT !.complete = 1]
           m == [d.exp EXCEPT ![x] = n]
           w == d.woken \cup Waiting(d.exp[x].client)
           e == WithWoken(WithExp(WithRow(d, StartLoad), m), w)
<1>0. d.exp[x] \in Exposures
  BY ExposureTypes
<1>1. /\ n \in Exposures /\ n.client = d.exp[x].client /\ n.end = d.exp[x].end
      /\ n.complete = 1 /\ n # None
  BY <1>0, NoneAssumption DEF Exposures
<1>3. FinishExposure(d, x) = e
  BY SMT DEF FinishExposure, WithExp, WithRow, WithWoken
<1> HIDE DEF n
<1>2. m \in Memory /\ m[x] = n /\ \A y \in Ids : y # x => m[y] = d.exp[y]
  BY <1>1, DeviceFields, MemoryWith
<1> HIDE DEF m
<1>5. w \in SUBSET Clients
  <2>1. d.exp[x].client \in Clients /\ d.woken \in SUBSET Clients
    BY ExposureTypes, DeviceFields
  <2>2. Waiting(d.exp[x].client) \subseteq {d.exp[x].client}
    BY DEF Waiting
  <2> QED BY <2>1, <2>2
<1>6. StartLoad \in RowStates
  BY CcdAssumption, SMT DEF StartLoad, RowStates
<1> HIDE DEF w
<1>4. /\ e \in Devices /\ e.exp = m /\ e.list = d.list /\ e.row = StartLoad
      /\ e.timer = d.timer /\ e.target = d.target /\ e.registered = d.registered
  BY <1>2, <1>5, <1>6, WithExpFacts, WithRowFacts, WithWokenFacts
<1> HIDE DEF e
<1> QED BY <1>1, <1>2, <1>3, <1>4 DEF SameQueue

\* Once the head is gone, the next exposure has the timer, or is complete.
LEMMA SuccessorFacts ==
  ASSUME NEW d \in Devices, Allocated(d), d.list # <<>>, Pending(d), NEW x, now \in Nat
  PROVE  DevInv(Successor(d, x)) /\ SameQueue(d, Successor(d, x))
<1> DEFINE y == Head(d.list)
           e == Successor(d, x)
<1>0. /\ Len(d.list) \in Nat /\ 1 \in 1..Len(d.list) /\ y = d.list[1] /\ y \in Ids /\ d.exp[y] # None
      /\ d.exp[y].complete # 1
  <2>1. d.list \in Seq(Ids)
    BY DeviceFields
  <2>2. 1 \in 1..Len(d.list) /\ y = d.list[1]
    BY <2>1
  <2> QED BY <2>2, ExposureTypes DEF Allocated, Pending
<1>1. ASSUME NEW f \in Devices, Retimed(d, f), f.timer = f.exp[y].end, f.target = y
      PROVE  DevInv(f) /\ SameQueue(d, f)
  <2>1. Allocated(f) /\ SameQueue(d, f) /\ Pending(f) /\ f.list = d.list
    BY <1>1, RetimedFacts DEF Retimed
  <2>2. Steady(f)
    BY <1>0, <1>1, <2>1 DEF Steady, Pending
  <2> QED BY <2>1, <2>2 DEF DevInv
<1>2. CASE d.exp[x].end <= d.exp[y].begin
  <2> DEFINE u == UpdateExposures(d, 1)
  <2>1. u \in Devices /\ Retimed(d, u)
    BY <1>0, UpdateExposuresFacts
  <2>2. e = StartExposure(u, y)
    BY <1>2 DEF Successor
  <2> HIDE DEF u, y, e
  <2>3. u.exp[y] # None
    BY <1>0, <2>1 DEF Retimed
  <2>4. e \in Devices /\ Retimed(u, e) /\ e.timer = e.exp[y].end /\ e.target = y
    BY <1>0, <2>1, <2>2, <2>3, StartExposureFacts
  <2>5. Retimed(d, e)
    BY <2>1, <2>4 DEF Retimed
  <2>6. DevInv(e) /\ SameQueue(d, e)
    BY <1>1, <2>4, <2>5
  <2> QED BY <2>6 DEF e
<1>3. CASE ~(d.exp[x].end <= d.exp[y].begin) /\ d.exp[y].end <= now
  <2>1. e = FinishExposure(d, y)
    BY <1>3 DEF Successor
  <2>2. CASE d.exp[y].complete = 0
    <3> HIDE DEF e
    <3>1. /\ e \in Devices /\ SameQueue(d, e) /\ e.exp[y].complete = 1 /\ e.exp[y].end = d.exp[y].end
          /\ \A z \in Ids : z # y => e.exp[z] = d.exp[z]
      BY <1>0, <2>1, <2>2, FinishExposureFacts
    <3>2. e.list = d.list /\ DOMAIN d.list = 1..Len(d.list)
      BY <3>1, ExposureTypes DEF SameQueue
    <3>3. Allocated(e)
      BY <3>1, <3>2, ExposureTypes DEF SameQueue, Allocated
    <3>4. ASSUME NEW i \in 2..Len(d.list) PROVE e.exp[d.list[i]].complete # 1
      <4>1. i \in 1..Len(d.list) /\ i # 1
        BY <1>0
      <4>2. d.list[i] # y /\ d.list[i] \in Ids
        BY <1>0, <3>2, <4>1, ExposureTypes DEF Allocated, IsInjective
      <4> QED BY <3>1, <4>1, <4>2 DEF Pending
    <3>5. Steady(e)
      <4> HIDE DEF y
      <4>1. Head(e.list) = y
        BY <3>2 DEF y
      <4> QED BY <1>3, <3>1, <3>2, <3>4, <4>1 DEF Steady
    <3>6. DevInv(e)
      BY <3>1, <3>3, <3>5 DEF DevInv
    <3> QED BY <3>1, <3>6 DEF e
  <2>3. CASE d.exp[y].complete # 0
    <3>1. e = d
      BY <2>1, <2>3 DEF FinishExposure
    <3> HIDE DEF e
    <3>2. SameQueue(d, d)
      BY DEF SameQueue
    <3>3. Steady(d)
      BY <1>0, <2>3 DEF Steady, Pending
    <3>4. DevInv(e) /\ SameQueue(d, e)
      BY <3>1, <3>2, <3>3 DEF DevInv
    <3> QED BY <3>4 DEF e
  <2> QED BY <2>2, <2>3
<1>4. CASE ~(d.exp[x].end <= d.exp[y].begin) /\ ~(d.exp[y].end <= now)
  <2>1. e = AddTimer(d, y)
    BY <1>4 DEF Successor
  <2> HIDE DEF e
  <2>2. e \in Devices /\ Retimed(d, e) /\ e.timer = e.exp[y].end /\ e.target = y
    BY <1>0, <2>1, AddTimerFacts
  <2>3. DevInv(e) /\ SameQueue(d, e)
    BY <1>1, <2>2
  <2> QED BY <2>3 DEF e
<1> QED BY <1>2, <1>3, <1>4

\* Device e has the queue of d without S, in the same order; unless the head is
\* in S it stays where it is, as does its download.
Shrunk(d, e, S) ==
  /\ ToSet(e.list) = ToSet(d.list) \ S /\ e.registered = d.registered
  /\ \A a, b : Before(d.list, a, b) /\ a \notin S /\ b \notin S => Before(e.list, a, b)
  /\ \A y \in ToSet(e.list) : e.exp[y].client = d.exp[y].client
  /\ d.list # <<>> /\ Head(d.list) \notin S
       => /\ e.list # <<>> /\ Head(e.list) = Head(d.list) /\ e.row = d.row
          /\ e.exp[Head(d.list)].complete = d.exp[Head(d.list)].complete

\* List r is list l without its i-th entry: what is left, and in which order.
Cut(l, r, i) ==
  /\ ToSet(r) = ToSet(l) \ {l[i]} /\ Len(r) = Len(l) - 1
  /\ \A a, b : Before(l, a, b) /\ a # l[i] /\ b # l[i] => Before(r, a, b)
  /\ i # 1 => r # <<>> /\ Head(r) = l[1]
  /\ \A k \in 1..Len(r) : r[k] = IF k < i THEN l[k] ELSE l[k + 1]

\* One exposure is taken off the queue, the first or another.
LEMMA ListWithout ==
  ASSUME NEW d \in Devices, Allocated(d), NEW l, NEW i \in 1..Len(d.list),
         l \in Seq(Ids), Without(d.list, l, i), NEW e \in Devices, e.list = l, e.exp = d.exp
  PROVE  Allocated(e) /\ Cut(d.list, l, i)
<1>0. /\ d.list \in Seq(Ids) /\ DOMAIN d.list = 1..Len(d.list) /\ DOMAIN l = 1..Len(l)
      /\ Len(d.list) \in Nat /\ Len(l) = Len(d.list) - 1
  BY DeviceFields DEF Without
<1>1. /\ IsInjective(l) /\ ToSet(l) = ToSet(d.list) \ {d.list[i]}
      /\ \A a, b : Before(d.list, a, b) /\ a # d.list[i] /\ b # d.list[i] => Before(l, a, b)
      /\ i # 1 => l # <<>> /\ Head(l) = d.list[1]
  BY <1>0, WithoutFacts DEF Allocated
<1>2. ASSUME NEW k \in 1..Len(l)
      PROVE  l[k] = IF k < i THEN d.list[k] ELSE d.list[k + 1]
  BY <1>0 DEF Without
<1>3. ASSUME NEW k \in 1..Len(l) PROVE d.exp[l[k]] # None
  <2>1. k \in 1..Len(d.list) /\ k + 1 \in 1..Len(d.list)
    BY <1>0
  <2> QED BY <1>0, <1>2, <2>1 DEF Allocated
<1> QED BY <1>0, <1>1, <1>2, <1>3 DEF Allocated, Cut

\* The first step of del_exposure for the head of the queue.
Headless(d, x) ==
  [d EXCEPT !.list = Tail(@), !.timer = IF d.exp[x].complete = 0 THEN None ELSE @]

LEMMA DelExposureFacts ==
  ASSUME NEW d, DevInv(d), NEW x \in Ids, now \in Nat
  PROVE  DevInv(DelExposure(d, x)) /\ Shrunk(d, DelExposure(d, x), {x})
<1> DEFINE f == DelExposure(d, x)
           n == Len(d.list)
<1>0. /\ d \in Devices /\ Allocated(d) /\ Steady(d) /\ d.list \in Seq(Ids) /\ d.exp \in Memory
      /\ n \in Nat /\ DOMAIN d.list = 1..n /\ \A i \in 1..n : d.list[i] \in Ids
  <2>1. d \in Devices
    BY DEF DevInv
  <2> QED BY <2>1, DeviceFields, ExposureTypes DEF DevInv
<1>1. CASE d.list # <<>> /\ Head(d.list) = x
  <2> DEFINE l == Tail(d.list)
             t == IF d.exp[x].complete = 0 THEN None ELSE d.timer
             e == WithTimer(WithList(d, l), t)
  <2>1. Headless(d, x) = e
    BY SMT DEF WithTimer, WithList, Headless
  <2>2. l \in Seq(Ids) /\ Without(d.list, l, 1) /\ x = d.list[1] /\ 1 \in 1..n
    <3>1. n > 0
      BY <1>0, <1>1
    <3> QED BY <1>0, <1>1, <3>1, TailWithout
  <2>3. t \in Expiries
    BY <1>0, DeviceFields DEF Expiries
  <2> HIDE DEF l, t
  <2>4. f = IF e.list = <<>> THEN e ELSE Successor(e, x)
    <3>1. f = LET h == Headless(d, x) IN IF h.list = <<>> THEN h ELSE Successor(h, x)
      BY <1>1, SMT DEF DelExposure, Headless
    <3> HIDE DEF e, f
    <3> QED BY <2>1, <3>1
  <2>5. e \in Devices /\ e.list = l /\ e.exp = d.exp /\ e.registered = d.registered
    <3> DEFINE e1 == WithList(d, l)
    <3>1. e1 \in Devices /\ e1.list = l /\ e1.exp = d.exp /\ e1.registered = d.registered
      BY <1>0, <2>2, WithListFacts
    <3> HIDE DEF e1
    <3>2. e = WithTimer(e1, t)
      BY DEF e1
    <3> HIDE DEF e
    <3> QED BY <2>3, <3>1, <3>2, WithTimerFacts
  <2> HIDE DEF e, f
  <2>6. /\ Allocated(e) /\ ToSet(l) = ToSet(d.list) \ {x} /\ Len(l) = n - 1
        /\ \A a, b : Before(d.list, a, b) /\ a # x /\ b # x => Before(l, a, b)
        /\ \A k \in 1..Len(l) : l[k] = d.list[k + 1]
    <3>1. /\ Allocated(e) /\ ToSet(l) = ToSet(d.list) \ {x} /\ Len(l) = n - 1
          /\ \A a, b : Before(d.list, a, b) /\ a # x /\ b # x => Before(l, a, b)
          /\ \A k \in 1..Len(l) : l[k] = IF k < 1 THEN d.list[k] ELSE d.list[k + 1]
      <4>1. Allocated(e) /\ Cut(d.list, l, 1)
        BY <1>0, <2>2, <2>5, ListWithout
      <4> QED BY <2>2, <4>1 DEF Cut
    <3> QED BY <1>0, <3>1
  <2>7. Pending(e)
    <3>1. ASSUME NEW k \in 1..Len(l) PROVE k + 1 \in 2..n
      BY <1>0, <2>6
    <3> QED BY <1>0, <2>5, <2>6, <3>1 DEF Pending, Steady
  <2>8. DevInv(f) /\ SameQueue(e, f)
    <3>1. CASE e.list = <<>>
      <4>1. Len(e.list) = 0
        BY <3>1
      <4>2. Steady(e) /\ SameQueue(e, e)
        BY <3>1, <4>1 DEF Steady, SameQueue
      <4> QED BY <2>4, <2>5, <2>6, <3>1, <4>2 DEF DevInv
    <3>2. CASE e.list # <<>>
      BY <2>4, <2>5, <2>6, <2>7, <3>2, SuccessorFacts
    <3> QED BY <3>1, <3>2
  <2>9. Shrunk(d, f, {x})
    <3>1. /\ f.list = l /\ f.registered = d.registered
          /\ \A y \in Ids : d.exp[y] # None => f.exp[y].client = d.exp[y].client
      BY <2>5, <2>8 DEF SameQueue
    <3>2. ASSUME NEW y \in ToSet(l) PROVE y \in Ids /\ d.exp[y] # None
      <4>1. PICK k \in 1..n : y = d.list[k]
        BY <1>0, <2>6 DEF ToSet
      <4> QED BY <1>0, <4>1 DEF Allocated
    <3> QED BY <1>1, <2>6, <3>1, <3>2 DEF Shrunk
  <2> QED BY <2>8, <2>9 DEF f
<1>2. CASE ~(d.list # <<>> /\ Head(d.list) = x) /\ Contains(d.list, x)
  <2> DEFINE i == SelectInSeq(d.list, LAMBDA y : y = x)
             l == RemoveAt(d.list, i)
             e == WithList(d, l)
             I == {k \in 1..n : d.list[k] = x}
  <2>1. i \in 1..n /\ d.list[i] = x
    <3>1. I # {} /\ I \subseteq Nat
      BY <1>0, <1>2 DEF Contains, ToSet
    <3>2. \E k \in I : \A j \in I : k <= j
      <4> HIDE DEF I
      <4> QED BY <3>1, LeastNatural
    <3>3. i = Min(I)
      BY <3>1 DEF SelectInSeq
    <3>4. Min(I) \in I
      BY <3>2 DEF Min
    <3> QED BY <3>3, <3>4
  <2>2. f = UpdateExposures(e, i - 1)
    <3>1. [d EXCEPT !.list = RemoveAt(@, i)] = e
      BY SMT DEF WithList
    <3> QED BY <1>2, <3>1 DEF DelExposure
  <2> HIDE DEF i, I
  <2>3. i # 1 /\ d.list # <<>> /\ Head(d.list) = d.list[1] /\ 1 \in 1..n
    <3>1. n > 0 /\ 1 \in 1..n
      BY <1>0, <2>1
    <3>2. d.list # <<>> /\ Head(d.list) = d.list[1]
      BY <1>0, <3>1
    <3> QED BY <1>2, <2>1, <3>1, <3>2
  <2>4. l \in Seq(Ids) /\ Without(d.list, l, i)
    BY <1>0, <2>1, RemoveAtWithout
  <2> HIDE DEF l
  <2>5. e \in Devices /\ e.list = l /\ e.exp = d.exp /\ e.timer = d.timer /\ e.target = d.target /\ e.row = d.row /\ e.registered = d.registered
    BY <1>0, <2>4, WithListFacts
  <2> HIDE DEF e, f
  <2>6. /\ Allocated(e) /\ ToSet(l) = ToSet(d.list) \ {x} /\ Len(l) = n - 1
        /\ \A a, b : Before(d.list, a, b) /\ a # x /\ b # x => Before(l, a, b)
        /\ l # <<>> /\ Head(l) = d.list[1]
        /\ \A k \in 1..Len(l) : l[k] = IF k < i THEN d.list[k] ELSE d.list[k + 1]
    <3>1. Allocated(e) /\ Cut(d.list, l, i)
      BY <1>0, <2>1, <2>4, <2>5, ListWithout
    <3> QED BY <2>1, <2>3, <3>1 DEF Cut
  <2>7. /\ f \in Devices /\ Retimed(e, f) /\ f.exp[Head(l)] = e.exp[Head(l)]
        /\ f.timer = e.timer /\ f.target = e.target
    <3>1. i - 1 \in 1..Len(l)
      BY <1>0, <2>1, <2>3, <2>6
    <3> QED BY <2>2, <2>5, <2>6, <3>1, UpdateExposuresFacts
  <2>8. Allocated(f) /\ SameQueue(e, f) /\ f.list = l /\ f.row = d.row /\ f.registered = d.registered
    BY <2>5, <2>6, <2>7, RetimedFacts DEF Retimed
  <2>9. ASSUME NEW y \in ToSet(l)
        PROVE  y \in Ids /\ d.exp[y] # None /\ f.exp[y].client = d.exp[y].client
               /\ f.exp[y].complete = d.exp[y].complete
    <3>1. PICK k \in 1..n : y = d.list[k]
      BY <1>0, <2>6 DEF ToSet
    <3>2. y \in Ids /\ d.exp[y] # None
      BY <1>0, <3>1 DEF Allocated
    <3> QED BY <2>5, <2>7, <3>2 DEF Retimed
  <2>10. Steady(f)
    <3>1. ASSUME NEW k \in 2..Len(l) PROVE f.exp[l[k]].complete # 1
      <4>1. k \in 1..Len(l) /\ k \in 2..n /\ k + 1 \in 2..n
        BY <1>0, <2>6
      <4>2. l[k] \in ToSet(l)
        BY <2>4, <4>1 DEF ToSet
      <4>3. d.exp[l[k]].complete # 1
        BY <1>0, <2>6, <4>1 DEF Steady
      <4> QED BY <2>9, <4>2, <4>3
    <3>2. Head(f.list) = d.list[1] /\ f.exp[d.list[1]] = d.exp[d.list[1]]
      BY <2>5, <2>6, <2>7, <2>8
    <3> QED BY <1>0, <2>3, <2>5, <2>7, <2>8, <3>1, <3>2 DEF Steady
  <2>11. Shrunk(d, f, {x})
    <3>1. f.list # <<>> /\ Head(f.list) = Head(d.list) /\ f.exp[Head(d.list)] = d.exp[Head(d.list)]
      BY <2>3, <2>5, <2>6, <2>7, <2>8
    <3> QED BY <2>6, <2>8, <2>9, <3>1 DEF Shrunk
  <2> QED BY <2>7, <2>8, <2>10, <2>11 DEF DevInv, f
<1>3. CASE ~(d.list # <<>> /\ Head(d.list) = x) /\ ~Contains(d.list, x)
  <2>1. f = d
    BY <1>3 DEF DelExposure
  <2>2. x \notin ToSet(d.list)
    BY <1>0, <1>3 DEF Contains, ToSet
  <2>3. Shrunk(d, d, {x})
    BY <2>2 DEF Shrunk
  <2> HIDE DEF f
  <2>4. DevInv(f) /\ Shrunk(d, f, {x})
    BY <2>1, <2>3
  <2> QED BY <2>4 DEF f
<1> QED BY <1>1, <1>2, <1>3

LEMMA ShrunkTransitive ==
  ASSUME NEW d, NEW e, NEW f, NEW S, NEW T, Shrunk(d, e, S), Shrunk(e, f, T)
  PROVE  Shrunk(d, f, S \cup T)
<1>1. ToSet(f.list) = ToSet(d.list) \ (S \cup T) /\ f.registered = d.registered
  BY DEF Shrunk
<1>2. \A a, b : Before(d.list, a, b) /\ a \notin S \cup T /\ b \notin S \cup T => Before(f.list, a, b)
  BY DEF Shrunk
<1>3. \A y \in ToSet(f.list) : f.exp[y].client = d.exp[y].client
  <2>1. \A y \in ToSet(f.list) : f.exp[y].client = e.exp[y].client /\ y \in ToSet(e.list)
    BY DEF Shrunk
  <2>2. \A y \in ToSet(e.list) : e.exp[y].client = d.exp[y].client
    BY DEF Shrunk
  <2> QED BY <2>1, <2>2
<1>4. ASSUME d.list # <<>>, Head(d.list) \notin S \cup T
      PROVE  /\ f.list # <<>> /\ Head(f.list) = Head(d.list) /\ f.row = d.row
             /\ f.exp[Head(d.list)].complete = d.exp[Head(d.list)].complete
  <2>1. /\ e.list # <<>> /\ Head(e.list) = Head(d.list) /\ e.row = d.row
        /\ e.exp[Head(d.list)].complete = d.exp[Head(d.list)].complete
    BY <1>4 DEF Shrunk
  <2>2. /\ f.list # <<>> /\ Head(f.list) = Head(e.list) /\ f.row = e.row
        /\ f.exp[Head(e.list)].complete = e.exp[Head(e.list)].complete
    BY <1>4, <2>1 DEF Shrunk
  <2> QED BY <2>1, <2>2
<1> QED BY <1>1, <1>2, <1>3, <1>4 DEF Shrunk

LEMMA DelAndFreeFacts ==
  ASSUME NEW d, DevInv(d), NEW x \in Ids, now \in Nat
  PROVE  DevInv(DelAndFree(d, x)) /\ Shrunk(d, DelAndFree(d, x), {x})
<1> DEFINE f == DelExposure(d, x)
           m == [f.exp EXCEPT ![x] = None]
           e == WithExp(f, m)
<1>1. DelAndFree(d, x) = e
  BY SMT DEF DelAndFree, WithExp
<1> HIDE DEF f
<1>2. DevInv(f) /\ Shrunk(d, f, {x}) /\ f \in Devices /\ f.list \in Seq(Ids)
  <2>1. DevInv(f) /\ Shrunk(d, f, {x})
    BY DelExposureFacts DEF f
  <2>2. f \in Devices
    BY <2>1 DEF DevInv
  <2> QED BY <2>1, <2>2, DeviceFields
<1>3. m \in Memory /\ m[x] = None /\ \A y \in Ids : y # x => m[y] = f.exp[y]
  <2>1. f.exp \in Memory
    BY <1>2, DeviceFields
  <2> QED BY <2>1 DEF Memory
<1> HIDE DEF m
<1>4. /\ e \in Devices /\ e.exp = m /\ e.list = f.list /\ e.timer = f.timer /\ e.target = f.target
      /\ e.row = f.row /\ e.registered = f.registered
  BY <1>2, <1>3, WithExpFacts
<1> HIDE DEF e
<1>5. \A y \in ToSet(f.list) : y \in Ids /\ y # x /\ e.exp[y] = f.exp[y]
  <2>1. x \notin ToSet(f.list)
    BY <1>2 DEF Shrunk
  <2>2. \A y \in ToSet(f.list) : y \in Ids
    BY <1>2 DEF ToSet
  <2> QED BY <1>3, <1>4, <2>1, <2>2
<1>6. /\ \A i \in 1..Len(f.list) : e.exp[f.list[i]] = f.exp[f.list[i]]
      /\ f.list # <<>> => Head(f.list) \in ToSet(f.list)
      /\ DOMAIN f.list = 1..Len(f.list) /\ Len(f.list) \in Nat
  <2>1. DOMAIN f.list = 1..Len(f.list) /\ Len(f.list) \in Nat
    BY <1>2
  <2>2. f.list # <<>> => Head(f.list) = f.list[1] /\ 1 \in 1..Len(f.list)
    BY <1>2
  <2> QED BY <1>5, <2>1, <2>2 DEF ToSet
<1>7. Allocated(e)
  BY <1>2, <1>4, <1>6 DEF Allocated, DevInv
<1>8. Steady(e)
  <2>1. f.list # <<>> => e.exp[Head(f.list)] = f.exp[Head(f.list)]
    BY <1>5, <1>6
  <2>2. \A i \in 2..Len(f.list) : e.exp[f.list[i]] = f.exp[f.list[i]]
    BY <1>6
  <2>3. Steady(f)
    BY <1>2 DEF DevInv
  <2> QED BY <1>4, <2>1, <2>2, <2>3 DEF Steady
<1>9. Shrunk(d, e, {x})
  <2>1. \A y \in ToSet(e.list) : e.exp[y].client = d.exp[y].client
    BY <1>2, <1>4, <1>5 DEF Shrunk
  <2>2. ASSUME d.list # <<>>, Head(d.list) \notin {x}
        PROVE  /\ e.list # <<>> /\ Head(e.list) = Head(d.list) /\ e.row = d.row
               /\ e.exp[Head(d.list)].complete = d.exp[Head(d.list)].complete
    <3>1. /\ f.list # <<>> /\ Head(f.list) = Head(d.list) /\ f.row = d.row
          /\ f.exp[Head(d.list)].complete = d.exp[Head(d.list)].complete
      BY <1>2, <2>2 DEF Shrunk
    <3> QED BY <1>4, <1>5, <1>6, <3>1
  <2>3. /\ ToSet(e.list) = ToSet(d.list) \ {x} /\ e.registered = d.registered
        /\ \A a, b : Before(d.list, a, b) /\ a \notin {x} /\ b \notin {x} => Before(e.list, a, b)
    BY <1>2, <1>4 DEF Shrunk
  <2> QED BY <2>1, <2>2, <2>3 DEF Shrunk
<1> QED BY <1>1, <1>4, <1>7, <1>8, <1>9 DEF DevInv

-----------------------------------------------------------------------------
(* The calls                                                                *)

\* What abort_exposures does first: the download of the newest exposure x of
\* client c stops, and x is marked.
Stopped(d, x) ==
  [d EXCEPT !.row = IF d.list # <<>> /\ Head(d.list) = x THEN EndLoad ELSE @]
Marked(d, c, x) ==
  IF Stopped(d, x).exp[x].complete = 0
  THEN [Stopped(d, x) EXCEPT !.exp[x].complete = 2, !.woken = @ \cup Waiting(c)]
  ELSE Stopped(d, x)

LEMMA MarkedFacts ==
  ASSUME NEW d, DevInv(d), NEW c \in Clients, NEW x \in ToSet(d.list)
  PROVE  /\ DevInv(Marked(d, c, x))
         /\ \A e, S : Shrunk(Marked(d, c, x), e, S) /\ x \in S => Shrunk(d, e, S)
<1> DEFINE r == IF d.list # <<>> /\ Head(d.list) = x THEN EndLoad ELSE d.row
           n == IF d.exp[x].complete = 0 THEN [d.exp[x] EXCEPT !.complete = 2] ELSE d.exp[x]
           m == [d.exp EXCEPT ![x] = n]
           w == d.woken \cup Waiting(c)
           e == Stopped(d, x)
           f == Marked(d, c, x)
<1>0. d \in Devices /\ Allocated(d) /\ Steady(d) /\ x \in Ids /\ d.exp[x] \in Exposures /\ d.list \in Seq(Ids)
  <2>1. d \in Devices /\ Allocated(d) /\ Steady(d)
    BY DEF DevInv
  <2>2. x \in Ids /\ d.exp[x] # None
    BY <2>1, ExposureTypes DEF ToSet, Allocated
  <2> QED BY <2>1, <2>2, ExposureTypes, DeviceFields
<1>1. /\ n \in Exposures /\ n # None /\ n.client = d.exp[x].client /\ n.end = d.exp[x].end
      /\ (n.complete = d.exp[x].complete \/ n.complete = 2)
  BY <1>0, NoneAssumption DEF Exposures
<1>2. r \in RowStates /\ w \in SUBSET Clients
  <2>1. d.row \in RowStates /\ d.woken \in SUBSET Clients
    BY <1>0, DeviceFields
  <2>2. EndLoad \in RowStates
    BY DEF RowStates
  <2>3. Waiting(c) \subseteq Clients
    BY DEF Waiting
  <2> QED BY <2>1, <2>2, <2>3
<1>3. e \in Devices /\ e.row = r /\ e.exp = d.exp /\ e.woken = d.woken /\ e.list = d.list
      /\ e.timer = d.timer /\ e.target = d.target /\ e.registered = d.registered
  <2>1. e = WithRow(d, r)
    BY SMT DEF WithRow, Stopped
  <2> HIDE DEF e, r
  <2> QED BY <1>0, <1>2, <2>1, WithRowFacts
<1>4. m \in Memory /\ m[x] = n /\ \A y \in Ids : y # x => m[y] = d.exp[y]
  <2> HIDE DEF n
  <2> QED BY <1>0, <1>1, DeviceFields, MemoryWith
<1>5. /\ f \in Devices /\ f.exp = m /\ f.list = d.list /\ f.row = r
      /\ f.timer = d.timer /\ f.target = d.target /\ f.registered = d.registered
  <2>1. CASE d.exp[x].complete = 0
    <3>1. f = [e EXCEPT !.exp[x].complete = 2, !.woken = @ \cup Waiting(c)]
      <4> HIDE DEF e
      <4> QED BY <1>3, <2>1 DEF Marked, e
    <3> HIDE DEF e
    <3>2. [e EXCEPT !.exp[x].complete = 2, !.woken = @ \cup Waiting(c)]
            = WithWoken(WithExp(e, [e.exp EXCEPT ![x] = [e.exp[x] EXCEPT !.complete = 2]]),
                        e.woken \cup Waiting(c))
      BY SMT DEF WithWoken, WithExp
    <3>3. f = WithWoken(WithExp(e, m), w)
      BY <1>3, <2>1, <3>1, <3>2
    <3> HIDE DEF r, m, w, f
    <3> QED BY <1>2, <1>3, <1>4, <3>3, WithExpFacts, WithWokenFacts
  <2>2. CASE d.exp[x].complete # 0
    <3>1. f = e
      <4> HIDE DEF e
      <4> QED BY <1>3, <2>2 DEF Marked, e
    <3>2. m = d.exp
      <4>1. d.exp \in Memory
        BY <1>0, DeviceFields
      <4> QED BY <1>0, <2>2, <4>1 DEF Memory
    <3> HIDE DEF e, f, m, r
    <3> QED BY <1>3, <3>1, <3>2
  <2> QED BY <2>1, <2>2
<1> HIDE DEF f, n
<1> HIDE DEF m
<1>6. \A y \in Ids : d.exp[y] # None =>
        /\ f.exp[y] # None /\ f.exp[y].client = d.exp[y].client /\ f.exp[y].end = d.exp[y].end
        /\ (f.exp[y].complete = d.exp[y].complete \/ f.exp[y].complete = 2)
        /\ y # x => f.exp[y] = d.exp[y]
  BY <1>1, <1>4, <1>5
<1>7. /\ DOMAIN d.list = 1..Len(d.list) /\ Len(d.list) \in Nat
      /\ \A i \in 1..Len(d.list) : d.list[i] \in Ids /\ d.exp[d.list[i]] # None
      /\ d.list # <<>> => Head(d.list) \in Ids /\ d.exp[Head(d.list)] # None
  <2>1. /\ DOMAIN d.list = 1..Len(d.list) /\ Len(d.list) \in Nat
        /\ \A i \in 1..Len(d.list) : d.list[i] \in Ids /\ d.exp[d.list[i]] # None
    BY <1>0, ExposureTypes DEF Allocated
  <2>2. d.list # <<>> => 1 \in 1..Len(d.list) /\ Head(d.list) = d.list[1]
    BY <1>0
  <2> QED BY <2>1, <2>2
<1>8. Allocated(f)
  BY <1>0, <1>5, <1>6, <1>7 DEF Allocated
<1>9. Steady(f)
  <2>1. \A i \in 2..Len(d.list) : f.exp[d.list[i]].complete # 1
    <3>1. \A i \in 2..Len(d.list) : i \in 1..Len(d.list)
      OBVIOUS
    <3> QED BY <1>0, <1>6, <1>7, <3>1 DEF Steady
  <2>2. d.list # <<>> =>
          /\ f.exp[Head(d.list)].end = d.exp[Head(d.list)].end
          /\ (f.exp[Head(d.list)].complete = d.exp[Head(d.list)].complete \/ f.exp[Head(d.list)].complete = 2)
    BY <1>6, <1>7
  <2> QED BY <1>0, <1>5, <2>1, <2>2 DEF Steady
<1>10. ASSUME NEW g, NEW S, Shrunk(f, g, S), x \in S PROVE Shrunk(d, g, S)
  <2>1. /\ ToSet(g.list) = ToSet(d.list) \ S /\ g.registered = d.registered
        /\ \A a, b : Before(d.list, a, b) /\ a \notin S /\ b \notin S => Before(g.list, a, b)
    BY <1>5, <1>10 DEF Shrunk
  <2>2. \A y \in ToSet(g.list) : g.exp[y].client = d.exp[y].client
    <3>1. \A y \in ToSet(g.list) : y \in Ids /\ d.exp[y] # None
      BY <1>7, <2>1 DEF ToSet
    <3> QED BY <1>6, <1>10, <3>1 DEF Shrunk
  <2>3. ASSUME d.list # <<>>, Head(d.list) \notin S
        PROVE  /\ g.list # <<>> /\ Head(g.list) = Head(d.list) /\ g.row = d.row
               /\ g.exp[Head(d.list)].complete = d.exp[Head(d.list)].complete
    <3>1. Head(d.list) # x
      BY <1>10, <2>3
    <3>2. f.exp[Head(d.list)] = d.exp[Head(d.list)] /\ f.row = d.row
      BY <1>5, <1>6, <1>7, <2>3, <3>1
    <3> QED BY <1>5, <1>10, <2>3, <3>2 DEF Shrunk
  <2> QED BY <2>1, <2>2, <2>3 DEF Shrunk
<1> QED BY <1>5, <1>8, <1>9, <1>10 DEF DevInv, f

States == [d : Devices, c : ClientStates]

\* The loop of abort_exposures.
IsRest(f, d, mine) ==
  f = [k \in 0..Len(mine) |-> IF k = 0 THEN d ELSE DelAndFree(f[k-1], mine[k])]

LEMMA RestFacts ==
  ASSUME NEW d, DevInv(d), NEW mine \in Seq(Ids), now \in Nat,
         NEW rest, rest = CHOOSE f : IsRest(f, d, mine)
  PROVE  DevInv(rest[Len(mine)]) /\ Shrunk(d, rest[Len(mine)], ToSet(mine))
<1> DEFINE n == Len(mine)
           D == {e \in Devices : DevInv(e)}
           g == [k \in 1..n |-> [e \in D |-> DelAndFree(e, mine[k])]]
<1>0. n \in Nat /\ DOMAIN mine = 1..n /\ \A k \in 1..n : mine[k] \in Ids
  OBVIOUS
<1>1. d \in D /\ \A e : e \in D <=> DevInv(e)
  BY DEF DevInv
<1> HIDE DEF D
<1>2. ASSUME NEW k \in 1..n, NEW e \in D
      PROVE  DelAndFree(e, mine[k]) \in D /\ Shrunk(e, DelAndFree(e, mine[k]), {mine[k]})
  BY <1>0, <1>1, DelAndFreeFacts
<1>3. g \in Bodies(D, n) /\ \A k \in 1..n : \A e \in D : g[k][e] = DelAndFree(e, mine[k])
  BY <1>2 DEF Bodies
<1> HIDE DEF g, n
<1>4. PICK f : f \in Runs(D, n, d, g)
  BY <1>0, <1>1, <1>3, Rounds
<1>5. IsRest(f, d, mine)
  <2>1. f \in [0..n -> D] /\ f[0] = d /\ \A k \in 1..n : f[k] = g[k][f[k - 1]]
    BY <1>4 DEF Runs
  <2>2. ASSUME NEW k \in 0..n PROVE f[k] = IF k = 0 THEN d ELSE DelAndFree(f[k-1], mine[k])
    <3>1. CASE k = 0
      BY <2>1, <3>1
    <3>2. CASE k # 0
      <4>1. k \in 1..n /\ k - 1 \in 0..n
        BY <1>0, <3>2
      <4>2. f[k - 1] \in D
        BY <2>1, <4>1
      <4> QED BY <1>3, <2>1, <3>2, <4>1, <4>2
    <3> QED BY <3>1, <3>2
  <2>3. f = [k \in 0..n |-> f[k]]
    BY <2>1
  <2> QED BY <2>2, <2>3, Zenon DEF IsRest, n
<1>6. IsRest(rest, d, mine)
  BY <1>5, Zenon
<1>7. /\ rest[0] = d
      /\ \A k \in 1..n : rest[k] = DelAndFree(rest[k-1], mine[k])
  <2>1. \A k \in 0..n : rest[k] = IF k = 0 THEN d ELSE DelAndFree(rest[k-1], mine[k])
    BY <1>6 DEF IsRest, n
  <2>2. 0 \in 0..n /\ \A k \in 1..n : k \in 0..n /\ k # 0
    BY <1>0
  <2> QED BY <2>1, <2>2
<1> DEFINE gone(k) == {mine[j] : j \in 1..k}
           P(k) == rest[k] \in D /\ Shrunk(d, rest[k], gone(k))
           T == {k \in 0..n : ~P(k)}
<1>8. P(0)
  <2>1. gone(0) = {}
    OBVIOUS
  <2>2. Shrunk(d, d, {})
    BY DEF Shrunk
  <2> QED BY <1>1, <1>7, <2>1, <2>2
<1>9. ASSUME NEW k \in 1..n, P(k - 1) PROVE P(k)
  <2>1. rest[k - 1] \in D /\ rest[k] = DelAndFree(rest[k - 1], mine[k])
    BY <1>7, <1>9
  <2>2. rest[k] \in D /\ Shrunk(rest[k - 1], rest[k], {mine[k]})
    BY <1>2, <2>1
  <2>3. gone(k) = gone(k - 1) \cup {mine[k]}
    <3>1. \A j : j \in 1..k <=> j \in 1..k - 1 \/ j = k
      OBVIOUS
    <3> QED BY <3>1
  <2> HIDE DEF gone
  <2> QED BY <1>9, <2>2, <2>3, ShrunkTransitive
<1> HIDE DEF P
<1>10. T = {}
  <2>1. T \subseteq 0..n /\ 0 \notin T
    BY <1>8
  <2>2. ASSUME NEW k \in 1..n, k \in T PROVE k - 1 \in T
    <3>1. k - 1 \in 0..n
      BY <1>0
    <3> QED BY <1>9, <2>2, <3>1
  <2> HIDE DEF T
  <2> QED BY <1>0, <2>1, <2>2, Induction
<1>11. P(n)
  BY <1>0, <1>10
<1>12. gone(n) = ToSet(mine)
  BY <1>0 DEF ToSet
<1> HIDE DEF gone
<1> QED BY <1>1, <1>11, <1>12 DEF P, n

LEMMA ClientFields ==
  ASSUME NEW b \in ClientStates
  PROVE  /\ b.opened \in BOOLEAN /\ b.mine \in Seq(Ids) /\ b.inbuf \in Seq(Messages)
         /\ b.out \in 0..OutCap + 1 /\ b.rd \in Doing
BY SMT DEF ClientStates

\* A client with one field set.
SetOpened(b, v) == [b EXCEPT !.opened = v]
SetMine(b, v) == [b EXCEPT !.mine = v]
SetInbuf(b, v) == [b EXCEPT !.inbuf = v]
SetOut(b, v) == [b EXCEPT !.out = v]
SetRd(b, v) == [b EXCEPT !.rd = v]

LEMMA SetOpenedFacts ==
  ASSUME NEW b \in ClientStates, NEW v \in BOOLEAN
  PROVE  LET e == SetOpened(b, v)
         IN /\ e \in ClientStates /\ e.opened = v
            /\ e.mine = b.mine /\ e.inbuf = b.inbuf /\ e.out = b.out /\ e.rd = b.rd
BY SMT DEF ClientStates, SetOpened

LEMMA SetMineFacts ==
  ASSUME NEW b \in ClientStates, NEW v \in Seq(Ids)
  PROVE  LET e == SetMine(b, v)
         IN /\ e \in ClientStates /\ e.mine = v
            /\ e.opened = b.opened /\ e.inbuf = b.inbuf /\ e.out = b.out /\ e.rd = b.rd
BY SMT DEF ClientStates, SetMine

LEMMA SetInbufFacts ==
  ASSUME NEW b \in ClientStates, NEW v \in Seq(Messages)
  PROVE  LET e == SetInbuf(b, v)
         IN /\ e \in ClientStates /\ e.inbuf = v
            /\ e.opened = b.opened /\ e.mine = b.mine /\ e.out = b.out /\ e.rd = b.rd
BY SMT DEF ClientStates, SetInbuf

LEMMA SetOutFacts ==
  ASSUME NEW b \in ClientStates, NEW v \in 0..OutCap + 1
  PROVE  LET e == SetOut(b, v)
         IN /\ e \in ClientStates /\ e.out = v
            /\ e.opened = b.opened /\ e.mine = b.mine /\ e.inbuf = b.inbuf /\ e.rd = b.rd
BY SMT DEF ClientStates, SetOut

LEMMA SetRdFacts ==
  ASSUME NEW b \in ClientStates, NEW v \in Doing
  PROVE  LET e == SetRd(b, v)
         IN /\ e \in ClientStates /\ e.rd = v
            /\ e.opened = b.opened /\ e.mine = b.mine /\ e.inbuf = b.inbuf /\ e.out = b.out
BY SMT DEF ClientStates, SetRd

\* abort_exposures takes the client's exposures off the queue, and no other.
LEMMA AbortFacts ==
  ASSUME NEW s \in States, NEW c \in Clients, DevInv(s.d), ToSet(s.c.mine) \subseteq ToSet(s.d.list),
         now \in Nat
  PROVE  LET t == AbortExposures(s, c)
         IN /\ t \in States /\ DevInv(t.d) /\ Shrunk(s.d, t.d, ToSet(s.c.mine))
            /\ t.c.mine = <<>> /\ t.c.inbuf = s.c.inbuf /\ t.c.opened = s.c.opened /\ t.c.out = 0
            /\ t.c.rd \in Sleeping => t.c.rd = s.c.rd /\ t.d = s.d
<1> DEFINE t == AbortExposures(s, c)
           x == Head(s.c.mine)
           mark == Marked(s.d, c, x)
           rest == CHOOSE f : IsRest(f, mark, s.c.mine)
<1>0. s.d \in Devices /\ s.c \in ClientStates /\ OutCap \in Nat /\ s.c.mine \in Seq(Ids)
  <2>1. s.d \in Devices /\ s.c \in ClientStates
    BY DEF States
  <2> QED BY <2>1, CcdAssumption, ClientFields, SMT
<1>1. CASE s.c.mine = <<>>
  <2>1. t = [s EXCEPT !.c.out = 0]
    BY <1>1, SMT DEF AbortExposures
  <2>2. t.d = s.d /\ t.c = [s.c EXCEPT !.out = 0] /\ (t.c \in ClientStates => t \in States)
    BY <1>0, <2>1, SMT DEF States
  <2> DEFINE b == [s.c EXCEPT !.out = 0]
  <2>3. /\ b \in ClientStates /\ b.mine = s.c.mine /\ b.inbuf = s.c.inbuf /\ b.opened = s.c.opened
        /\ b.rd = s.c.rd /\ b.out = 0
    BY <1>0, SMT DEF ClientStates
  <2>4. Shrunk(s.d, s.d, ToSet(s.c.mine))
    <3>1. ToSet(s.c.mine) = {}
      BY <1>1 DEF ToSet
    <3> QED BY <3>1 DEF Shrunk
  <2> HIDE DEF t, b
  <2>5. t.d = s.d /\ t.c = b
    BY <2>2 DEF b
  <2> QED BY <1>1, <2>2, <2>3, <2>4, <2>5 DEF t
<1>2. CASE s.c.mine # <<>>
  <2> DEFINE r == CutOff(s.c.rd)
             b == [s.c EXCEPT !.mine = <<>>, !.out = 0, !.rd = CutOff(@)]
             e == rest[Len(s.c.mine)]
  <2>1. t = [d |-> e, c |-> b]
    BY <1>2, SMT DEF AbortExposures, Marked, Stopped, IsRest
  <2> HIDE DEF t, mark, rest
  <2>2. /\ b \in ClientStates /\ b.mine = <<>> /\ b.inbuf = s.c.inbuf /\ b.opened = s.c.opened
        /\ b.out = 0 /\ b.rd \notin Sleeping
    <3>0. r \in Doing /\ r \notin Sleeping
      BY <1>0, ClientFields DEF CutOff, Doing, Sleeping
    <3>1. b = SetRd(SetOut(SetMine(s.c, <<>>), 0), r)
      BY SMT DEF SetOut, SetMine, SetRd
    <3>2. <<>> \in Seq(Ids) /\ 0 \in 0..OutCap + 1
      BY <1>0
    <3> DEFINE h == SetMine(s.c, <<>>)
               g == SetOut(h, 0)
    <3>3. h \in ClientStates /\ h.mine = <<>> /\ h.inbuf = s.c.inbuf /\ h.opened = s.c.opened
      BY <1>0, <3>2, SetMineFacts
    <3> HIDE DEF b, h, r
    <3>4. /\ g \in ClientStates /\ g.mine = <<>> /\ g.inbuf = s.c.inbuf /\ g.opened = s.c.opened
          /\ g.out = 0
      BY <3>2, <3>3, SetOutFacts
    <3> HIDE DEF g
    <3>5. b = SetRd(g, r)
      BY <3>1 DEF h, g
    <3> QED BY <3>0, <3>4, <3>5, SetRdFacts
  <2>3. x \in ToSet(s.c.mine)
    <3>1. 1 \in DOMAIN s.c.mine /\ x = s.c.mine[1]
      BY <1>0, <1>2
    <3> QED BY <3>1 DEF ToSet
  <2>4. /\ DevInv(mark)
        /\ \A f, S : Shrunk(mark, f, S) /\ x \in S => Shrunk(s.d, f, S)
    <3>1. x \in ToSet(s.d.list)
      BY <2>3
    <3> QED BY <3>1, MarkedFacts DEF mark
  <2>5. DevInv(e) /\ Shrunk(mark, e, ToSet(s.c.mine))
    BY <1>0, <2>4, RestFacts DEF rest
  <2>6. Shrunk(s.d, e, ToSet(s.c.mine)) /\ e \in Devices
    BY <2>3, <2>4, <2>5 DEF DevInv
  <2> HIDE DEF e, b
  <2>7. t.d = e /\ t.c = b /\ t \in States
    BY <2>1, <2>2, <2>6 DEF States
  <2> QED BY <2>2, <2>5, <2>6, <2>7 DEF t
<1> QED BY <1>1, <1>2

\* Client c's new exposure x is on the queue, after those of c; a complete head
\* stays where it is.
Grown(d, e, x, c) ==
  /\ ToSet(e.list) = ToSet(d.list) \cup {x} /\ x \notin ToSet(d.list) /\ e.registered = d.registered
  /\ \A a, b : Before(d.list, a, b) => Before(e.list, a, b)
  /\ \A y \in ToSet(d.list) :
       e.exp[y].client = d.exp[y].client /\ e.exp[y].complete = d.exp[y].complete
  /\ e.exp[x].client = c /\ e.exp[x].complete = 0
  /\ \A a \in ToSet(d.list) : d.exp[a].client = c => Before(e.list, a, x)
  /\ d.list # <<>> /\ d.exp[Head(d.list)].complete = 1
       => /\ e.list # <<>> /\ Head(e.list) = Head(d.list) /\ e.row = d.row
          /\ e.exp[Head(d.list)].complete = 1

\* Memory that is not on the queue is filled in, or filled in anew.
LEMMA AllocateFacts ==
  ASSUME NEW d, DevInv(d), NEW x \in Ids, x \notin ToSet(d.list), NEW n \in Exposures
  PROVE  LET e == WithExp(d, [d.exp EXCEPT ![x] = n])
         IN /\ DevInv(e) /\ e \in Devices /\ e.exp[x] = n /\ e.list = d.list /\ e.row = d.row
            /\ e.timer = d.timer /\ e.target = d.target /\ e.registered = d.registered
            /\ \A y \in Ids : y # x => e.exp[y] = d.exp[y]
<1> DEFINE m == [d.exp EXCEPT ![x] = n]
           e == WithExp(d, m)
<1>0. d \in Devices /\ Allocated(d) /\ Steady(d) /\ d.list \in Seq(Ids) /\ d.exp \in Memory
  <2>1. d \in Devices /\ Allocated(d) /\ Steady(d)
    BY DEF DevInv
  <2> QED BY <2>1, DeviceFields
<1>1. m \in Memory /\ m[x] = n /\ \A y \in Ids : y # x => m[y] = d.exp[y]
  BY <1>0, MemoryWith
<1> HIDE DEF m
<1>2. /\ e \in Devices /\ e.exp = m /\ e.list = d.list /\ e.row = d.row
      /\ e.timer = d.timer /\ e.target = d.target /\ e.registered = d.registered
  BY <1>0, <1>1, WithExpFacts
<1> HIDE DEF e
<1>3. \A i \in 1..Len(d.list) : d.list[i] \in Ids /\ d.list[i] # x /\ e.exp[d.list[i]] = d.exp[d.list[i]]
  BY <1>0, <1>1, <1>2 DEF ToSet
<1>4. Allocated(e)
  <2>1. DOMAIN d.list = 1..Len(d.list)
    BY <1>0
  <2> QED BY <1>0, <1>2, <1>3, <2>1 DEF Allocated
<1>5. Steady(e)
  <2>1. d.list # <<>> => 1 \in 1..Len(d.list) /\ Head(d.list) = d.list[1]
    BY <1>0
  <2>2. d.list # <<>> => e.exp[Head(d.list)] = d.exp[Head(d.list)]
    BY <1>3, <2>1
  <2>3. \A i \in 2..Len(d.list) : e.exp[d.list[i]] = d.exp[d.list[i]]
    BY <1>3
  <2> QED BY <1>0, <1>2, <2>2, <2>3 DEF Steady
<1>6. DevInv(e)
  BY <1>2, <1>4, <1>5 DEF DevInv
<1> QED BY <1>1, <1>2, <1>6 DEF e, m

\* An exposure is put at the end of a queue that is not empty.
LEMMA AppendFacts ==
  ASSUME NEW d, DevInv(d), NEW x \in Ids, x \notin ToSet(d.list), d.list # <<>>,
         NEW n \in Exposures, n.complete = 0
  PROVE  LET e == [d EXCEPT !.exp[x] = n, !.list = Append(@, x)]
         IN DevInv(e) /\ Grown(d, e, x, n.client)
<1> DEFINE f == WithExp(d, [d.exp EXCEPT ![x] = n])
           l == Append(d.list, x)
           e == WithList(f, l)
<1>0. d \in Devices /\ Allocated(d) /\ d.list \in Seq(Ids) /\ DOMAIN d.list = 1..Len(d.list) /\ Len(d.list) \in Nat
  <2>1. d \in Devices /\ Allocated(d)
    BY DEF DevInv
  <2> QED BY <2>1, DeviceFields
<1>1. [d EXCEPT !.exp[x] = n, !.list = Append(@, x)] = e
  BY SMT DEF WithList, WithExp
<1>2. /\ DevInv(f) /\ f \in Devices /\ f.exp[x] = n /\ f.list = d.list /\ f.row = d.row
      /\ f.timer = d.timer /\ f.target = d.target /\ f.registered = d.registered
      /\ \A y \in Ids : y # x => f.exp[y] = d.exp[y]
  BY AllocateFacts
<1> HIDE DEF f
<1>3. /\ l \in Seq(Ids) /\ With(d.list, l, x) /\ Head(l) = Head(d.list)
      /\ \A a \in ToSet(d.list) : Before(l, a, x)
      /\ Len(l) = Len(d.list) + 1 /\ l[Len(d.list) + 1] = x /\ \A k \in 1..Len(d.list) : l[k] = d.list[k]
  BY <1>0, AppendWith DEF Allocated
<1> HIDE DEF l
<1>4. /\ e \in Devices /\ e.list = l /\ e.exp = f.exp /\ e.row = d.row
      /\ e.timer = d.timer /\ e.target = d.target /\ e.registered = d.registered
  BY <1>2, <1>3, WithListFacts
<1> HIDE DEF e
<1>5. \A k \in 1..Len(l) : k # Len(l) => l[k] = d.list[k] /\ k \in 1..Len(d.list)
  BY <1>0, <1>3
<1>6. n # None
  BY NoneAssumption
<1>7. Allocated(e)
  <2>1. DOMAIN l = 1..Len(l)
    BY <1>3
  <2>2. \A k \in 1..Len(d.list) : f.exp[d.list[k]] # None
    BY <1>0, <1>2 DEF DevInv, Allocated
  <2>3. \A k \in 1..Len(l) : f.exp[l[k]] # None
    BY <1>0, <1>2, <1>3, <1>5, <1>6, <2>2
  <2> QED BY <1>3, <1>4, <2>1, <2>3 DEF Allocated, With
<1>8. Steady(e)
  <2>1. Steady(f)
    BY <1>2 DEF DevInv
  <2>2. ASSUME NEW k \in 2..Len(l) PROVE e.exp[l[k]].complete # 1
    <3>1. CASE k = Len(l)
      BY <1>0, <1>2, <1>3, <1>4, <3>1
    <3>2. CASE k # Len(l)
      <4>1. k \in 2..Len(d.list) /\ l[k] = d.list[k]
        BY <1>0, <1>3, <3>2
      <4> QED BY <1>2, <1>4, <2>1, <4>1 DEF Steady
    <3> QED BY <3>1, <3>2
  <2> QED BY <1>2, <1>3, <1>4, <2>1, <2>2 DEF Steady
<1>9. Grown(d, e, x, n.client)
  <2>1. \A y \in ToSet(d.list) : e.exp[y] = d.exp[y]
    <3>1. \A y \in ToSet(d.list) : y \in Ids /\ y # x
      BY <1>0 DEF ToSet
    <3> QED BY <1>2, <1>4, <3>1
  <2>2. Head(d.list) \in ToSet(d.list)
    <3>1. 1 \in DOMAIN d.list /\ Head(d.list) = d.list[1]
      BY <1>0
    <3> QED BY <3>1 DEF ToSet
  <2> QED BY <1>2, <1>3, <1>4, <2>1, <2>2 DEF Grown, With
<1>10. DevInv(e)
  BY <1>4, <1>7, <1>8 DEF DevInv
<1> QED BY <1>1, <1>9, <1>10

FieldsDiffer == \A b, c \in Clients : FieldsOf(b) \cap FieldsOf(c) = {} => b # c

LEMMA FieldsLemma == FieldsDiffer
<1>1. ASSUME NEW c \in Clients PROVE FieldsOf(c) # {}
  <2>1. c \in {0, 1, 2}
    BY CcdAssumption, SMT
  <2> QED BY <2>1 DEF FieldsOf
<1> QED BY <1>1 DEF FieldsDiffer

LEMMA QueueFacts ==
  ASSUME NEW d, DevInv(d), NEW x \in Ids, x \notin ToSet(d.list), d.exp[x] # None,
         d.exp[x].complete = 0, NEW nowipe, now \in Nat
  PROVE  DevInv(Queue(d, x, nowipe)) /\ Grown(d, Queue(d, x, nowipe), x, d.exp[x].client)
<1> DEFINE q == Queue(d, x, nowipe)
           e == d.exp[x]
           c == d.exp[x].client
           h == d.exp[Head(d.list)]
           t == now + e.msec
           overlap == [e EXCEPT !.begin = now, !.end = t]
           last == d.exp[Last(d.list)]
           a0 == last.end
           t0 == a0 + e.msec
           after == [e EXCEPT !.begin = a0, !.end = t0]
           both == nowipe /\ FieldsOf(e.client) \cap FieldsOf(h.client) = {} /\ Len(d.list) = 1
<1>0. /\ d \in Devices /\ Allocated(d) /\ Steady(d) /\ d.list \in Seq(Ids) /\ DOMAIN d.list = 1..Len(d.list)
      /\ Len(d.list) \in Nat /\ e \in Exposures /\ e.msec \in Nat /\ c \in Clients
  <2>1. d \in Devices /\ Allocated(d) /\ Steady(d)
    BY DEF DevInv
  <2> QED BY <2>1, DeviceFields, ExposureTypes
<1>1. CASE d.list = <<>>
  <2> DEFINE l == <<x>>
             f == WithList(d, l)
  <2>1. q = StartExposure(f, x)
    <3>1. [d EXCEPT !.list = <<x>>] = f
      BY SMT DEF WithList
    <3> QED BY <1>1, <3>1, SMT DEF Queue
  <2>2. /\ l \in Seq(Ids) /\ Len(l) = 1 /\ l[1] = x /\ l # <<>> /\ Head(l) = x /\ DOMAIN l = {1}
        /\ ToSet(d.list) = {} /\ 2..1 = {}
    BY <1>1 DEF ToSet
  <2>3. IsInjective(l) /\ ToSet(l) = {x}
    BY <2>2 DEF IsInjective, ToSet
  <2> HIDE DEF l, q
  <2>4. f \in Devices /\ f.list = l /\ f.exp = d.exp /\ f.row = d.row /\ f.registered = d.registered
    BY <1>0, <2>2, WithListFacts
  <2> HIDE DEF f
  <2>5. q \in Devices /\ Retimed(f, q) /\ q.timer = q.exp[x].end /\ q.target = x
    BY <2>1, <2>4, StartExposureFacts
  <2>6. q.registered = d.registered /\ q.list = l /\ q.exp[x] # None /\ q.exp[x].complete = 0 /\ q.exp[x].client = c
    BY <2>4, <2>5 DEF Retimed
  <2>7. Allocated(q)
    BY <2>2, <2>3, <2>6 DEF Allocated
  <2>8. Steady(q)
    <3>1. Head(q.list) = x /\ \A i \in 2..Len(q.list) : FALSE
      BY <2>2, <2>6
    <3> QED BY <2>5, <2>6, <3>1 DEF Steady
  <2>9. Grown(d, q, x, c)
    <3>1. \A a, b : ~Before(d.list, a, b)
      BY <1>1 DEF Before
    <3> QED BY <1>1, <2>2, <2>3, <2>6, <3>1 DEF Grown
  <2> QED BY <2>5, <2>7, <2>8, <2>9 DEF DevInv, q
<1>2. CASE d.list # <<>> /\ both /\ now + e.msec < h.end
  <2> DEFINE f == WithExp(d, [d.exp EXCEPT ![x] = overlap])
             l == <<x>> \o d.list
             g == WithTimer(WithList(f, l), None)
  <2>1. q = AddTimer(g, x)
    <3>1. [d EXCEPT !.exp[x] = overlap, !.list = <<x>> \o @, !.timer = None] = g
      <4> HIDE DEF overlap
      <4> QED BY SMT DEF WithExp, WithList, WithTimer
    <3>2. q = AddTimer([d EXCEPT !.exp[x] = overlap, !.list = <<x>> \o @, !.timer = None], x)
      BY <1>2, SMT DEF Queue
    <3> HIDE DEF q, g
    <3> QED BY <3>1, <3>2
  <2>2. overlap \in Exposures /\ overlap.client = c /\ overlap.complete = 0 /\ overlap # None
    <3>1. t \in Nat
      BY <1>0
    <3> HIDE DEF t
    <3> QED BY <1>0, <3>1, NoneAssumption DEF Exposures
  <2> HIDE DEF overlap, q
  <2>3. /\ f \in Devices /\ f.exp[x] = overlap /\ f.list = d.list /\ f.registered = d.registered
        /\ \A y \in Ids : y # x => f.exp[y] = d.exp[y]
    BY <2>2, AllocateFacts
  <2> HIDE DEF f
  <2>4. /\ l \in Seq(Ids) /\ With(d.list, l, x) /\ Head(l) = x
        /\ Len(l) = Len(d.list) + 1 /\ l[1] = x /\ \A k \in 1..Len(d.list) : l[k + 1] = d.list[k]
    BY <1>0, ConsWith DEF Allocated
  <2> HIDE DEF l
  <2>5. g \in Devices /\ g.exp = f.exp /\ g.list = l /\ g.registered = d.registered
    <3>1. None \in Expiries
      BY DEF Expiries
    <3> QED BY <2>3, <2>4, <3>1, WithListFacts, WithTimerFacts
  <2> HIDE DEF g
  <2>6. q.registered = d.registered /\ q \in Devices /\ q.list = l /\ q.exp = f.exp /\ q.timer = q.exp[x].end /\ q.target = x
    BY <2>1, <2>2, <2>3, <2>5, AddTimerFacts DEF Retimed
  <2>7. /\ 1 \in 1..Len(d.list) /\ Head(d.list) = d.list[1] /\ Len(d.list) = 1 /\ Len(l) = 2
        /\ l[2] = Head(d.list) /\ Head(d.list) \in Ids /\ h # None /\ h \in Exposures
        /\ h.client \in Clients /\ h.end \in Nat /\ ToSet(d.list) = {Head(d.list)} /\ Head(d.list) # x
    <3>1. Len(d.list) = 1 /\ 1 \in 1..Len(d.list) /\ Head(d.list) = d.list[1]
      BY <1>0, <1>2
    <3>2. Head(d.list) \in Ids /\ h # None
      BY <1>0, <3>1 DEF Allocated
    <3>3. h \in Exposures /\ h.client \in Clients /\ h.end \in Nat
      BY <1>0, <3>2, ExposureTypes
    <3>4. ToSet(d.list) = {Head(d.list)}
      BY <1>0, <3>1 DEF ToSet
    <3>5. Len(l) = 2 /\ l[2] = Head(d.list)
      <4>1. l[1 + 1] = d.list[1]
        BY <2>4, <3>1
      <4> QED BY <2>4, <3>1, <4>1
    <3> QED BY <3>1, <3>2, <3>3, <3>4, <3>5
  <2>8. h.complete # 1 /\ h.client # c
    <3>1. h.complete # 1
      <4>1. ~(h.end <= now)
        BY <1>0, <1>2, <2>7
      <4> QED BY <1>0, <1>2, <4>1 DEF Steady
    <3>2. FieldsOf(c) \cap FieldsOf(h.client) = {}
      BY <1>2
    <3> QED BY <1>0, <2>7, <3>1, <3>2, FieldsLemma DEF FieldsDiffer
  <2>9. q.exp[Head(d.list)] = h /\ q.exp[x] = overlap
    BY <2>3, <2>6, <2>7
  <2>10. Allocated(q)
    <3>1. DOMAIN l = {1, 2}
      BY <2>4, <2>7
    <3> QED BY <2>2, <2>4, <2>6, <2>7, <2>9, <3>1 DEF Allocated, With
  <2>11. Steady(q)
    <3>1. \A i \in 2..Len(l) : i = 2
      BY <2>7
    <3>2. q.exp[Head(q.list)] = overlap
      BY <2>4, <2>6, <2>9
    <3>3. Head(q.list) = x
      BY <2>4, <2>6
    <3>4. \A i \in 2..Len(q.list) : q.exp[q.list[i]].complete # 1
      BY <2>6, <2>7, <2>8, <2>9, <3>1
    <3> QED BY <2>2, <2>6, <3>2, <3>3, <3>4 DEF Steady
  <2>12. Grown(d, q, x, c)
    BY <2>2, <2>4, <2>6, <2>7, <2>8, <2>9 DEF Grown, With
  <2> QED BY <2>6, <2>10, <2>11, <2>12 DEF DevInv, q
<1>3. CASE d.list # <<>> /\ both /\ ~(now + e.msec < h.end)
  <2> DEFINE n == [overlap EXCEPT !.begun = TRUE]
  <2>1. n \in Exposures /\ n.client = c /\ n.complete = 0
    <3>1. t \in Nat
      BY <1>0
    <3> HIDE DEF t
    <3> QED BY <1>0, <3>1 DEF Exposures
  <2>2. q = [d EXCEPT !.exp[x] = n, !.list = Append(@, x)]
    BY <1>3, SMT DEF Queue
  <2> HIDE DEF n, q
  <2>3. DevInv(q) /\ Grown(d, q, x, c)
    BY <1>3, <2>1, <2>2, AppendFacts
  <2> QED BY <2>3 DEF q
<1>4. CASE d.list # <<>> /\ ~both
  <2>1. last.end \in Nat
    <3>1. Len(d.list) \in 1..Len(d.list)
      BY <1>0, <1>4
    <3>2. Last(d.list) \in Ids /\ last # None
      BY <1>0, <3>1 DEF Allocated, Last
    <3> QED BY <1>0, <3>2, ExposureTypes
  <2>2. q = [d EXCEPT !.exp[x] = after, !.list = Append(@, x)]
    BY <1>4, SMT DEF Queue
  <2> HIDE DEF last, q
  <2>3. after \in Exposures /\ after.client = c /\ after.complete = 0
    <3>1. a0 \in Nat /\ t0 \in Nat
      BY <1>0, <2>1
    <3> HIDE DEF a0, t0
    <3> QED BY <1>0, <3>1 DEF Exposures
  <2> HIDE DEF after
  <2>4. DevInv(q) /\ Grown(d, q, x, c)
    BY <1>4, <2>2, <2>3, AppendFacts
  <2> QED BY <2>4 DEF q
<1> QED BY <1>1, <1>2, <1>3, <1>4

-----------------------------------------------------------------------------
(* The lists of the clients                                                 *)

LEMMA ShrunkPartOf ==
  ASSUME NEW d, NEW e, NEW S, Shrunk(d, e, S), NEW b, NEW m, PartOf(m, d, b),
         \A y \in S : y \in ToSet(d.list) => d.exp[y].client # b
  PROVE  PartOf(m, e, b)
<1>1. \A y \in ToSet(m) : y \notin S
  BY DEF PartOf
<1>2. ToSet(m) = {x \in ToSet(e.list) : e.exp[x].client = b}
  <2>1. ASSUME NEW x \in ToSet(m) PROVE x \in ToSet(e.list) /\ e.exp[x].client = b
    BY <1>1 DEF PartOf, Shrunk
  <2>2. ASSUME NEW x \in ToSet(e.list), e.exp[x].client = b PROVE x \in ToSet(m)
    BY <2>2 DEF PartOf, Shrunk
  <2> QED BY <2>1, <2>2
<1>3. ASSUME NEW i \in DOMAIN m, NEW j \in DOMAIN m, i < j PROVE Before(e.list, m[j], m[i])
  <2>1. m[i] \notin S /\ m[j] \notin S
    BY <1>1 DEF ToSet
  <2> QED BY <1>3, <2>1 DEF PartOf, Shrunk
<1> QED BY <1>2, <1>3 DEF PartOf

LEMMA AbortPartOf ==
  ASSUME NEW d, NEW e, NEW m, Shrunk(d, e, ToSet(m)), NEW c, PartOf(m, d, c)
  PROVE  PartOf(<<>>, e, c)
<1>1. \A x \in ToSet(e.list) : e.exp[x].client # c
  BY DEF PartOf, Shrunk
<1>2. ToSet(<<>>) = {} /\ DOMAIN <<>> = {}
  BY DEF ToSet
<1> QED BY <1>1, <1>2 DEF PartOf

LEMMA GrownPartOf ==
  ASSUME NEW d, NEW e, NEW x, NEW c, Grown(d, e, x, c), NEW b, NEW m, PartOf(m, d, b), b # c
  PROVE  PartOf(m, e, b)
BY DEF PartOf, Grown

LEMMA GrownOwnPart ==
  ASSUME NEW d, NEW e, NEW x, NEW c, Grown(d, e, x, c), NEW m \in Seq(Ids), x \in Ids, PartOf(m, d, c)
  PROVE  PartOf(<<x>> \o m, e, c)
<1> DEFINE r == <<x>> \o m
<1>0. /\ r \in Seq(Ids) /\ DOMAIN r = 1..Len(m) + 1 /\ r[1] = x /\ \A k \in 1..Len(m) : r[k + 1] = m[k]
      /\ Len(m) \in Nat /\ DOMAIN m = 1..Len(m)
  OBVIOUS
<1> HIDE DEF r
<1>1. \A k \in 1..Len(m) + 1 : k # 1 => k - 1 \in 1..Len(m) /\ r[k] = m[k - 1]
  <2>1. \A k \in 1..Len(m) + 1 : k # 1 => k - 1 \in 1..Len(m) /\ k - 1 + 1 = k
    BY <1>0
  <2> QED BY <1>0, <2>1
<1>2. ToSet(r) = ToSet(m) \cup {x}
  <2>1. ASSUME NEW y \in ToSet(r) PROVE y \in ToSet(m) \cup {x}
    <3>1. PICK k \in 1..Len(m) + 1 : y = r[k]
      BY <1>0 DEF ToSet
    <3>2. CASE k = 1
      BY <1>0, <3>1, <3>2
    <3>3. CASE k # 1
      <4>1. k - 1 \in DOMAIN m /\ y = m[k - 1]
        BY <1>0, <1>1, <3>1, <3>3
      <4> QED BY <4>1 DEF ToSet
    <3> QED BY <3>2, <3>3
  <2>2. ASSUME NEW y \in ToSet(m) PROVE y \in ToSet(r)
    <3>1. PICK k \in 1..Len(m) : y = m[k]
      BY <1>0 DEF ToSet
    <3>2. k + 1 \in DOMAIN r /\ r[k + 1] = y
      BY <1>0, <3>1
    <3> QED BY <3>2 DEF ToSet
  <2>3. x \in ToSet(r)
    <3>1. 1 \in DOMAIN r
      BY <1>0
    <3> QED BY <1>0, <3>1 DEF ToSet
  <2> QED BY <2>1, <2>2, <2>3
<1>3. ToSet(r) = {y \in ToSet(e.list) : e.exp[y].client = c}
  <2>1. \A y \in ToSet(d.list) : y \in ToSet(m) <=> e.exp[y].client = c
    BY DEF PartOf, Grown
  <2>2. ToSet(m) \subseteq ToSet(d.list)
    BY DEF PartOf
  <2> QED BY <1>2, <2>1, <2>2 DEF Grown
<1>4. ASSUME NEW i \in DOMAIN r, NEW j \in DOMAIN r, i < j PROVE Before(e.list, r[j], r[i])
  <2>1. j - 1 \in 1..Len(m) /\ r[j] = m[j - 1]
    <3>1. j # 1
      BY <1>0, <1>4
    <3> QED BY <1>0, <1>1, <3>1
  <2>2. CASE i = 1
    <3>1. m[j - 1] \in ToSet(m)
      BY <1>0, <2>1 DEF ToSet
    <3>2. m[j - 1] \in ToSet(d.list) /\ d.exp[m[j - 1]].client = c
      BY <3>1 DEF PartOf
    <3> QED BY <1>0, <2>1, <2>2, <3>2 DEF Grown
  <2>3. CASE i # 1
    <3>1. i - 1 \in 1..Len(m) /\ r[i] = m[i - 1] /\ i - 1 < j - 1
      BY <1>0, <1>1, <1>4, <2>3
    <3>2. Before(d.list, m[j - 1], m[i - 1])
      BY <1>0, <2>1, <3>1 DEF PartOf
    <3> QED BY <2>1, <3>1, <3>2 DEF Grown
  <2> QED BY <2>2, <2>3
<1> QED BY <1>3, <1>4 DEF PartOf, r

\* The image that was read last leaves the client's list.
LEMMA ReadPartOf ==
  ASSUME NEW d, NEW e, NEW x, NEW c, Shrunk(d, e, {x}), d.list \in Seq(Ids), IsInjective(d.list),
         x \in ToSet(d.list), d.exp[x].client = c, NEW m \in Seq(Ids), PartOf(m, d, c)
  PROVE  RemoveFirst(m, x) \in Seq(Ids) /\ PartOf(RemoveFirst(m, x), e, c)
<1> DEFINE i == SelectInSeq(m, LAMBDA v : v = x)
           r == RemoveAt(m, i)
           n == Len(m)
           I == {k \in 1..n : m[k] = x}
<1>0. n \in Nat /\ DOMAIN m = 1..n
  OBVIOUS
<1>1. \E k \in 1..n : m[k] = x
  <2>1. x \in ToSet(m)
    BY DEF PartOf
  <2> QED BY <1>0, <2>1 DEF ToSet
<1>2. RemoveFirst(m, x) = r
  BY <1>1 DEF RemoveFirst
<1>3. i \in 1..n /\ m[i] = x
  <2>1. I # {} /\ I \subseteq Nat
    BY <1>1
  <2>2. \E k \in I : \A j \in I : k <= j
    <3> HIDE DEF I
    <3> QED BY <2>1, LeastNatural
  <2>3. i = Min(I)
    BY <2>1 DEF SelectInSeq
  <2>4. Min(I) \in I
    BY <2>2 DEF Min
  <2> QED BY <2>3, <2>4
<1> HIDE DEF i
<1>4. r \in Seq(Ids) /\ Without(m, r, i)
  BY <1>3, RemoveAtWithout
<1> HIDE DEF r
<1>5. IsInjective(m)
  <2>1. ASSUME NEW a \in 1..n, NEW b \in 1..n, a < b PROVE m[a] # m[b]
    <3>1. Before(d.list, m[b], m[a])
      BY <1>0, <2>1 DEF PartOf
    <3>2. PICK j \in DOMAIN d.list, k \in DOMAIN d.list : j < k /\ d.list[j] = m[b] /\ d.list[k] = m[a]
      BY <3>1 DEF Before
    <3>3. j # k
      BY <3>2
    <3> QED BY <3>2, <3>3 DEF IsInjective
  <2> QED BY <1>0, <2>1 DEF IsInjective
<1>6. ToSet(r) = ToSet(m) \ {x}
  BY <1>3, <1>4, <1>5, WithoutFacts
<1>7. ToSet(r) = {y \in ToSet(e.list) : e.exp[y].client = c}
  BY <1>6 DEF PartOf, Shrunk
<1>8. ASSUME NEW a \in DOMAIN r, NEW b \in DOMAIN r, a < b PROVE Before(e.list, r[b], r[a])
  <2>0. DOMAIN r = 1..Len(r) /\ Len(r) = n - 1 /\ \A k \in 1..Len(r) : r[k] = IF k < i THEN m[k] ELSE m[k + 1]
    BY <1>4 DEF Without
  <2> DEFINE old(k) == IF k < i THEN k ELSE k + 1
  <2>1. old(a) \in 1..n /\ old(b) \in 1..n /\ old(a) < old(b)
    BY <1>0, <1>3, <1>8, <2>0
  <2>2. r[a] = m[old(a)] /\ r[b] = m[old(b)]
    BY <2>0
  <2> HIDE DEF old
  <2>3. Before(d.list, r[b], r[a])
    BY <1>0, <2>1, <2>2 DEF PartOf
  <2>4. r[a] # x /\ r[b] # x
    <3>1. r[a] \in ToSet(r) /\ r[b] \in ToSet(r)
      BY DEF ToSet
    <3> QED BY <1>6, <3>1
  <2> QED BY <2>3, <2>4 DEF Shrunk
<1>9. PartOf(r, e, c)
  BY <1>7, <1>8 DEF PartOf
<1> QED BY <1>2, <1>4, <1>9

-----------------------------------------------------------------------------
(* A call, on the device and on client c                                    *)

Base(s, c) ==
  /\ s \in States /\ DevInv(s.d) /\ s.d.registered = dev.registered /\ PartOf(s.c.mine, s.d, c)
  /\ \A b \in Clients : b # c => PartOf(client[b].mine, s.d, b)
  /\ s.c.rd \in Sleeping => Latched(s.d, c)
  /\ \A b \in Clients : b # c /\ client[b].rd \in Sleeping => Latched(s.d, b)

SInv(s, c) == Base(s, c) /\ s.c.out <= OutCap

\* What a call of c may do to a complete exposure at the head of the queue of d:
\* nothing, or take it off; its memory may serve c again.
Kept(d, e, c) ==
  d.list # <<>> /\ d.exp[Head(d.list)].complete = 1 =>
    \/ /\ e.list # <<>> /\ Head(e.list) = Head(d.list) /\ e.row = d.row
       /\ e.exp[Head(d.list)].complete = 1
    \/ Head(d.list) \notin ToSet(e.list)
    \/ /\ e.exp[Head(d.list)].client = c /\ e.exp[Head(d.list)].complete # 1
       /\ Head(d.list) \in ToSet(e.list)

LEMMA SInvFields ==
  ASSUME NEW s, NEW c, SInv(s, c)
  PROVE  /\ s.d \in Devices /\ s.c \in ClientStates /\ s = [d |-> s.d, c |-> s.c]
         /\ s.c.mine \in Seq(Ids) /\ s.c.inbuf \in Seq(Messages) /\ s.d.list \in Seq(Ids)
         /\ Allocated(s.d) /\ ToSet(s.c.mine) \subseteq ToSet(s.d.list) /\ s \in States
         /\ s.c.out <= OutCap /\ (s.c.rd \in Sleeping => Latched(s.d, c))
<1>1. s.d \in Devices /\ s.c \in ClientStates /\ s = [d |-> s.d, c |-> s.c] /\ s \in States
  BY DEF SInv, Base, States
<1> QED BY <1>1, ClientFields, DeviceFields DEF SInv, Base, PartOf, DevInv

\* A latched image at the head stays one when the queue shrinks behind it, when
\* it grows, and when neither the queue nor the exposures change.
LEMMA LatchedShrunk ==
  ASSUME NEW d, NEW e \in Devices, NEW S, NEW b, Shrunk(d, e, S), Latched(d, b), Head(d.list) \notin S
  PROVE  Latched(e, b)
<1>1. d.list # <<>> /\ d.exp[Head(d.list)].client = b /\ d.exp[Head(d.list)].complete = 1
  BY DEF Latched, HeadIsOf
<1>2. e.list # <<>> /\ Head(e.list) = Head(d.list) /\ e.exp[Head(d.list)].complete = 1
  BY <1>1 DEF Shrunk
<1>3. Head(e.list) \in ToSet(e.list)
  <2>1. e.list \in Seq(Ids)
    BY DeviceFields
  <2>2. 1 \in DOMAIN e.list /\ Head(e.list) = e.list[1]
    BY <1>2, <2>1
  <2> QED BY <2>2 DEF ToSet
<1>4. e.exp[Head(e.list)].client = d.exp[Head(e.list)].client
  BY <1>3 DEF Shrunk
<1> QED BY <1>1, <1>2, <1>4 DEF Latched, HeadIsOf

LEMMA LatchedGrown ==
  ASSUME NEW d \in Devices, NEW e, NEW x, NEW c, NEW b, Grown(d, e, x, c), Latched(d, b)
  PROVE  Latched(e, b)
<1>1. d.list # <<>> /\ d.exp[Head(d.list)].client = b /\ d.exp[Head(d.list)].complete = 1
  BY DEF Latched, HeadIsOf
<1>2. e.list # <<>> /\ Head(e.list) = Head(d.list) /\ e.exp[Head(d.list)].complete = 1
  BY <1>1 DEF Grown
<1>3. Head(d.list) \in ToSet(d.list)
  <2>1. d.list \in Seq(Ids)
    BY DeviceFields
  <2>2. 1 \in DOMAIN d.list /\ Head(d.list) = d.list[1]
    BY <1>1, <2>1
  <2> QED BY <2>2 DEF ToSet
<1>4. e.exp[Head(d.list)].client = d.exp[Head(d.list)].client
  BY <1>3 DEF Grown
<1> QED BY <1>1, <1>2, <1>4 DEF Latched, HeadIsOf

LEMMA LatchedSame ==
  ASSUME NEW d, NEW e, e.list = d.list, e.exp = d.exp, NEW b, Latched(d, b)
  PROVE  Latched(e, b)
BY DEF Latched, HeadIsOf

\* The image at the head is that of one client.
LEMMA LatchedOther ==
  ASSUME NEW d \in Devices, NEW b, NEW c, Latched(d, b), b # c, NEW m, PartOf(m, d, c)
  PROVE  Head(d.list) \notin ToSet(m)
BY DEF Latched, HeadIsOf, PartOf

LEMMA AbortSInv ==
  ASSUME NEW s, NEW c \in Clients, SInv(s, c), now \in Nat
  PROVE  LET t == AbortExposures(s, c)
         IN /\ SInv(t, c) /\ t.c.mine = <<>>
            /\ t.c.inbuf = s.c.inbuf /\ t.c.opened = s.c.opened
            /\ t.c.rd \in Sleeping => t.c.rd = s.c.rd
            /\ \A d : Kept(d, s.d, c) => Kept(d, t.d, c)
<1> DEFINE t == AbortExposures(s, c)
<1>1. /\ t \in States /\ DevInv(t.d) /\ Shrunk(s.d, t.d, ToSet(s.c.mine))
      /\ t.c.mine = <<>> /\ t.c.inbuf = s.c.inbuf /\ t.c.opened = s.c.opened /\ t.c.out = 0
      /\ t.c.rd \in Sleeping => t.c.rd = s.c.rd /\ t.d = s.d
  <2>1. s \in States /\ DevInv(s.d) /\ ToSet(s.c.mine) \subseteq ToSet(s.d.list)
    BY SInvFields DEF SInv, Base
  <2> QED BY <2>1, AbortFacts
<1> HIDE DEF t
<1>2. PartOf(s.c.mine, s.d, c)
  BY DEF SInv, Base
<1>3. PartOf(t.c.mine, t.d, c)
  BY <1>1, <1>2, AbortPartOf
<1>4. ASSUME NEW b \in Clients, b # c PROVE PartOf(client[b].mine, t.d, b)
  <2>1. PartOf(client[b].mine, s.d, b)
    BY <1>4 DEF SInv, Base
  <2>2. \A y \in ToSet(s.c.mine) : s.d.exp[y].client # b
    BY <1>2, <1>4 DEF PartOf
  <2> QED BY <1>1, <2>1, <2>2, ShrunkPartOf
<1>5. ASSUME NEW d, Kept(d, s.d, c) PROVE Kept(d, t.d, c)
  <2>1. SUFFICES ASSUME d.list # <<>>, d.exp[Head(d.list)].complete = 1
                 PROVE  \/ /\ t.d.list # <<>> /\ Head(t.d.list) = Head(d.list) /\ t.d.row = d.row
                           /\ t.d.exp[Head(d.list)].complete = 1
                        \/ Head(d.list) \notin ToSet(t.d.list)
    BY DEF Kept
  <2> DEFINE x == Head(d.list)
  <2>2. CASE s.d.list # <<>> /\ Head(s.d.list) = x /\ s.d.row = d.row /\ s.d.exp[x].complete = 1
    <3>1. CASE x \in ToSet(s.c.mine)
      BY <1>1, <3>1 DEF Shrunk
    <3>2. CASE x \notin ToSet(s.c.mine)
      BY <1>1, <2>2, <3>2 DEF Shrunk
    <3> QED BY <3>1, <3>2
  <2>3. CASE x \notin ToSet(s.d.list)
    BY <1>1, <2>3 DEF Shrunk
  <2>4. CASE s.d.exp[x].client = c /\ x \in ToSet(s.d.list)
    <3>1. x \in ToSet(s.c.mine)
      BY <1>2, <2>4 DEF PartOf
    <3> QED BY <1>1, <3>1 DEF Shrunk
  <2> QED BY <1>5, <2>1, <2>2, <2>3, <2>4 DEF Kept
<1>6. t.d.registered = dev.registered
  BY <1>1 DEF Shrunk, SInv, Base
<1>7. t.c.rd \in Sleeping => Latched(t.d, c)
  BY <1>1, SInvFields
<1>8. ASSUME NEW b \in Clients, b # c, client[b].rd \in Sleeping PROVE Latched(t.d, b)
  <2>1. Latched(s.d, b) /\ s.d \in Devices /\ t.d \in Devices
    BY <1>1, <1>8, SInvFields DEF SInv, Base, DevInv
  <2>2. Head(s.d.list) \notin ToSet(s.c.mine)
    BY <1>2, <1>8, <2>1, LatchedOther
  <2> QED BY <1>1, <2>1, <2>2, LatchedShrunk
<1>9. t.c.out <= OutCap
  <2>1. OutCap \in Nat
    BY CcdAssumption, SMT
  <2> QED BY <1>1, <2>1
<1>10. SInv(t, c)
  BY <1>1, <1>3, <1>4, <1>6, <1>7, <1>8, <1>9 DEF SInv, Base
<1> QED BY <1>1, <1>5, <1>10 DEF t

LEMMA ExposeMessage ==
  ASSUME NEW m \in Messages, m.op = "expose"
  PROVE  m.msec \in Durations /\ m.nowipe \in NoWipes
BY DEF Messages

LEMMA NewExposureSInv ==
  ASSUME NEW s, NEW c \in Clients, SInv(s, c), now \in Nat, NEW m \in Messages, m.op = "expose",
         Free(s.d) # {}
  PROVE  LET t == NewExposure(s, c, m)
         IN /\ SInv(t, c)
            /\ t.c.inbuf = s.c.inbuf /\ t.c.opened = s.c.opened /\ t.c.rd = s.c.rd
            /\ \A d : Kept(d, s.d, c) => Kept(d, t.d, c)
<1> DEFINE t == NewExposure(s, c, m)
           x == CHOOSE x \in Ids : x \in Free(s.d)
           e == [client |-> c, msec |-> m.msec, begin |-> 0, end |-> 0, complete |-> 0, begun |-> FALSE]
           f == WithExp(s.d, [s.d.exp EXCEPT ![x] = e])
           q == Queue(f, x, m.nowipe)
           mine == <<x>> \o s.c.mine
           b0 == SetMine(s.c, mine)
<1>0. /\ s.d \in Devices /\ s.c \in ClientStates /\ s = [d |-> s.d, c |-> s.c]
      /\ s.c.mine \in Seq(Ids) /\ s.d.list \in Seq(Ids) /\ Allocated(s.d) /\ DevInv(s.d)
      /\ PartOf(s.c.mine, s.d, c)
  BY SInvFields DEF SInv, Base
<1>1. x \in Ids /\ s.d.exp[x] = None
  BY DEF Free
<1>2. t = [d |-> q, c |-> b0]
  <2> DEFINE f0 == [s.d EXCEPT !.exp[x] = e]
             c0 == [s.c EXCEPT !.mine = <<x>> \o @]
  <2>1. t = [d |-> Queue(f0, x, m.nowipe), c |-> c0]
    BY SMT DEF NewExposure
  <2>2. f0 = f
    <3> HIDE DEF x, e
    <3> QED BY SMT DEF WithExp
  <2>3. c0 = b0
    <3> HIDE DEF x
    <3> QED BY SMT DEF SetMine
  <2> HIDE DEF f0, c0, f, b0, t
  <2> QED BY <2>1, <2>2, <2>3
<1> HIDE DEF t, x
<1>3. e \in Exposures /\ e.client = c /\ e.complete = 0 /\ e # None
  <2> DEFINE l == m.msec
  <2>1. l \in Durations
    BY ExposeMessage
  <2> HIDE DEF l
  <2>2. e \in Exposures
    BY <2>1 DEF Exposures, l
  <2> QED BY <2>2, NoneAssumption
<1>4. x \notin ToSet(s.d.list)
  BY <1>0, <1>1 DEF Allocated, ToSet
<1> HIDE DEF e
<1>5. /\ DevInv(f) /\ f.exp[x] = e /\ f.list = s.d.list /\ f.row = s.d.row /\ f.registered = s.d.registered
      /\ \A y \in Ids : y # x => f.exp[y] = s.d.exp[y]
  BY <1>0, <1>1, <1>3, <1>4, AllocateFacts
<1> HIDE DEF f
<1>6. DevInv(q) /\ Grown(f, q, x, c)
  BY <1>1, <1>3, <1>4, <1>5, QueueFacts
<1> HIDE DEF q
<1>7. Grown(s.d, q, x, c)
  <2>1. \A y \in ToSet(s.d.list) : f.exp[y] = s.d.exp[y]
    <3>1. \A y \in ToSet(s.d.list) : y \in Ids /\ y # x
      BY <1>0, <1>4 DEF ToSet
    <3> QED BY <1>5, <3>1
  <2>2. s.d.list # <<>> => Head(s.d.list) \in ToSet(s.d.list)
    <3>1. s.d.list # <<>> => 1 \in DOMAIN s.d.list /\ Head(s.d.list) = s.d.list[1]
      BY <1>0
    <3> QED BY <3>1 DEF ToSet
  <2> QED BY <1>5, <1>6, <2>1, <2>2 DEF Grown
<1>8. mine \in Seq(Ids) /\ PartOf(mine, q, c)
  BY <1>0, <1>1, <1>7, GrownOwnPart
<1> HIDE DEF mine
<1>9. /\ b0 \in ClientStates /\ b0.mine = mine /\ b0.inbuf = s.c.inbuf
      /\ b0.opened = s.c.opened /\ b0.rd = s.c.rd /\ b0.out = s.c.out
  BY <1>0, <1>8, SetMineFacts
<1> HIDE DEF b0
<1>10. t \in States /\ t.d = q /\ t.c = b0
  BY <1>2, <1>6, <1>9 DEF States, DevInv
<1>11. SInv(t, c)
  <2>1. ASSUME NEW b \in Clients, b # c PROVE PartOf(client[b].mine, q, b)
    <3>1. PartOf(client[b].mine, s.d, b)
      BY <2>1 DEF SInv, Base
    <3> QED BY <1>7, <2>1, <3>1, GrownPartOf
  <2>2. q.registered = dev.registered
    BY <1>7 DEF Grown, SInv, Base
  <2>3. t.c.rd \in Sleeping => Latched(q, c)
    BY <1>0, <1>7, <1>9, <1>10, SInvFields, LatchedGrown
  <2>4. ASSUME NEW b \in Clients, b # c, client[b].rd \in Sleeping PROVE Latched(q, b)
    <3>1. Latched(s.d, b)
      BY <2>4 DEF SInv, Base
    <3> QED BY <1>0, <1>7, <3>1, LatchedGrown
  <2>5. t.c.out <= OutCap
    BY <1>9, <1>10, SInvFields
  <2> QED BY <1>6, <1>8, <1>9, <1>10, <2>1, <2>2, <2>3, <2>4, <2>5 DEF SInv, Base
<1>12. ASSUME NEW d, Kept(d, s.d, c) PROVE Kept(d, q, c)
  BY <1>7, <1>12 DEF Kept, Grown
<1> QED BY <1>9, <1>10, <1>11, <1>12 DEF t

\* A call that leaves the device and the client's list alone.
LEMMA ClientChange ==
  ASSUME NEW s, NEW c, SInv(s, c), NEW b \in ClientStates, b.mine = s.c.mine, b.out <= OutCap,
         b.rd \in Sleeping => Latched(s.d, c)
  PROVE  LET t == [d |-> s.d, c |-> b] IN SInv(t, c) /\ t.d = s.d /\ t.c = b
<1> DEFINE t == [d |-> s.d, c |-> b]
<1>1. t.d = s.d /\ t.c = b
  OBVIOUS
<1>2. t \in States
  BY SInvFields DEF States
<1> HIDE DEF t
<1>3. SInv(t, c)
  BY <1>1, <1>2 DEF SInv, Base
<1> QED BY <1>1, <1>3 DEF t

LEMMA ClientSet ==
  ASSUME NEW s \in States, NEW b
  PROVE  [s EXCEPT !.c = b] = [d |-> s.d, c |-> b]
BY SMT DEF States

\* One message keeps what the call relies on.
LEMMA ParseSInv ==
  ASSUME NEW s, NEW c \in Clients, SInv(s, c), now \in Nat, NEW m \in Messages
  PROVE  LET t == Parse(s, m, c)
         IN /\ SInv(t, c) /\ t.c.opened = s.c.opened
            /\ Len(t.c.inbuf) <= Len(s.c.inbuf) + 1
            /\ \A d : Kept(d, s.d, c) => Kept(d, t.d, c)
<1> DEFINE t == Parse(s, m, c)
<1>0. /\ s \in States /\ s.d \in Devices /\ s.c \in ClientStates
      /\ s.c.inbuf \in Seq(Messages) /\ Len(s.c.inbuf) \in Nat /\ OutCap \in Nat
      /\ s.c.out \in 0..OutCap /\ (s.c.rd \in Sleeping => Latched(s.d, c))
  <2>1. s \in States /\ s.d \in Devices /\ s.c \in ClientStates /\ s.c.inbuf \in Seq(Messages)
    BY SInvFields
  <2>2. s.c.out \in 0..OutCap + 1 /\ OutCap \in Nat
    BY <2>1, ClientFields, CcdAssumption, SMT
  <2>3. s.c.out <= OutCap /\ (s.c.rd \in Sleeping => Latched(s.d, c))
    BY SInvFields
  <2> QED BY <2>1, <2>2, <2>3
<1> DEFINE l == Append(s.c.inbuf, m)
<1>1. l \in Seq(Messages) /\ Len(l) <= Len(s.c.inbuf) + 1
  BY <1>0
<1>2. CASE s.c.inbuf # <<>> \/ (m.op = "query" /\ s.c.out >= OutCap)
  <2> DEFINE b == SetInbuf(s.c, l)
  <2>1. t = [d |-> s.d, c |-> b]
    <3> DEFINE b0 == [s.c EXCEPT !.inbuf = Append(@, m)]
    <3>1. t = [s EXCEPT !.c = b0]
      BY <1>2, SMT DEF Parse
    <3>2. b0 = b
      BY SMT DEF SetInbuf
    <3> HIDE DEF t, b, b0
    <3> QED BY <1>0, <3>1, <3>2, ClientSet
  <2> HIDE DEF l, t
  <2>2. /\ b \in ClientStates /\ b.mine = s.c.mine /\ b.inbuf = l /\ b.opened = s.c.opened
        /\ b.out = s.c.out /\ b.rd = s.c.rd
    BY <1>0, <1>1, SetInbufFacts
  <2> HIDE DEF b
  <2>3. SInv(t, c) /\ t.d = s.d /\ t.c = b
    BY <1>0, <2>1, <2>2, ClientChange
  <2> QED BY <1>1, <2>2, <2>3 DEF t
<1>3. CASE /\ ~(s.c.inbuf # <<>> \/ (m.op = "query" /\ s.c.out >= OutCap))
           /\ m.op = "fatal" \/ (m.op = "expose" /\ Free(s.d) = {})
  <2> DEFINE b == [s.c EXCEPT !.inbuf = Append(@, m), !.rd = "oops"]
  <2>1. t = [d |-> s.d, c |-> b]
    <3>1. t = [s EXCEPT !.c = b]
      BY <1>3, SMT DEF Parse
    <3> HIDE DEF t, b
    <3> QED BY <1>0, <3>1, ClientSet
  <2>2. b = SetRd(SetInbuf(s.c, l), "oops")
    BY SMT DEF SetRd, SetInbuf
  <2> HIDE DEF l, t, b
  <2> DEFINE h == SetInbuf(s.c, l)
  <2>3. /\ h \in ClientStates /\ h.mine = s.c.mine /\ h.inbuf = l /\ h.opened = s.c.opened
        /\ h.out = s.c.out
    BY <1>0, <1>1, SetInbufFacts
  <2> HIDE DEF h
  <2>4. b = SetRd(h, "oops")
    BY <2>2 DEF h
  <2>5. /\ b \in ClientStates /\ b.mine = s.c.mine /\ b.inbuf = l /\ b.opened = s.c.opened
        /\ b.out = s.c.out /\ b.rd \notin Sleeping
    <3>1. "oops" \in Doing /\ "oops" \notin Sleeping
      BY DEF Doing, Sleeping
    <3> QED BY <2>3, <2>4, <3>1, SetRdFacts
  <2>6. SInv(t, c) /\ t.d = s.d /\ t.c = b
    BY <1>0, <2>1, <2>5, ClientChange
  <2> QED BY <1>1, <2>5, <2>6 DEF t
<1> HIDE DEF l
<1>4. CASE /\ ~(s.c.inbuf # <<>> \/ (m.op = "query" /\ s.c.out >= OutCap))
           /\ ~(m.op = "fatal" \/ (m.op = "expose" /\ Free(s.d) = {}))
  <2>0. m.op \in {"query", "abort", "control", "garbage", "fatal", "expose"}
    BY DEF Messages
  <2>1. CASE m.op = "query"
    <3> DEFINE o == s.c.out + 1
               b == SetOut(s.c, o)
    <3>1. t = [d |-> s.d, c |-> b]
      <4>1. t = [s EXCEPT !.c.out = @ + 1]
        BY <1>4, <2>1, SMT DEF Parse
      <4>2. [s EXCEPT !.c.out = @ + 1] = [d |-> s.d, c |-> b]
        BY <1>0, SMT DEF States, SetOut
      <4> HIDE DEF t, b
      <4> QED BY <4>1, <4>2
    <3>2. o \in 0..OutCap + 1 /\ o <= OutCap
      BY <1>0, <1>4, <2>1
    <3> HIDE DEF o, t
    <3>3. /\ b \in ClientStates /\ b.mine = s.c.mine /\ b.inbuf = s.c.inbuf /\ b.opened = s.c.opened
          /\ b.out = o /\ b.rd = s.c.rd
      BY <1>0, <3>2, SetOutFacts
    <3> HIDE DEF b
    <3>4. SInv(t, c) /\ t.d = s.d /\ t.c = b
      BY <1>0, <3>1, <3>2, <3>3, ClientChange
    <3> QED BY <1>0, <3>3, <3>4 DEF t
  <2>2. CASE m.op = "expose"
    <3>1. t = NewExposure(s, c, m)
      BY <1>4, <2>2 DEF Parse
    <3> HIDE DEF t
    <3>2. /\ SInv(t, c) /\ t.c.inbuf = s.c.inbuf /\ t.c.opened = s.c.opened
          /\ \A d : Kept(d, s.d, c) => Kept(d, t.d, c)
      BY <1>4, <2>2, <3>1, NewExposureSInv
    <3> QED BY <1>0, <3>2 DEF t
  <2>3. CASE m.op = "abort"
    <3>1. t = AbortExposures(s, c)
      BY <1>4, <2>3 DEF Parse
    <3> HIDE DEF t
    <3>2. /\ SInv(t, c) /\ t.c.inbuf = s.c.inbuf /\ t.c.opened = s.c.opened
          /\ \A d : Kept(d, s.d, c) => Kept(d, t.d, c)
      BY <3>1, AbortSInv
    <3> QED BY <1>0, <3>2 DEF t
  <2>4. CASE m.op \in {"control", "garbage"}
    <3>1. t = s
      BY <1>4, <2>4 DEF Parse
    <3> HIDE DEF t
    <3>2. /\ SInv(t, c) /\ t.c.inbuf = s.c.inbuf /\ t.c.opened = s.c.opened
          /\ \A d : Kept(d, s.d, c) => Kept(d, t.d, c)
      BY <3>1
    <3> QED BY <1>0, <3>2 DEF t
  <2> QED BY <1>4, <2>0, <2>1, <2>2, <2>3, <2>4
<1> QED BY <1>2, <1>3, <1>4

\* The loop of parse_binary_msg.
IsParsed(f, s, c, msgs) ==
  f = [k \in 0..Len(msgs) |-> IF k = 0 THEN s ELSE Parse(f[k-1], msgs[k], c)]

LEMMA ParsedFacts ==
  ASSUME NEW s, NEW c \in Clients, SInv(s, c), now \in Nat, NEW msgs \in Seq(Messages),
         Len(s.c.inbuf) = 0, NEW parsed, parsed = CHOOSE f : IsParsed(f, s, c, msgs)
  PROVE  LET t == parsed[Len(msgs)]
         IN /\ SInv(t, c) /\ t.c.opened = s.c.opened /\ Len(t.c.inbuf) <= Len(msgs)
            /\ \A d : Kept(d, s.d, c) => Kept(d, t.d, c)
<1> DEFINE n == Len(msgs)
           D == {t \in States : SInv(t, c)}
           g == [k \in 1..n |-> [t \in D |-> Parse(t, msgs[k], c)]]
<1>0. n \in Nat /\ DOMAIN msgs = 1..n /\ \A k \in 1..n : msgs[k] \in Messages
  OBVIOUS
<1>1. s \in D /\ \A t : t \in D <=> SInv(t, c)
  BY DEF SInv, Base
<1> HIDE DEF D
<1>2. ASSUME NEW k \in 1..n, NEW t \in D
      PROVE  LET u == Parse(t, msgs[k], c)
             IN /\ u \in D /\ u.c.opened = t.c.opened /\ Len(u.c.inbuf) <= Len(t.c.inbuf) + 1
                /\ \A d : Kept(d, t.d, c) => Kept(d, u.d, c)
  BY <1>0, <1>1, ParseSInv
<1>3. g \in Bodies(D, n) /\ \A k \in 1..n : \A t \in D : g[k][t] = Parse(t, msgs[k], c)
  BY <1>2 DEF Bodies
<1> HIDE DEF g, n
<1>4. PICK f : f \in Runs(D, n, s, g)
  BY <1>0, <1>1, <1>3, Rounds
<1>5. IsParsed(f, s, c, msgs)
  <2>1. f \in [0..n -> D] /\ f[0] = s /\ \A k \in 1..n : f[k] = g[k][f[k - 1]]
    BY <1>4 DEF Runs
  <2>2. ASSUME NEW k \in 0..n PROVE f[k] = IF k = 0 THEN s ELSE Parse(f[k-1], msgs[k], c)
    <3>1. CASE k = 0
      BY <2>1, <3>1
    <3>2. CASE k # 0
      <4>1. k \in 1..n /\ k - 1 \in 0..n
        BY <1>0, <3>2
      <4>2. f[k - 1] \in D
        BY <2>1, <4>1
      <4> QED BY <1>3, <2>1, <3>2, <4>1, <4>2
    <3> QED BY <3>1, <3>2
  <2>3. f = [k \in 0..n |-> f[k]]
    BY <2>1
  <2> QED BY <2>2, <2>3, Zenon DEF IsParsed, n
<1>6. IsParsed(parsed, s, c, msgs)
  BY <1>5, Zenon
<1>7. /\ parsed[0] = s
      /\ \A k \in 1..n : parsed[k] = Parse(parsed[k-1], msgs[k], c)
  <2>1. \A k \in 0..n : parsed[k] = IF k = 0 THEN s ELSE Parse(parsed[k-1], msgs[k], c)
    BY <1>6 DEF IsParsed, n
  <2>2. 0 \in 0..n /\ \A k \in 1..n : k \in 0..n /\ k # 0
    BY <1>0
  <2> QED BY <2>1, <2>2
<1> DEFINE P(k) == /\ parsed[k] \in D /\ parsed[k].c.opened = s.c.opened
                   /\ Len(parsed[k].c.inbuf) <= k
                   /\ \A d : Kept(d, s.d, c) => Kept(d, parsed[k].d, c)
           T == {k \in 0..n : ~P(k)}
<1>8. P(0)
  <2>1. Len(parsed[0].c.inbuf) <= 0
    BY <1>7
  <2> QED BY <1>1, <1>7, <2>1
<1>9. ASSUME NEW k \in 1..n, P(k - 1) PROVE P(k)
  <2>1. parsed[k] = Parse(parsed[k - 1], msgs[k], c) /\ parsed[k - 1] \in D
    BY <1>7, <1>9
  <2>2. /\ parsed[k] \in D /\ parsed[k].c.opened = parsed[k - 1].c.opened
        /\ Len(parsed[k].c.inbuf) <= Len(parsed[k - 1].c.inbuf) + 1
        /\ \A d : Kept(d, parsed[k - 1].d, c) => Kept(d, parsed[k].d, c)
    <3> DEFINE t == parsed[k - 1]
               m == msgs[k]
    <3>1. SInv(t, c) /\ m \in Messages
      BY <1>0, <1>1, <2>1
    <3>2. parsed[k] = Parse(t, m, c)
      BY <2>1
    <3> DEFINE u == Parse(t, m, c)
    <3> HIDE DEF t, m
    <3>3. /\ SInv(u, c) /\ u.c.opened = t.c.opened /\ Len(u.c.inbuf) <= Len(t.c.inbuf) + 1
          /\ \A d : Kept(d, t.d, c) => Kept(d, u.d, c)
      BY <3>1, ParseSInv
    <3> HIDE DEF u
    <3>4. parsed[k] = u /\ parsed[k - 1] = t
      BY <3>2 DEF u, t
    <3>5. u \in D
      BY <1>1, <3>3
    <3> QED BY <3>3, <3>4, <3>5
  <2>3. parsed[k].c.inbuf \in Seq(Messages) /\ parsed[k - 1].c.inbuf \in Seq(Messages)
    <3> DEFINE t == parsed[k - 1]
               u == parsed[k]
    <3>1. SInv(t, c) /\ SInv(u, c)
      BY <1>1, <2>1, <2>2
    <3> HIDE DEF t, u
    <3>2. t.c.inbuf \in Seq(Messages) /\ u.c.inbuf \in Seq(Messages)
      BY <3>1, SInvFields
    <3> QED BY <3>2 DEF t, u
  <2>4. Len(parsed[k].c.inbuf) \in Nat /\ Len(parsed[k - 1].c.inbuf) \in Nat
    <3>1. \A q \in Seq(Messages) : Len(q) \in Nat
      OBVIOUS
    <3> QED BY <2>3, <3>1
  <2>5. Len(parsed[k].c.inbuf) <= k
    BY <1>0, <1>9, <2>2, <2>4
  <2> QED BY <1>9, <2>2, <2>5
<1> HIDE DEF P
<1>10. T = {}
  <2>1. T \subseteq 0..n /\ 0 \notin T
    BY <1>8
  <2>2. ASSUME NEW k \in 1..n, k \in T PROVE k - 1 \in T
    <3>1. k - 1 \in 0..n
      BY <1>0
    <3> QED BY <1>9, <2>2, <3>1
  <2> HIDE DEF T
  <2> QED BY <1>0, <2>1, <2>2, Induction
<1>11. P(n)
  BY <1>0, <1>10
<1> QED BY <1>1, <1>11 DEF P, n

LEMMA ParseBinaryMsgSInv ==
  ASSUME NEW s, NEW c \in Clients, SInv(s, c), now \in Nat, NEW msgs \in Seq(Messages)
  PROVE  LET t == ParseBinaryMsg(s, c, msgs)
         IN /\ SInv(t, c) /\ t.c.opened = s.c.opened /\ Len(t.c.inbuf) <= Len(msgs)
            /\ \A d : Kept(d, s.d, c) => Kept(d, t.d, c)
<1> DEFINE s0 == [s EXCEPT !.c.inbuf = <<>>]
           b == SetInbuf(s.c, <<>>)
           parsed == CHOOSE f : IsParsed(f, s0, c, msgs)
           t == ParseBinaryMsg(s, c, msgs)
<1>0. s \in States /\ s.c \in ClientStates
  BY SInvFields
<1>1. t = parsed[Len(msgs)]
  BY SMT DEF ParseBinaryMsg, IsParsed
<1>2. s0 = [d |-> s.d, c |-> b]
  BY <1>0, SMT DEF States, SetInbuf
<1> HIDE DEF t, s0, parsed
<1>3. /\ b \in ClientStates /\ b.mine = s.c.mine /\ b.inbuf = <<>> /\ b.opened = s.c.opened
      /\ b.out = s.c.out /\ b.rd = s.c.rd
  <2>1. <<>> \in Seq(Messages)
    OBVIOUS
  <2> QED BY <1>0, <2>1, SetInbufFacts
<1> HIDE DEF b
<1>4. SInv(s0, c) /\ s0.d = s.d /\ s0.c = b
  BY <1>2, <1>3, SInvFields, ClientChange
<1>5. Len(s0.c.inbuf) = 0
  BY <1>3, <1>4
<1>6. /\ SInv(t, c) /\ t.c.opened = s0.c.opened /\ Len(t.c.inbuf) <= Len(msgs)
      /\ \A d : Kept(d, s0.d, c) => Kept(d, t.d, c)
  BY <1>1, <1>4, <1>5, ParsedFacts DEF parsed
<1> QED BY <1>3, <1>4, <1>6 DEF t

-----------------------------------------------------------------------------
(* Reads                                                                    *)

\* What a read may do to the exposure at the head of the queue of d: fetch rows
\* of it, or take it off with the last one.
Fetched(d, e) ==
  \/ e.list = d.list /\ (d.row \in 0..Rows => e.row \in d.row..Rows)
  \/ Head(d.list) \notin ToSet(e.list)

LEMMA RowsNat == Rows \in Nat
BY CcdAssumption, SMT

\* A device with the queue and the timer of d keeps what is said of d.
LEMMA DevInvSame ==
  ASSUME NEW d, DevInv(d), NEW e \in Devices, e.list = d.list, e.exp = d.exp,
         e.timer = d.timer, e.target = d.target
  PROVE  DevInv(e)
BY DEF DevInv, Allocated, Steady

LEMMA RowChange ==
  ASSUME NEW d, DevInv(d), NEW r \in RowStates
  PROVE  LET e == WithRow(d, r)
         IN DevInv(e) /\ e.list = d.list /\ e.exp = d.exp /\ e.row = r /\ e.registered = d.registered
<1> DEFINE e == WithRow(d, r)
<1>1. /\ e \in Devices /\ e.list = d.list /\ e.exp = d.exp /\ e.row = r
      /\ e.timer = d.timer /\ e.target = d.target /\ e.registered = d.registered
  BY WithRowFacts DEF DevInv
<1> HIDE DEF e
<1>2. DevInv(e)
  BY <1>1 DEF DevInv, Allocated, Steady
<1> QED BY <1>1, <1>2 DEF e

LEMMA PartOfSame ==
  ASSUME NEW d, NEW e, e.list = d.list, e.exp = d.exp, NEW m, NEW b, PartOf(m, d, b)
  PROVE  PartOf(m, e, b)
BY DEF PartOf

\* read_exposure up to its sleep, for a client whose image is latched.
LEMMA BeginReadBase ==
  ASSUME NEW s, NEW c \in Clients, Base(s, c), now \in Nat, NEW part, Latched(s.d, c)
  PROVE  LET t == BeginRead(s, part)
         IN /\ Base(t, c) /\ Fetched(s.d, t.d)
            /\ t.c.opened = s.c.opened /\ t.c.inbuf = s.c.inbuf
            /\ t.c.mine = s.c.mine /\ t.c.out = s.c.out
<1> DEFINE t == BeginRead(s, part)
           row == IF s.d.row = StartLoad THEN 0 ELSE s.d.row
           e == WithRow(s.d, row)
           r == IF part THEN "part" ELSE "row"
           b == SetRd(s.c, r)
<1>0. s \in States /\ s.d \in Devices /\ s.c \in ClientStates /\ DevInv(s.d) /\ s.d.row \in RowStates
  BY DeviceFields DEF Base, States
<1>1. t = [d |-> e, c |-> b]
  BY SMT DEF BeginRead, WithRow, SetRd
<1>2. row \in RowStates /\ (s.d.row \in 0..Rows => row \in s.d.row..Rows)
  BY <1>0, RowsNat DEF RowStates, StartLoad, EndLoad
<1>3. r \in Doing
  BY DEF Doing, Sleeping
<1> HIDE DEF t, row, r
<1>4. DevInv(e) /\ e.list = s.d.list /\ e.exp = s.d.exp /\ e.row = row /\ e.registered = s.d.registered
  BY <1>0, <1>2, RowChange
<1>5. /\ b \in ClientStates /\ b.mine = s.c.mine /\ b.inbuf = s.c.inbuf /\ b.opened = s.c.opened
      /\ b.out = s.c.out
  BY <1>0, <1>3, SetRdFacts
<1> HIDE DEF e, b
<1>6. t.d = e /\ t.c = b /\ t \in States
  BY <1>1, <1>4, <1>5 DEF States, DevInv
<1>7. PartOf(b.mine, e, c) /\ \A a \in Clients : a # c => PartOf(client[a].mine, e, a)
  BY <1>4, <1>5, PartOfSame DEF Base
<1>8. Latched(e, c) /\ \A a \in Clients : a # c /\ client[a].rd \in Sleeping => Latched(e, a)
  BY <1>4, LatchedSame DEF Base
<1>9. Base(t, c)
  BY <1>4, <1>6, <1>7, <1>8 DEF Base
<1>10. Fetched(s.d, e)
  BY <1>2, <1>4 DEF Fetched
<1> QED BY <1>5, <1>6, <1>9, <1>10 DEF t

LEMMA ReadSInv ==
  ASSUME NEW s, NEW c \in Clients, SInv(s, c), now \in Nat, NEW more, s.c.rd \in Sleeping
  PROVE  LET t == ReadExposure(s, more)
         IN /\ SInv(t, c) /\ Fetched(s.d, t.d)
            /\ t.c.opened = s.c.opened /\ t.c.inbuf = s.c.inbuf
<1> DEFINE t == ReadExposure(s, more)
           x == Head(s.d.list)
           next == s.d.row + 1
<1>0. /\ s.d \in Devices /\ s.c \in ClientStates /\ s \in States
      /\ s.c.mine \in Seq(Ids) /\ s.d.list \in Seq(Ids) /\ Allocated(s.d) /\ DevInv(s.d)
      /\ PartOf(s.c.mine, s.d, c) /\ s.d.row \in RowStates /\ Rows \in Nat
  <2>1. s.d \in Devices
    BY SInvFields
  <2>2. Rows \in Nat
    BY CcdAssumption, SMT
  <2>3. DevInv(s.d) /\ PartOf(s.c.mine, s.d, c)
    BY DEF SInv, Base
  <2> QED BY <2>1, <2>2, <2>3, SInvFields, DeviceFields
<1>1. s.d.list # <<>> /\ s.d.exp[x].client = c /\ Latched(s.d, c)
  BY SInvFields DEF Latched, HeadIsOf
<1>2. next \in Nat /\ (next < Rows => next \in RowStates /\ (s.d.row \in 0..Rows => next \in s.d.row..Rows))
  BY <1>0, SMT DEF RowStates, EndLoad
<1>3. CASE next < Rows
  <2> DEFINE e == WithRow(s.d, next)
             o == IF more THEN s.c.rd ELSE "idle"
             b == SetRd(s.c, o)
  <2>1. t = [d |-> e, c |-> b]
    <3> DEFINE e0 == [s.d EXCEPT !.row = next]
               b0 == [s.c EXCEPT !.rd = IF more THEN @ ELSE "idle"]
    <3>1. t = [d |-> e0, c |-> b0]
      BY <1>3, SMT DEF ReadExposure
    <3>2. e0 = e
      <4> HIDE DEF next
      <4> QED BY SMT DEF WithRow
    <3>3. b0 = b
      BY SMT DEF SetRd
    <3> HIDE DEF t, e, e0, b, b0
    <3> QED BY <3>1, <3>2, <3>3
  <2> HIDE DEF t, next
  <2>2. DevInv(e) /\ e.list = s.d.list /\ e.exp = s.d.exp /\ e.row = next /\ e.registered = s.d.registered
    BY <1>0, <1>2, <1>3, RowChange
  <2> HIDE DEF e
  <2>3. /\ b \in ClientStates /\ b.mine = s.c.mine /\ b.inbuf = s.c.inbuf /\ b.opened = s.c.opened
        /\ b.out = s.c.out
    <3>1. o \in Doing
      BY DEF Doing, Sleeping
    <3> HIDE DEF o
    <3> QED BY <1>0, <3>1, SetRdFacts
  <2> HIDE DEF b
  <2>4. t.d = e /\ t.c = b /\ t \in States
    BY <1>0, <2>1, <2>2, <2>3 DEF States, DevInv
  <2>5. PartOf(b.mine, e, c) /\ \A a \in Clients : a # c => PartOf(client[a].mine, e, a)
    BY <1>0, <2>2, <2>3, PartOfSame DEF SInv, Base
  <2>6. Latched(e, c) /\ \A a \in Clients : a # c /\ client[a].rd \in Sleeping => Latched(e, a)
    BY <1>1, <2>2, LatchedSame DEF SInv, Base
  <2>7. Fetched(s.d, e)
    BY <1>2, <1>3, <2>2 DEF Fetched
  <2>8. SInv(t, c)
    <3>1. t.c.out <= OutCap
      BY <2>3, <2>4, SInvFields
    <3> QED BY <2>2, <2>4, <2>5, <2>6, <3>1 DEF SInv, Base
  <2> QED BY <2>3, <2>4, <2>7, <2>8 DEF t
<1>4. CASE ~(next < Rows)
  <2> DEFINE e == WithRow(s.d, EndLoad)
             f == DelAndFree(e, x)
             mine == RemoveFirst(s.c.mine, x)
             b1 == SetMine(s.c, mine)
             b0 == SetRd(b1, "idle")
  <2>1. t = [d |-> f, c |-> b0]
    <3> DEFINE e0 == [s.d EXCEPT !.row = EndLoad]
               c0 == [s.c EXCEPT !.mine = RemoveFirst(@, x), !.rd = "idle"]
    <3>1. t = [d |-> DelAndFree(e0, x), c |-> c0]
      BY <1>4, SMT DEF ReadExposure
    <3>2. e0 = e
      BY SMT DEF WithRow
    <3>3. c0 = b0
      <4> HIDE DEF x
      <4> QED BY SMT DEF SetMine, SetRd
    <3> HIDE DEF t, e, e0, c0, b0
    <3> QED BY <3>1, <3>2, <3>3
  <2> HIDE DEF t, next
  <2>2. DevInv(e) /\ e.list = s.d.list /\ e.exp = s.d.exp /\ e.registered = s.d.registered
    <3>1. EndLoad \in RowStates
      BY DEF RowStates
    <3> QED BY <1>0, <3>1, RowChange
  <2> HIDE DEF e
  <2>3. x \in ToSet(s.d.list) /\ x \in Ids
    <3>1. 1 \in DOMAIN s.d.list /\ x = s.d.list[1] /\ s.d.list[1] \in Ids
      BY <1>0, <1>1
    <3> QED BY <3>1 DEF ToSet
  <2>4. DevInv(f) /\ Shrunk(e, f, {x})
    BY <2>2, <2>3, DelAndFreeFacts
  <2> HIDE DEF f
  <2>5. PartOf(s.c.mine, e, c) /\ \A b \in Clients : b # c => PartOf(client[b].mine, e, b)
    BY <1>0, <2>2, PartOfSame DEF SInv, Base
  <2>6. mine \in Seq(Ids) /\ PartOf(mine, f, c)
    <3>1. e.list \in Seq(Ids) /\ IsInjective(e.list) /\ x \in ToSet(e.list) /\ e.exp[x].client = c
      BY <1>0, <1>1, <2>2, <2>3 DEF Allocated
    <3> HIDE DEF x
    <3> QED BY <1>0, <2>4, <2>5, <3>1, ReadPartOf
  <2> HIDE DEF mine
  <2>7. /\ b0 \in ClientStates /\ b0.mine = mine /\ b0.inbuf = s.c.inbuf /\ b0.opened = s.c.opened
        /\ b0.out = s.c.out /\ b0.rd \notin Sleeping
    <3>1. /\ b1 \in ClientStates /\ b1.mine = mine /\ b1.inbuf = s.c.inbuf /\ b1.opened = s.c.opened
          /\ b1.out = s.c.out
      BY <1>0, <2>6, SetMineFacts
    <3> HIDE DEF b1
    <3>2. "idle" \in Doing /\ "idle" \notin Sleeping
      BY DEF Doing, Sleeping
    <3> QED BY <3>1, <3>2, SetRdFacts
  <2> HIDE DEF b0
  <2>8. t.d = f /\ t.c = b0 /\ t \in States
    BY <2>1, <2>4, <2>7 DEF States, DevInv
  <2>9. ASSUME NEW b \in Clients, b # c PROVE PartOf(client[b].mine, f, b)
    <3>1. e.exp[x].client # b
      BY <1>1, <2>2, <2>9
    <3> QED BY <2>4, <2>5, <2>9, <3>1, ShrunkPartOf
  <2>10. Fetched(s.d, f)
    BY <2>4 DEF Fetched, Shrunk
  <2>11. SInv(t, c)
    <3>1. f.registered = dev.registered
      BY <2>2, <2>4 DEF Shrunk, SInv, Base
    <3>2. t.c.out <= OutCap
      BY <2>7, <2>8, SInvFields
    <3>3. \A b \in Clients : b # c => client[b].rd \notin Sleeping
      BY <1>1 DEF SInv, Base, Latched, HeadIsOf
    <3> QED BY <2>4, <2>6, <2>7, <2>8, <2>9, <3>1, <3>2, <3>3 DEF SInv, Base
  <2> QED BY <2>7, <2>8, <2>10, <2>11 DEF t
<1> QED BY <1>3, <1>4

LEMMA ReadPartBase ==
  ASSUME NEW s, NEW c \in Clients, SInv(s, c), now \in Nat, NEW wide \in BOOLEAN, s.c.rd \in Sleeping
  PROVE  LET t == ReadPart(s, wide)
         IN /\ Base(t, c) /\ (t.c.out <= OutCap \/ t.d.bug) /\ Fetched(s.d, t.d)
            /\ t.c.opened = s.c.opened /\ t.c.inbuf = s.c.inbuf
<1> DEFINE t == ReadPart(s, wide)
           u == ReadExposure(s, FALSE)
           v == IF wide THEN OutCap + 1 ELSE OutCap
           b == SetOut(u.c, v)
           g == u.d.bug \/ wide
           d == WithBug(u.d, g)
<1>1. t = [d |-> d, c |-> b]
  BY SMT DEF ReadPart, SetOut, WithBug
<1> HIDE DEF u, t
<1>2. SInv(u, c) /\ Fetched(s.d, u.d) /\ u.c.opened = s.c.opened /\ u.c.inbuf = s.c.inbuf
  BY ReadSInv DEF u
<1>3. u.c \in ClientStates /\ u.d \in Devices /\ DevInv(u.d) /\ u.d.bug \in BOOLEAN
  BY <1>2, SInvFields, DeviceFields DEF SInv, Base
<1>4. v \in 0..OutCap + 1 /\ (v <= OutCap \/ wide) /\ g \in BOOLEAN /\ (wide => g)
  <2>1. OutCap \in Nat
    BY CcdAssumption, SMT
  <2>2. v \in 0..OutCap + 1 /\ (v <= OutCap \/ wide)
    BY <2>1
  <2>3. g \in BOOLEAN /\ (wide => g)
    BY <1>3
  <2> QED BY <2>2, <2>3
<1> HIDE DEF v, g
<1>5. /\ b \in ClientStates /\ b.mine = u.c.mine /\ b.inbuf = u.c.inbuf /\ b.opened = u.c.opened
      /\ b.rd = u.c.rd /\ b.out = v
  BY <1>3, <1>4, SetOutFacts
<1>6. /\ d \in Devices /\ d.list = u.d.list /\ d.exp = u.d.exp /\ d.timer = u.d.timer
      /\ d.target = u.d.target /\ d.row = u.d.row /\ d.registered = u.d.registered /\ d.bug = g
  BY <1>3, <1>4, WithBugFacts
<1> HIDE DEF b, d
<1>7. t.d = d /\ t.c = b /\ t \in States
  BY <1>1, <1>5, <1>6 DEF States
<1>8. DevInv(d)
  BY <1>3, <1>6, DevInvSame
<1>9. PartOf(b.mine, d, c) /\ \A a \in Clients : a # c => PartOf(client[a].mine, d, a)
  BY <1>2, <1>5, <1>6, PartOfSame DEF SInv, Base
<1>10. /\ b.rd \in Sleeping => Latched(d, c)
       /\ \A a \in Clients : a # c /\ client[a].rd \in Sleeping => Latched(d, a)
  BY <1>2, <1>5, <1>6, LatchedSame DEF SInv, Base
<1>11. Base(t, c)
  <2>1. d.registered = dev.registered
    BY <1>2, <1>6 DEF SInv, Base
  <2> QED BY <1>7, <1>8, <1>9, <1>10, <2>1 DEF Base
<1>12. Fetched(s.d, d)
  BY <1>2, <1>6 DEF Fetched
<1>13. t.c.out <= OutCap \/ t.d.bug
  BY <1>4, <1>5, <1>6, <1>7
<1> QED BY <1>2, <1>5, <1>7, <1>11, <1>12, <1>13 DEF t

-----------------------------------------------------------------------------
(* The inductive invariant                                                  *)

\* The device and the clients.
Core ==
  /\ DevInv(dev)
  /\ client \in [Clients -> ClientStates]
  /\ \A c \in Clients : Len(client[c].inbuf) <= InCap
  /\ ClientOrder
  /\ \A c \in Clients : client[c].opened \/ client[c].mine = <<>>
  /\ dev.registered \/ dev.list = <<>>
  /\ \A c \in Clients : client[c].out <= OutCap \/ dev.bug
  /\ ReaderHasImage

\* The counters.  The device counts no more open files than there are.
Opened == {c \in Clients : client[c].opened}
Counts ==
  /\ usage \in Nat /\ usage <= Cardinality(Opened)
  /\ camera \in BOOLEAN /\ now \in 0..MaxTime /\ plugs \in 0..Replugs

Inv == Core /\ Counts

LEMMA NowNat == Counts => now \in Nat
BY CcdAssumption, SMT DEF Counts

LEMMA StateSInv ==
  ASSUME Core, Running, NEW c \in Clients
  PROVE  /\ SInv(State(c), c) /\ State(c).d = dev /\ State(c).c = client[c]
         /\ client[c] \in ClientStates /\ State(c) = [d |-> dev, c |-> client[c]]
<1>1. State(c) = [d |-> dev, c |-> client[c]] /\ State(c).d = dev /\ State(c).c = client[c]
  BY DEF State
<1>2. dev \in Devices /\ client[c] \in ClientStates
  BY DEF Core, DevInv
<1>3. State(c) \in States
  BY <1>1, <1>2 DEF States
<1>4. PartOf(client[c].mine, dev, c) /\ \A b \in Clients : b # c => PartOf(client[b].mine, dev, b)
  BY DEF Core, ClientOrder
<1>5. SInv(State(c), c)
  <2>1. client[c].out <= OutCap
    BY DEF Core, Running
  <2>2. \A b \in Clients : client[b].rd \in Sleeping => Latched(dev, b)
    BY DEF Core, ReaderHasImage
  <2> QED BY <1>1, <1>3, <1>4, <2>1, <2>2 DEF SInv, Base, Core
<1> QED BY <1>1, <1>2, <1>5

LEMMA DevInvPrime ==
  ASSUME NEW d, DevInv(d), dev' = d, now' = now
  PROVE  DevInv(dev)'
<1>1. d \in Devices /\ Allocated(d) /\ Steady(d)
  BY DEF DevInv
<1>2. Allocated(dev)'
  BY <1>1 DEF Allocated
<1>3. Steady(dev)'
  BY <1>1 DEF Steady
<1> QED BY <1>1, <1>2, <1>3 DEF DevInv

\* A call that keeps what it relies on keeps the invariant.
LEMMA CallCore ==
  ASSUME Core, Running, NEW c \in Clients, NEW t, Base(t, c), t.c.out <= OutCap \/ t.d.bug, Len(t.c.inbuf) <= InCap,
         t.c.opened \/ t.c.mine = <<>>, dev.registered \/ t.d.list = <<>>,
         Call(c, t), now' = now
  PROVE  Core'
<1>1. client \in [Clients -> ClientStates] /\ t.c \in ClientStates /\ DevInv(t.d) /\ dev' = t.d
  BY DEF Core, Base, Call, States
<1>2. client' = [client EXCEPT ![c] = t.c]
  BY DEF Call
<1>3. /\ client' \in [Clients -> ClientStates] /\ client'[c] = t.c
      /\ \A b \in Clients : b # c => client'[b] = client[b]
  BY <1>1, <1>2
<1>4. DevInv(dev)'
  BY <1>1, DevInvPrime
<1>5. \A b \in Clients : Len(client'[b].inbuf) <= InCap
  BY <1>3 DEF Core
<1>6. \A b \in Clients : client'[b].opened \/ client'[b].mine = <<>>
  BY <1>3 DEF Core
<1>7. \A b \in Clients : PartOf(client'[b].mine, t.d, b)
  <2>1. PartOf(t.c.mine, t.d, c) /\ \A b \in Clients : b # c => PartOf(client[b].mine, t.d, b)
    BY DEF Base
  <2> QED BY <1>3, <2>1
<1>8. ClientOrder'
  BY <1>1, <1>7 DEF ClientOrder, PartOf
<1>9. dev'.registered \/ dev'.list = <<>>
  BY <1>1 DEF Base
<1>10. \A b \in Clients : client'[b].out <= OutCap \/ dev'.bug
  BY <1>1, <1>3 DEF Core, Running
<1>11. ReaderHasImage'
  <2>1. ASSUME NEW b \in Clients, client'[b].rd \in Sleeping PROVE Latched(dev', b)
    BY <1>1, <1>3, <2>1 DEF Base
  <2> QED BY <2>1 DEF ReaderHasImage, Latched, HeadIsOf
<1> QED BY <1>3, <1>4, <1>5, <1>6, <1>8, <1>9, <1>10, <1>11 DEF Core

-----------------------------------------------------------------------------
(* The steps                                                                *)

\* What DownloadUndisturbed says of one step.
Undisturbed ==
  \A x \in Ids :
    /\ dev.row \in 0..Rows /\ dev.list # <<>> /\ Head(dev.list) = x
    /\ dev.exp[x].complete = 1 /\ Contains(dev'.list, x) /\ dev'.exp[x].complete = 1
    => Head(dev'.list) = x /\ dev'.row \in dev.row..Rows

LEMMA ContainsToSet ==
  ASSUME NEW l \in Seq(Ids), NEW x
  PROVE  Contains(l, x) <=> x \in ToSet(l)
BY DEF Contains, ToSet

LEMMA KeptUndisturbed ==
  ASSUME NEW c, Kept(dev, dev', c), dev' \in Devices
  PROVE  Undisturbed
<1>1. dev'.list \in Seq(Ids)
  BY DeviceFields
<1> SUFFICES ASSUME NEW x \in Ids, dev.row \in 0..Rows, dev.list # <<>>, Head(dev.list) = x,
                    dev.exp[x].complete = 1, Contains(dev'.list, x), dev'.exp[x].complete = 1
             PROVE  Head(dev'.list) = x /\ dev'.row \in dev.row..Rows
  BY DEF Undisturbed
<1>2. x \in ToSet(dev'.list)
  BY <1>1, ContainsToSet
<1>3. Head(dev'.list) = x /\ dev'.row = dev.row
  BY <1>2 DEF Kept
<1>4. dev.row \in dev.row..Rows
  BY RowsNat
<1> QED BY <1>3, <1>4

LEMMA FetchedUndisturbed ==
  ASSUME Fetched(dev, dev'), dev' \in Devices
  PROVE  Undisturbed
<1>1. dev'.list \in Seq(Ids)
  BY DeviceFields
<1> SUFFICES ASSUME NEW x \in Ids, dev.row \in 0..Rows, dev.list # <<>>, Head(dev.list) = x,
                    dev.exp[x].complete = 1, Contains(dev'.list, x), dev'.exp[x].complete = 1
             PROVE  Head(dev'.list) = x /\ dev'.row \in dev.row..Rows
  BY DEF Undisturbed
<1>2. x \in ToSet(dev'.list)
  BY <1>1, ContainsToSet
<1> QED BY <1>2 DEF Fetched

\* The step opens and closes no file.
SameOpened == \A b \in Clients : client'[b].opened = client[b].opened

LEMMA CallOpened ==
  ASSUME Core, NEW c \in Clients, NEW t, t.c.opened = client[c].opened, Call(c, t)
  PROVE  SameOpened
BY DEF Core, Call, SameOpened

\* The head of the queue and the row stay.
LEMMA SameUndisturbed ==
  ASSUME dev'.list = dev.list, dev'.row = dev.row
  PROVE  Undisturbed
BY RowsNat DEF Undisturbed

LEMMA OpenStep ==
  ASSUME Core, NEW c \in Clients, ccd_open(c)
  PROVE  Core' /\ Undisturbed
<1> DEFINE b == [opened |-> TRUE, mine |-> <<>>, inbuf |-> <<>>, out |-> 0, rd |-> "idle"]
           t == [d |-> dev, c |-> b]
<1>1. dev' = dev /\ client' = [client EXCEPT ![c] = b] /\ now' = now /\ ~client[c].opened /\ dev.registered /\ Running
  BY DEF ccd_open
<1>2. /\ b \in ClientStates /\ b.mine = <<>> /\ b.inbuf = <<>> /\ b.opened = TRUE
      /\ b.out <= OutCap /\ b.rd \notin Sleeping
  <2>1. 0 \in 0..OutCap + 1 /\ 0 <= OutCap
    BY CcdAssumption, SMT
  <2> QED BY <2>1 DEF ClientStates, Doing, Sleeping
<1> HIDE DEF b
<1>3. client[c].mine = <<>>
  BY <1>1 DEF Core
<1>4. SInv(t, c) /\ t.d = dev /\ t.c = b
  BY <1>1, <1>2, <1>3, StateSInv, ClientChange
<1> HIDE DEF t
<1>5. Call(c, t)
  BY <1>1, <1>4 DEF Call
<1>6. Len(t.c.inbuf) <= InCap
  <2>1. InCap \in Nat
    BY CcdAssumption, SMT
  <2> QED BY <1>2, <1>4, <2>1
<1>7. Core'
  BY <1>1, <1>2, <1>4, <1>5, <1>6, CallCore DEF SInv
<1> QED BY <1>1, <1>7, SameUndisturbed

LEMMA CloseStep ==
  ASSUME Core, now \in Nat, NEW c \in Clients, ccd_close(c)
  PROVE  Core' /\ Undisturbed /\ \A b \in Clients : client'[b].opened = (b # c /\ client[b].opened)
<1> DEFINE s == AbortExposures(State(c), c)
           b == [s.c EXCEPT !.opened = FALSE, !.inbuf = <<>>, !.out = 0]
           t == [s EXCEPT !.c = b]
<1>1. Call(c, t) /\ now' = now /\ Running /\ client[c].rd \notin Sleeping
  BY SMT DEF ccd_close, Sleeping
<1>2. b = SetOut(SetInbuf(SetOpened(s.c, FALSE), <<>>), 0)
  BY SMT DEF SetOut, SetInbuf, SetOpened
<1> HIDE DEF s
<1>3. /\ SInv(s, c) /\ s.c.mine = <<>>
      /\ \A d : Kept(d, dev, c) => Kept(d, s.d, c)
      /\ s.c.rd \notin Sleeping
  BY <1>1, StateSInv, AbortSInv DEF s
<1>4. s \in States /\ s.c \in ClientStates
  BY <1>3, SInvFields
<1> HIDE DEF b
<1>5. /\ b \in ClientStates /\ b.mine = <<>> /\ b.inbuf = <<>> /\ b.opened = FALSE
      /\ b.out <= OutCap /\ b.rd \notin Sleeping
  <2> DEFINE b1 == SetOpened(s.c, FALSE)
             b2 == SetInbuf(b1, <<>>)
  <2>0. 0 \in 0..OutCap + 1 /\ 0 <= OutCap /\ <<>> \in Seq(Messages) /\ FALSE \in BOOLEAN
    BY CcdAssumption, SMT
  <2>1. b1 \in ClientStates /\ b1.mine = <<>> /\ b1.opened = FALSE /\ b1.rd = s.c.rd
    BY <1>3, <1>4, <2>0, SetOpenedFacts
  <2> HIDE DEF b1
  <2>2. /\ b2 \in ClientStates /\ b2.mine = <<>> /\ b2.inbuf = <<>> /\ b2.opened = FALSE
        /\ b2.rd = s.c.rd
    BY <2>0, <2>1, SetInbufFacts
  <2> HIDE DEF b2
  <2>3. b = SetOut(b2, 0)
    BY <1>2 DEF b2, b1
  <2> QED BY <1>3, <2>0, <2>2, <2>3, SetOutFacts
<1>6. SInv(t, c) /\ t.d = s.d /\ t.c = b
  <2>1. t = [d |-> s.d, c |-> b]
    BY <1>4, ClientSet
  <2> HIDE DEF t
  <2>2. b.mine = s.c.mine
    BY <1>3, <1>5
  <2> QED BY <1>3, <1>5, <2>1, <2>2, ClientChange
<1> HIDE DEF t
<1>7. Len(t.c.inbuf) <= InCap
  <2>1. InCap \in Nat
    BY CcdAssumption, SMT
  <2> QED BY <1>5, <1>6, <2>1
<1>8. dev.registered \/ t.d.list = <<>>
  <2>1. CASE dev.list = <<>>
    <3>1. Shrunk(dev, s.d, ToSet(client[c].mine))
      <4>1. State(c) \in States /\ DevInv(State(c).d) /\ ToSet(State(c).c.mine) \subseteq ToSet(State(c).d.list)
        BY <1>1, StateSInv, SInvFields DEF SInv, Base
      <4> QED BY <1>1, <4>1, StateSInv, AbortFacts DEF s
    <3>2. ToSet(s.d.list) = {}
      <4>1. ToSet(dev.list) = {}
        BY <2>1 DEF ToSet
      <4> QED BY <3>1, <4>1 DEF Shrunk
    <3>3. s.d.list \in Seq(Ids)
      BY <1>3, SInvFields
    <3>4. s.d.list = <<>>
      <4>1. SUFFICES ASSUME s.d.list # <<>> PROVE FALSE
        OBVIOUS
      <4>2. 1 \in DOMAIN s.d.list
        BY <3>3, <4>1
      <4>3. s.d.list[1] \in ToSet(s.d.list)
        BY <4>2 DEF ToSet
      <4> QED BY <3>2, <4>3
    <3> QED BY <1>6, <3>4
  <2>2. CASE dev.list # <<>>
    BY <2>2 DEF Core
  <2> QED BY <2>1, <2>2
<1>9. Core'
  BY <1>1, <1>5, <1>6, <1>7, <1>8, CallCore DEF SInv
<1>10. Undisturbed
  <2>1. Kept(dev, dev, c)
    BY DEF Kept
  <2>2. Kept(dev, s.d, c) /\ dev' = s.d
    BY <1>1, <1>3, <1>6, <2>1 DEF Call
  <2>3. dev' \in Devices
    BY <1>9 DEF Core, DevInv
  <2>4. Kept(dev, dev', c)
    BY <2>2
  <2> QED BY <2>3, <2>4, KeptUndisturbed
<1>11. ASSUME NEW a \in Clients PROVE client'[a].opened = (a # c /\ client[a].opened)
  <2>1. client' = [client EXCEPT ![c] = b] /\ client \in [Clients -> ClientStates]
    BY <1>1, <1>6 DEF Call, Core
  <2>2. CASE a = c
    BY <1>5, <2>1, <2>2
  <2>3. CASE a # c
    <3>1. client[a].opened \in BOOLEAN
      BY <2>1, ClientFields
    <3> QED BY <2>1, <2>3, <3>1
  <2> QED BY <2>2, <2>3
<1> QED BY <1>9, <1>10, <1>11

LEMMA WriteStep ==
  ASSUME Core, now \in Nat, NEW c \in Clients, NEW m \in Messages, ccd_write(c, m)
  PROVE  Core' /\ Undisturbed /\ SameOpened
<1> DEFINE lost == \E i \in DOMAIN client[c].inbuf : client[c].inbuf[i].op = "garbage"
           msgs == IF Len(client[c].inbuf) < InCap /\ ~lost THEN Append(client[c].inbuf, m)
                   ELSE client[c].inbuf
           t == ParseBinaryMsg(State(c), c, msgs)
<1>1. Call(c, t) /\ now' = now /\ dev.registered /\ client[c].opened /\ Running
  BY DEF ccd_write
<1>2. msgs \in Seq(Messages) /\ Len(msgs) <= InCap /\ Len(msgs) \in Nat /\ InCap \in Nat
  <2>1. client[c].inbuf \in Seq(Messages)
    BY <1>1, StateSInv, ClientFields
  <2>2. InCap \in Nat
    BY CcdAssumption, SMT
  <2>3. Len(client[c].inbuf) <= InCap
    BY DEF Core
  <2> HIDE DEF lost
  <2> QED BY <2>1, <2>2, <2>3
<1> HIDE DEF msgs
<1>3. /\ SInv(t, c) /\ t.c.opened = client[c].opened /\ Len(t.c.inbuf) <= Len(msgs)
      /\ \A d : Kept(d, dev, c) => Kept(d, t.d, c)
  BY <1>1, <1>2, StateSInv, ParseBinaryMsgSInv
<1> HIDE DEF t
<1>4. Len(t.c.inbuf) <= InCap
  <2>1. t.c.inbuf \in Seq(Messages)
    BY <1>3, SInvFields
  <2>2. Len(t.c.inbuf) \in Nat
    BY <2>1
  <2> QED BY <1>2, <1>3, <2>2
<1>5. Core'
  BY <1>1, <1>3, <1>4, CallCore DEF SInv
<1>6. Undisturbed
  <2>1. Kept(dev, dev, c)
    BY DEF Kept
  <2>2. Kept(dev, dev', c)
    BY <1>1, <1>3, <2>1 DEF Call
  <2>3. dev' \in Devices
    BY <1>5 DEF Core, DevInv
  <2> QED BY <2>2, <2>3, KeptUndisturbed
<1>7. SameOpened
  BY <1>1, <1>3, CallOpened
<1> QED BY <1>5, <1>6, <1>7

\* Client c changes, and neither its list nor the device.
LEMMA ClientStep ==
  ASSUME Core, Running, NEW c \in Clients, NEW b \in ClientStates, b.mine = client[c].mine,
         b.out <= OutCap, b.rd \notin Sleeping, b.inbuf = client[c].inbuf, b.opened = client[c].opened,
         dev' = dev, client' = [client EXCEPT ![c] = b], now' = now
  PROVE  Core' /\ Undisturbed /\ SameOpened
<1> DEFINE t == [d |-> dev, c |-> b]
<1>1. SInv(t, c) /\ t.d = dev /\ t.c = b
  BY StateSInv, ClientChange
<1> HIDE DEF t
<1>2. Call(c, t)
  BY <1>1 DEF Call
<1>3. Len(t.c.inbuf) <= InCap
  BY <1>1 DEF Core
<1>4. (t.c.opened \/ t.c.mine = <<>>) /\ (dev.registered \/ t.d.list = <<>>)
  BY <1>1 DEF Core
<1>5. Core'
  BY <1>1, <1>2, <1>3, <1>4, CallCore DEF SInv
<1>6. SameOpened
  BY <1>1, <1>2, CallOpened
<1> QED BY <1>5, <1>6, SameUndisturbed

\* Client c reads from its image at the head of the queue.
LEMMA FetchStep ==
  ASSUME Core, Running, now \in Nat, NEW c \in Clients, NEW t, Base(t, c), t.c.out <= OutCap \/ t.d.bug,
         Fetched(dev, t.d), t.c.opened = client[c].opened, t.c.inbuf = client[c].inbuf,
         Latched(dev, c), Call(c, t), now' = now
  PROVE  Core' /\ Undisturbed /\ SameOpened
<1>1. dev.list # <<>> /\ dev.exp[Head(dev.list)].client = c
  BY DEF Latched, HeadIsOf
<1>2. Len(t.c.inbuf) <= InCap
  BY DEF Core
<1>3. client[c].opened
  <2>1. dev.list \in Seq(Ids)
    BY DeviceFields DEF Core, DevInv
  <2>2. Head(dev.list) \in ToSet(dev.list)
    <3>1. 1 \in DOMAIN dev.list /\ Head(dev.list) = dev.list[1]
      BY <1>1, <2>1
    <3> QED BY <3>1 DEF ToSet
  <2>3. Head(dev.list) \in ToSet(client[c].mine)
    BY <1>1, <2>2 DEF Core, ClientOrder, PartOf
  <2>4. client[c].mine # <<>>
    BY <2>3 DEF ToSet
  <2> QED BY <2>4 DEF Core
<1>4. t.c.opened /\ dev.registered
  BY <1>1, <1>3 DEF Core
<1>5. Core'
  BY <1>2, <1>4, CallCore
<1>6. Undisturbed
  <2>1. Fetched(dev, dev')
    BY DEF Call
  <2>2. dev' \in Devices
    BY <1>5 DEF Core, DevInv
  <2> QED BY <2>1, <2>2, FetchedUndisturbed
<1>7. SameOpened
  BY CallOpened
<1> QED BY <1>5, <1>6, <1>7

\* Client c's read goes to sleep in read_row.
LEMMA BeginStep ==
  ASSUME Core, Running, now \in Nat, NEW c \in Clients, NEW s, SInv(s, c),
         s.d.list = dev.list, s.d.exp = dev.exp, s.d.row = dev.row,
         s.c.opened = client[c].opened, s.c.inbuf = client[c].inbuf,
         NEW part, Latched(dev, c), Call(c, BeginRead(s, part)), now' = now
  PROVE  Core' /\ Undisturbed /\ SameOpened
<1> DEFINE t == BeginRead(s, part)
<1>1. Latched(s.d, c)
  BY LatchedSame
<1>2. /\ Base(t, c) /\ Fetched(s.d, t.d) /\ t.c.opened = s.c.opened /\ t.c.inbuf = s.c.inbuf
      /\ t.c.out = s.c.out
  BY <1>1, BeginReadBase DEF SInv
<1>3. Call(c, t)
  OBVIOUS
<1> HIDE DEF t
<1>4. Fetched(dev, t.d)
  BY <1>2 DEF Fetched
<1>5. t.c.out <= OutCap
  BY <1>2 DEF SInv
<1> QED BY <1>2, <1>3, <1>4, <1>5, FetchStep

LEMMA ReadStep ==
  ASSUME Core, now \in Nat, NEW c \in Clients, NEW part \in BOOLEAN, ccd_read(c, part)
  PROVE  Core' /\ Undisturbed /\ SameOpened
<1>0. Running /\ now' = now /\ client[c].rd = "idle"
  BY DEF ccd_read
<1>1. client[c] \in ClientStates
  BY <1>0, StateSInv
<1>2. client[c].out \in 0..OutCap /\ OutCap \in Nat
  <2>1. OutCap \in Nat
    BY CcdAssumption, SMT
  <2>2. client[c].out \in 0..OutCap + 1
    BY <1>1, ClientFields
  <2>3. client[c].out <= OutCap
    BY <1>0 DEF Core, Running
  <2> QED BY <2>1, <2>2, <2>3
<1>3. CASE \E left \in 0..client[c].out - 1 :
             client' = [client EXCEPT ![c].out = left] /\ UNCHANGED dev
  <2>1. PICK left \in 0..client[c].out - 1 :
          client' = [client EXCEPT ![c].out = left] /\ UNCHANGED dev
    BY <1>3
  <2>2. left \in 0..OutCap + 1 /\ left <= OutCap
    BY <1>2
  <2> DEFINE b == SetOut(client[c], left)
  <2>3. client' = [client EXCEPT ![c] = b] /\ dev' = dev
    BY <2>1 DEF SetOut
  <2>4. /\ b \in ClientStates /\ b.mine = client[c].mine
        /\ b.inbuf = client[c].inbuf /\ b.opened = client[c].opened
        /\ b.out = left /\ b.rd = client[c].rd
    BY <1>1, <2>2, SetOutFacts
  <2> HIDE DEF b
  <2>5. b.out <= OutCap /\ b.rd \notin Sleeping
    BY <1>0, <2>2, <2>4 DEF Sleeping
  <2> QED BY <1>0, <2>3, <2>4, <2>5, ClientStep
<1>4. CASE Latched(dev, c) /\ Call(c, BeginRead(State(c), part))
  <2> DEFINE s == State(c)
  <2>1. SInv(s, c) /\ s.d = dev /\ s.c = client[c]
    BY <1>0, StateSInv
  <2>2. Call(c, BeginRead(s, part))
    BY <1>4
  <2> HIDE DEF s
  <2> QED BY <1>0, <1>4, <2>1, <2>2, BeginStep
<1>5. CASE client' = [client EXCEPT ![c].rd = "wait"] /\ UNCHANGED dev
  <2> DEFINE b == SetRd(client[c], "wait")
  <2>1. client' = [client EXCEPT ![c] = b] /\ dev' = dev
    BY <1>5 DEF SetRd
  <2>2. "wait" \in Doing /\ "wait" \notin Sleeping
    BY DEF Doing, Sleeping
  <2>3. /\ b \in ClientStates /\ b.mine = client[c].mine
        /\ b.inbuf = client[c].inbuf /\ b.opened = client[c].opened
        /\ b.out = client[c].out /\ b.rd = "wait"
    BY <1>1, <2>2, SetRdFacts
  <2> HIDE DEF b
  <2>4. b.out <= OutCap
    BY <1>2, <2>3
  <2> QED BY <1>0, <2>1, <2>2, <2>3, <2>4, ClientStep
<1> QED BY <1>3, <1>4, <1>5 DEF ccd_read

LEMMA RowStep ==
  ASSUME Core, now \in Nat, NEW c \in Clients, NEW more, read_row(c, more)
  PROVE  Core' /\ Undisturbed /\ SameOpened
<1> DEFINE s == State(c)
           t == ReadExposure(s, more)
<1>1. Running /\ now' = now /\ client[c].rd \in Sleeping /\ Call(c, t)
  BY DEF read_row, Sleeping
<1>2. SInv(s, c) /\ s.d = dev /\ s.c = client[c]
  BY <1>1, StateSInv
<1> HIDE DEF s
<1>3. SInv(t, c) /\ Fetched(s.d, t.d) /\ t.c.opened = s.c.opened /\ t.c.inbuf = s.c.inbuf
  BY <1>1, <1>2, ReadSInv
<1> HIDE DEF t
<1>4. Latched(dev, c)
  BY <1>1 DEF Core, ReaderHasImage
<1>5. Base(t, c) /\ t.c.out <= OutCap
  BY <1>3 DEF SInv
<1> QED BY <1>1, <1>2, <1>3, <1>4, <1>5, FetchStep

LEMMA PartStep ==
  ASSUME Core, now \in Nat, NEW c \in Clients, NEW wide \in BOOLEAN, read_part(c, wide)
  PROVE  Core' /\ Undisturbed /\ SameOpened
<1> DEFINE s == State(c)
           t == ReadPart(s, wide)
<1>1. Running /\ now' = now /\ client[c].rd \in Sleeping /\ Call(c, t)
  BY DEF read_part, Sleeping
<1>2. SInv(s, c) /\ s.d = dev /\ s.c = client[c]
  BY <1>1, StateSInv
<1> HIDE DEF s
<1>3. /\ Base(t, c) /\ (t.c.out <= OutCap \/ t.d.bug) /\ Fetched(s.d, t.d)
      /\ t.c.opened = s.c.opened /\ t.c.inbuf = s.c.inbuf
  BY <1>1, <1>2, ReadPartBase
<1> HIDE DEF t
<1>4. Latched(dev, c)
  BY <1>1 DEF Core, ReaderHasImage
<1> QED BY <1>1, <1>2, <1>3, <1>4, FetchStep

\* A call that leaves the queue, the download and the client's lists alone.
LEMMA QuietStep ==
  ASSUME Core, Running, NEW c \in Clients, NEW t, SInv(t, c), t.d.list = dev.list, t.d.row = dev.row,
         t.c.mine = client[c].mine, t.c.inbuf = client[c].inbuf, t.c.opened = client[c].opened,
         Call(c, t), now' = now
  PROVE  Core' /\ Undisturbed /\ SameOpened
<1>1. Len(t.c.inbuf) <= InCap
  BY DEF Core
<1>2. (t.c.opened \/ t.c.mine = <<>>) /\ (dev.registered \/ t.d.list = <<>>)
  BY DEF Core
<1>3. Core'
  BY <1>1, <1>2, CallCore DEF SInv
<1>4. dev'.list = dev.list /\ dev'.row = dev.row
  BY DEF Call
<1>5. SameOpened
  BY CallOpened
<1> QED BY <1>3, <1>4, <1>5, SameUndisturbed

LEMMA WaitStep ==
  ASSUME Core, now \in Nat, NEW c \in Clients, NEW part \in BOOLEAN, NEW signal,
         wait_event(c, part, signal)
  PROVE  Core' /\ Undisturbed /\ SameOpened
<1> DEFINE s == [State(c) EXCEPT !.d.woken = @ \ {c}]
           d == WithWoken(dev, dev.woken \ {c})
           rd(r) == [s EXCEPT !.c.rd = r]
<1>0. Running /\ client[c].rd = "wait"
  BY DEF wait_event
<1>1. /\ SInv(State(c), c) /\ State(c).d = dev /\ State(c).c = client[c]
      /\ client[c] \in ClientStates /\ State(c) = [d |-> dev, c |-> client[c]]
  BY <1>0, StateSInv
<1>2. dev \in Devices /\ DevInv(dev)
  BY DEF Core, DevInv
<1>3. /\ d \in Devices /\ d.list = dev.list /\ d.exp = dev.exp /\ d.row = dev.row
      /\ d.timer = dev.timer /\ d.target = dev.target /\ d.registered = dev.registered
  <2>1. dev.woken \ {c} \in SUBSET Clients
    BY <1>2, DeviceFields
  <2> QED BY <1>2, <2>1, WithWokenFacts
<1>4. s = [d |-> d, c |-> client[c]]
  BY <1>1, SMT DEF WithWoken
<1> HIDE DEF d
<1>5. SInv(s, c) /\ s.d = d /\ s.c = client[c]
  <2>1. DevInv(d)
    BY <1>2, <1>3, DevInvSame
  <2>2. s \in States /\ s.d = d /\ s.c = client[c]
    BY <1>1, <1>3, <1>4 DEF States
  <2>3. PartOf(client[c].mine, d, c)
    BY <1>1, <1>3, PartOfSame DEF SInv, Base
  <2>4. ASSUME NEW b \in Clients, b # c PROVE PartOf(client[b].mine, d, b)
    <3>1. PartOf(client[b].mine, dev, b)
      BY <1>1, <2>4 DEF SInv, Base
    <3> QED BY <1>3, <3>1, PartOfSame
  <2>5. /\ \A b \in Clients : b # c /\ client[b].rd \in Sleeping => Latched(d, b)
        /\ client[c].rd \notin Sleeping /\ client[c].out <= OutCap
    BY <1>0, <1>1, <1>3, LatchedSame DEF SInv, Base, Sleeping
  <2> HIDE DEF s
  <2> QED BY <1>3, <2>1, <2>2, <2>3, <2>4, <2>5 DEF SInv, Base
<1>6. ASSUME NEW r \in {"idle", "oops"}
      PROVE  /\ SInv(rd(r), c) /\ rd(r).d = d /\ rd(r).c.mine = client[c].mine
             /\ rd(r).c.inbuf = client[c].inbuf /\ rd(r).c.opened = client[c].opened
  <2> HIDE DEF s
  <2> DEFINE b == SetRd(client[c], r)
             t == rd(r)
  <2>1. s \in States
    BY <1>5 DEF SInv, Base
  <2>2. t = [d |-> s.d, c |-> b]
    BY <1>5, <2>1 DEF SetRd, States
  <2> HIDE DEF t
  <2>0. r \in Doing /\ r \notin Sleeping
    BY DEF Doing, Sleeping
  <2>3. /\ b \in ClientStates /\ b.mine = client[c].mine
        /\ b.inbuf = client[c].inbuf /\ b.opened = client[c].opened
        /\ b.out = client[c].out /\ b.rd = r
    BY <1>1, <2>0, SetRdFacts
  <2> HIDE DEF b
  <2>4. SInv(t, c) /\ t.d = s.d /\ t.c = b
    BY <1>5, <2>0, <2>2, <2>3, SInvFields, ClientChange
  <2>5. /\ SInv(t, c) /\ t.d = d /\ t.c.mine = client[c].mine
        /\ t.c.inbuf = client[c].inbuf /\ t.c.opened = client[c].opened
    BY <1>5, <2>3, <2>4
  <2> QED BY <2>5 DEF t
<1>7. now' = now
  BY DEF wait_event
<1>8. \/ Call(c, rd("oops")) \/ Call(c, rd("idle")) \/ Call(c, s)
      \/ Latched(dev, c) /\ Call(c, BeginRead(s, part))
  BY DEF wait_event
<1> HIDE DEF s, rd
<1>9. ASSUME NEW t, SInv(t, c), t.d = d, t.c.mine = client[c].mine,
             t.c.inbuf = client[c].inbuf, t.c.opened = client[c].opened, Call(c, t)
      PROVE  Core' /\ Undisturbed /\ SameOpened
  BY <1>0, <1>3, <1>7, <1>9, QuietStep
<1>10. CASE Call(c, rd("oops"))
  <2> DEFINE t == rd("oops")
  <2>1. /\ SInv(t, c) /\ t.d = d /\ t.c.mine = client[c].mine
        /\ t.c.inbuf = client[c].inbuf /\ t.c.opened = client[c].opened /\ Call(c, t)
    BY <1>6, <1>10
  <2> HIDE DEF t
  <2> QED BY <1>9, <2>1
<1>11. CASE Call(c, rd("idle"))
  <2> DEFINE t == rd("idle")
  <2>1. /\ SInv(t, c) /\ t.d = d /\ t.c.mine = client[c].mine
        /\ t.c.inbuf = client[c].inbuf /\ t.c.opened = client[c].opened /\ Call(c, t)
    BY <1>6, <1>11
  <2> HIDE DEF t
  <2> QED BY <1>9, <2>1
<1>12. CASE Call(c, s)
  BY <1>5, <1>9, <1>12
<1>13. CASE Latched(dev, c) /\ Call(c, BeginRead(s, part))
  BY <1>0, <1>3, <1>5, <1>7, <1>13, BeginStep
<1> QED BY <1>8, <1>10, <1>11, <1>12, <1>13

\* The device changes, and neither its queue nor the clients.
LEMMA DeviceStep ==
  ASSUME Core, DevInv(dev)', dev'.list = dev.list, dev'.registered = dev.registered,
         \A y \in ToSet(dev.list) : dev'.exp[y].client = dev.exp[y].client, client' = client,
         ~dev.bug \/ dev' = dev, \A c \in Clients : Latched(dev, c) => Latched(dev', c)
  PROVE  Core'
<1>1. ClientOrder'
  <2>1. ASSUME NEW c \in Clients PROVE PartOf(client[c].mine, dev', c)
    <3>1. PartOf(client[c].mine, dev, c)
      BY DEF Core, ClientOrder
    <3> QED BY <3>1 DEF PartOf
  <2> QED BY <2>1 DEF ClientOrder
<1>2. \A c \in Clients : client[c].out <= OutCap \/ dev'.bug
  BY DEF Core
<1>3. ReaderHasImage'
  <2>1. ASSUME NEW c \in Clients, client[c].rd \in Sleeping PROVE Latched(dev', c)
    BY <2>1 DEF Core, ReaderHasImage
  <2> QED BY <2>1 DEF ReaderHasImage, Latched, HeadIsOf
<1> QED BY <1>1, <1>2, <1>3 DEF Core

LEMMA TickStep ==
  ASSUME Core, now \in Nat, Tick
  PROVE  Core' /\ Undisturbed
<1>1. dev' = dev /\ client' = client /\ now' = now + 1
  BY DEF Tick
<1>2. DevInv(dev)'
  <2>1. DevInv(dev) /\ dev \in Devices /\ Allocated(dev) /\ Steady(dev)
    BY DEF Core, DevInv
  <2>2. dev.list # <<>> => dev.exp[Head(dev.list)].end \in Nat
    <3>1. SUFFICES ASSUME dev.list # <<>> PROVE dev.exp[Head(dev.list)].end \in Nat
      OBVIOUS
    <3>2. dev.list \in Seq(Ids)
      BY <2>1, DeviceFields
    <3>3. 1 \in DOMAIN dev.list /\ Head(dev.list) = dev.list[1] /\ dev.list[1] \in Ids
      BY <3>1, <3>2
    <3>4. dev.exp[Head(dev.list)] # None
      BY <2>1, <3>3 DEF Allocated
    <3> QED BY <2>1, <3>3, <3>4, ExposureTypes
  <2>3. Steady(dev)'
    <3>1. ASSUME dev.list # <<>>, dev.exp[Head(dev.list)].complete = 1
          PROVE  dev.exp[Head(dev.list)].end <= now + 1
      <4>1. dev.exp[Head(dev.list)].end <= now
        BY <2>1, <3>1 DEF Steady
      <4> QED BY <2>2, <3>1, <4>1
    <3> QED BY <1>1, <2>1, <3>1 DEF Steady
  <2>4. (dev \in Devices)' /\ Allocated(dev)'
    BY <1>1, <2>1 DEF Allocated
  <2> QED BY <2>3, <2>4 DEF DevInv
<1>3. Core'
  BY <1>1, <1>2, DeviceStep
<1> QED BY <1>1, <1>3, SameUndisturbed

LEMMA CompleteStep ==
  ASSUME Core, now \in Nat, complete_exposure
  PROVE  Core' /\ Undisturbed
<1> DEFINE d == WithTimer(dev, None)
           x == dev.target
           Due == d.exp[x] # None /\ d.list # <<>> /\ d.exp[x].complete = 0 /\ Head(d.list) = x
<1>1. /\ dev' = FinishExposure(d, x) /\ client' = client /\ now' = now
      /\ dev.timer <= now /\ ~dev.bug
  BY DEF complete_exposure, WithTimer, Running
<1>2. dev \in Devices /\ Allocated(dev) /\ Steady(dev)
  BY DEF Core, DevInv
<1>3. /\ d \in Devices /\ d.list = dev.list /\ d.exp = dev.exp /\ d.row = dev.row
      /\ d.target = dev.target /\ d.registered = dev.registered
  <2>1. None \in Expiries
    BY DEF Expiries
  <2> QED BY <1>2, <2>1, WithTimerFacts
<1> HIDE DEF d
<1>4. dev.list \in Seq(Ids)
  BY <1>2, DeviceFields
<1>5. dev.list # <<>> =>
        /\ 1 \in 1..Len(dev.list) /\ Head(dev.list) = dev.list[1] /\ dev.list[1] \in Ids
        /\ dev.exp[Head(dev.list)] # None
  <2>1. SUFFICES ASSUME dev.list # <<>>
                 PROVE  /\ 1 \in 1..Len(dev.list) /\ Head(dev.list) = dev.list[1] /\ dev.list[1] \in Ids
                        /\ dev.exp[Head(dev.list)] # None
    OBVIOUS
  <2>2. 1 \in 1..Len(dev.list) /\ Head(dev.list) = dev.list[1] /\ dev.list[1] \in Ids
    BY <1>4, <2>1
  <2>3. 1 \in DOMAIN dev.list
    BY <1>4, <2>2
  <2> QED BY <1>2, <2>2, <2>3 DEF Allocated
<1>6. CASE Due
  <2>1. x \in Ids /\ dev.list # <<>> /\ Head(dev.list) = x /\ dev.exp[x] # None /\ dev.exp[x].complete = 0
    BY <1>3, <1>5, <1>6
  <2> DEFINE e == FinishExposure(d, x)
  <2>2. /\ e \in Devices /\ SameQueue(d, e)
        /\ e.exp[x].complete = 1 /\ e.exp[x].end = d.exp[x].end
        /\ \A y \in Ids : y # x => e.exp[y] = d.exp[y]
    BY <1>3, <2>1, FinishExposureFacts
  <2>3. dev' = e
    BY <1>1
  <2> HIDE DEF e
  <2>4. e.list = dev.list /\ e.registered = dev.registered
    BY <1>3, <2>2 DEF SameQueue
  <2>5. ASSUME NEW y \in ToSet(dev.list)
        PROVE  y \in Ids /\ dev.exp[y] # None /\ e.exp[y] # None /\ e.exp[y].client = dev.exp[y].client
    <3>1. PICK i \in DOMAIN dev.list : dev.list[i] = y
      BY DEF ToSet
    <3>2. y \in Ids
      BY <1>4, <3>1
    <3>3. dev.exp[y] # None
      BY <1>2, <3>1 DEF Allocated
    <3> QED BY <1>3, <2>2, <3>2, <3>3 DEF SameQueue
  <2>6. Allocated(e)
    <3>1. \A i \in DOMAIN dev.list : dev.list[i] \in ToSet(dev.list)
      BY DEF ToSet
    <3> QED BY <1>2, <2>4, <2>5, <3>1 DEF Allocated
  <2>7. Steady(e)
    <3>1. e.exp[x].end <= now
      BY <1>1, <1>2, <1>3, <2>1, <2>2 DEF Steady
    <3>2. ASSUME NEW i \in 2..Len(e.list) PROVE e.exp[e.list[i]].complete # 1
      <4>1. i \in DOMAIN dev.list /\ i # 1 /\ 1 \in DOMAIN dev.list /\ dev.list[i] \in Ids /\ i \in 2..Len(dev.list)
        BY <1>4, <2>4
      <4>2. dev.list[i] # x
        BY <1>2, <1>5, <2>1, <4>1 DEF Allocated, IsInjective
      <4>3. dev.exp[dev.list[i]].complete # 1
        BY <1>2, <4>1 DEF Steady
      <4> QED BY <1>3, <2>2, <2>4, <4>1, <4>2, <4>3
    <3>3. e.list # <<>> => Head(e.list) = x
      BY <2>1, <2>4
    <3> QED BY <2>2, <3>1, <3>2, <3>3 DEF Steady
  <2>8. DevInv(dev)'
    <3>1. DevInv(e)
      BY <2>2, <2>6, <2>7 DEF DevInv
    <3> QED BY <1>1, <2>3, <3>1, DevInvPrime
  <2>9. Core'
    <3>1. \A c \in Clients : ~Latched(dev, c)
      BY <2>1 DEF Latched, HeadIsOf
    <3> QED BY <1>1, <2>3, <2>4, <2>5, <2>8, <3>1, DeviceStep
  <2>10. Undisturbed
    BY <2>1 DEF Undisturbed
  <2> QED BY <2>9, <2>10
<1>7. CASE ~Due
  <2>1. dev' = d
    BY <1>1, <1>7 DEF FinishExposure
  <2>2. DevInv(d)
    <3>1. Allocated(d)
      BY <1>2, <1>3 DEF Allocated
    <3>2. ~(dev.list # <<>> /\ dev.exp[Head(dev.list)].complete = 0)
      BY <1>2, <1>3, <1>5, <1>7 DEF Steady
    <3>3. Steady(d)
      BY <1>2, <1>3, <3>2 DEF Steady
    <3> QED BY <1>3, <3>1, <3>3 DEF DevInv
  <2>3. DevInv(dev)'
    BY <1>1, <2>1, <2>2, DevInvPrime
  <2>4. Core'
    <3>1. \A c \in Clients : Latched(dev, c) => Latched(dev', c)
      BY <1>3, <2>1, LatchedSame
    <3> QED BY <1>1, <1>3, <2>1, <2>3, <3>1, DeviceStep
  <2> QED BY <1>3, <2>1, <2>4, SameUndisturbed
<1> QED BY <1>6, <1>7

\* An empty queue keeps what is said of the device.
LEMMA EmptyDevInv ==
  ASSUME NEW d \in Devices, d.list = <<>>
  PROVE  DevInv(d)
<1>1. DOMAIN d.list = {} /\ Len(d.list) = 0
  OBVIOUS
<1>2. IsInjective(d.list)
  BY <1>1 DEF IsInjective
<1>3. Allocated(d)
  BY <1>1, <1>2 DEF Allocated
<1>4. Steady(d)
  BY <1>1 DEF Steady
<1> QED BY <1>3, <1>4 DEF DevInv

LEMMA EmptyPartOf ==
  ASSUME NEW d, d.list = <<>>, NEW c
  PROVE  PartOf(<<>>, d, c)
BY DEF PartOf, ToSet

LEMMA UnregisterStep ==
  ASSUME Core, ccd_unregister_device
  PROVE  Core' /\ Undisturbed
<1> DEFINE m == [x \in Ids |-> None]
           d1 == WithRegistered(dev, FALSE)
           d2 == WithList(d1, <<>>)
           d3 == WithRow(d2, EndLoad)
           d4 == WithExp(d3, m)
<1>1. dev' = d4
  <2>1. dev' = [dev EXCEPT !.registered = FALSE, !.list = <<>>, !.row = EndLoad, !.exp = m]
    BY Zenon DEF ccd_unregister_device
  <2> HIDE DEF m
  <2> QED BY <2>1, SMT DEF WithRegistered, WithList, WithRow, WithExp
<1>2. /\ client' = [c \in Clients |-> SetRd(SetMine(client[c], <<>>), CutOff(client[c].rd))]
      /\ now' = now /\ Running
  BY DEF ccd_unregister_device, SetMine, SetRd
<1>3. m \in Memory /\ FALSE \in BOOLEAN /\ <<>> \in Seq(Ids) /\ EndLoad \in RowStates
  BY SMT DEF Memory, RowStates
<1>4. dev \in Devices
  BY DEF Core, DevInv
<1> HIDE DEF m
<1>5. d1 \in Devices /\ d1.registered = FALSE
  BY <1>3, <1>4, WithRegisteredFacts
<1> HIDE DEF d1
<1>6. d2 \in Devices /\ d2.list = <<>>
  BY <1>3, <1>5, WithListFacts
<1> HIDE DEF d2
<1>7. d3 \in Devices /\ d3.list = <<>>
  BY <1>3, <1>6, WithRowFacts
<1> HIDE DEF d3
<1>8. d4 \in Devices /\ d4.list = <<>>
  BY <1>3, <1>7, WithExpFacts
<1> HIDE DEF d4
<1>9. DevInv(dev)'
  BY <1>1, <1>2, <1>8, EmptyDevInv, DevInvPrime
<1>10. ASSUME NEW c \in Clients
       PROVE  /\ client'[c] \in ClientStates /\ client'[c].mine = <<>>
              /\ client'[c].inbuf = client[c].inbuf /\ client'[c].out = client[c].out
              /\ client'[c].rd \notin Sleeping
  <2> DEFINE b == SetMine(client[c], <<>>)
             r == CutOff(client[c].rd)
  <2>1. client[c] \in ClientStates
    BY DEF Core
  <2>2. r \in Doing /\ r \notin Sleeping
    BY <2>1, ClientFields DEF CutOff, Doing, Sleeping
  <2>3. b \in ClientStates /\ b.mine = <<>> /\ b.inbuf = client[c].inbuf /\ b.out = client[c].out
    BY <1>3, <2>1, SetMineFacts
  <2>4. client'[c] = SetRd(b, r)
    BY <1>2
  <2> HIDE DEF b, r
  <2> QED BY <2>2, <2>3, <2>4, SetRdFacts
<1>11. client' \in [Clients -> ClientStates]
  BY <1>2, <1>10
<1>12. ClientOrder'
  <2>1. ASSUME NEW c \in Clients PROVE PartOf(client'[c].mine, dev', c)
    BY <1>1, <1>8, <1>10, EmptyPartOf
  <2> QED BY <2>1 DEF ClientOrder
<1>13. Core'
  <2>1. ReaderHasImage'
    BY <1>10 DEF ReaderHasImage
  <2>2. \A c \in Clients : client'[c].out <= OutCap
    BY <1>2, <1>10 DEF Core, Running
  <2> QED BY <1>1, <1>8, <1>9, <1>10, <1>11, <1>12, <2>1, <2>2 DEF Core
<1>14. Undisturbed
  <2>1. ASSUME NEW x \in Ids PROVE ~Contains(dev'.list, x)
    BY <1>1, <1>8 DEF Contains
  <2> QED BY <2>1 DEF Undisturbed
<1> QED BY <1>13, <1>14

LEMMA RegisterStep ==
  ASSUME Core, ccd_register_device
  PROVE  Core' /\ Undisturbed
<1> DEFINE d1 == WithRegistered(dev, TRUE)
           d2 == WithList(d1, <<>>)
<1>1. dev' = d2 /\ client' = client /\ now' = now /\ ~dev.registered /\ Running
  BY SMT DEF ccd_register_device, WithRegistered, WithList
<1>2. dev \in Devices /\ dev.list = <<>>
  BY <1>1 DEF Core, DevInv
<1>3. d1 \in Devices /\ d1.registered = TRUE
  BY <1>2, WithRegisteredFacts
<1> HIDE DEF d1
<1>4. d2 \in Devices /\ d2.list = <<>> /\ d2.registered = TRUE
  <2>1. <<>> \in Seq(Ids)
    OBVIOUS
  <2> QED BY <1>3, <2>1, WithListFacts
<1> HIDE DEF d2
<1>5. DevInv(dev)'
  BY <1>1, <1>4, EmptyDevInv, DevInvPrime
<1>6. ClientOrder'
  <2>1. ASSUME NEW c \in Clients PROVE PartOf(client'[c].mine, dev', c)
    <3>1. PartOf(client[c].mine, dev, c)
      BY DEF Core, ClientOrder
    <3>2. ToSet(dev.list) = {} /\ ToSet(dev'.list) = {} /\ dev'.list = dev.list /\ client'[c] = client[c]
      BY <1>1, <1>2, <1>4 DEF ToSet
    <3> QED BY <3>1, <3>2 DEF PartOf
  <2> QED BY <2>1 DEF ClientOrder
<1>7. Core'
  <2>1. \A c \in Clients : client[c].rd \notin Sleeping
    BY <1>2 DEF Core, ReaderHasImage, Latched, HeadIsOf
  <2>2. ReaderHasImage'
    BY <1>1, <2>1 DEF ReaderHasImage
  <2>3. \A c \in Clients : client[c].out <= OutCap
    BY <1>1 DEF Core, Running
  <2> QED BY <1>1, <1>4, <1>5, <1>6, <2>2, <2>3 DEF Core
<1>8. Undisturbed
  BY <1>2 DEF Undisturbed
<1> QED BY <1>7, <1>8

-----------------------------------------------------------------------------
(* The counters                                                             *)

LEMMA ClientsFinite == IsFiniteSet(Clients)
<1>1. Clients \subseteq 0..2
  BY CcdAssumption, SMT
<1>2. IsFiniteSet(0..2)
  <2>1. 0 \in Int /\ 2 \in Int
    OBVIOUS
  <2> QED BY <2>1, FS_Interval, Zenon
<1> QED BY <1>1, <1>2, FS_Subset

LEMMA OpenedFinite ==
  /\ IsFiniteSet(Opened) /\ Cardinality(Opened) \in Nat /\ Cardinality(Clients) \in Nat
  /\ Cardinality(Opened) <= Cardinality(Clients)
<1>1. Opened \subseteq Clients
  BY DEF Opened
<1>2. IsFiniteSet(Opened) /\ Cardinality(Opened) <= Cardinality(Clients)
  BY <1>1, ClientsFinite, FS_Subset
<1> QED BY <1>2, ClientsFinite, FS_CardinalityType

LEMMA SameCounts ==
  ASSUME Counts, SameOpened, usage' = usage, camera' = camera, (now \in 0..MaxTime)', (plugs \in 0..Replugs)'
  PROVE  Counts'
<1>1. Opened' = Opened
  BY DEF SameOpened, Opened
<1> QED BY <1>1 DEF Counts

LEMMA OpenCounts ==
  ASSUME Core, Counts, NEW c \in Clients, ccd_open(c)
  PROVE  Counts'
<1>1. ~client[c].opened /\ usage' = usage + 1 /\ camera' = (camera \/ usage = 0) /\ now' = now /\ plugs' = plugs
  BY DEF ccd_open
<1>2. \A b \in Clients : client'[b].opened = (b = c \/ client[b].opened)
  <2>1. client \in [Clients -> ClientStates]
    BY DEF Core
  <2>2. \A b \in Clients : client[b].opened \in BOOLEAN
    BY <2>1, ClientFields
  <2>3. client'[c].opened = TRUE /\ \A b \in Clients : b # c => client'[b] = client[b]
    BY <2>1 DEF ccd_open
  <2> QED BY <2>2, <2>3
<1>3. Opened' = Opened \cup {c} /\ c \notin Opened
  BY <1>1, <1>2 DEF Opened
<1>4. Cardinality(Opened') = Cardinality(Opened) + 1
  <2>1. Cardinality(Opened \cup {c}) = Cardinality(Opened) + 1
    BY <1>3, OpenedFinite, FS_AddElement
  <2> QED BY <1>3, <2>1
<1>5. usage' \in Nat /\ usage' <= Cardinality(Opened')
  BY <1>1, <1>4, OpenedFinite DEF Counts
<1> QED BY <1>1, <1>5 DEF Counts

LEMMA CloseCounts ==
  ASSUME Core, Counts, NEW c \in Clients, ccd_close(c)
  PROVE  Counts'
<1>1. /\ client[c].opened /\ usage' = (IF usage > 0 THEN usage - 1 ELSE 0)
      /\ camera' = (camera /\ usage # 1) /\ now' = now /\ plugs' = plugs
  BY DEF ccd_close
<1>2. \A b \in Clients : client'[b].opened = (b # c /\ client[b].opened)
  BY NowNat, CloseStep
<1>3. Opened' = Opened \ {c} /\ c \in Opened
  BY <1>1, <1>2 DEF Opened
<1>4. Cardinality(Opened') = Cardinality(Opened) - 1 /\ Cardinality(Opened') \in Nat
  <2>1. Cardinality(Opened \ {c}) = Cardinality(Opened) - 1 /\ IsFiniteSet(Opened \ {c})
    BY <1>3, OpenedFinite, FS_RemoveElement
  <2> QED BY <1>3, <2>1, FS_CardinalityType
<1>5. usage' \in Nat /\ usage' <= Cardinality(Opened')
  BY <1>1, <1>4, OpenedFinite DEF Counts
<1> QED BY <1>1, <1>5 DEF Counts

LEMMA UnregisterCounts ==
  ASSUME Core, Counts, ccd_unregister_device
  PROVE  Counts'
<1>1. usage' = 0 /\ camera' = FALSE /\ now' = now /\ plugs' = plugs
  BY DEF ccd_unregister_device
<1>2. Cardinality(Opened)' \in Nat
  <2>1. Opened' \subseteq Clients
    BY DEF Opened
  <2>2. IsFiniteSet(Opened')
    BY <2>1, ClientsFinite, FS_Subset
  <2> QED BY <2>2, FS_CardinalityType
<1>3. usage' \in Nat /\ usage' <= Cardinality(Opened)'
  BY <1>1, <1>2
<1> QED BY <1>1, <1>3 DEF Counts

-----------------------------------------------------------------------------
(* The theorems                                                             *)

LEMMA InvInit == Init => Inv
<1> SUFFICES ASSUME Init PROVE Inv
  OBVIOUS
<1>1. /\ dev.registered = TRUE /\ dev.list = <<>>
      /\ client = [c \in Clients |-> [opened |-> FALSE, mine |-> <<>>, inbuf |-> <<>>, out |-> 0, rd |-> "idle"]]
  BY DEF Init
<1>2. dev \in Devices
  <2>1. [x \in Ids |-> None] \in Memory
    BY DEF Memory
  <2>2. EndLoad \in RowStates /\ <<>> \in Seq(Ids) /\ None \in Expiries /\ None \in Targets
    BY DEF RowStates, Expiries, Targets
  <2> QED BY <2>1, <2>2 DEF Init, Devices
<1>3. DevInv(dev)
  BY <1>1, <1>2, EmptyDevInv
<1>4. /\ InCap \in Nat /\ 0 \in 0..OutCap + 1 /\ 0 <= OutCap /\ MaxTime \in Nat /\ Replugs \in Nat
      /\ 0 \in 0..MaxTime /\ 0 \in 0..Replugs
  BY CcdAssumption, SMT
<1>5. client \in [Clients -> ClientStates] /\ \A c \in Clients : Len(client[c].inbuf) <= InCap
  BY <1>1, <1>4 DEF ClientStates, Doing
<1>6. ASSUME NEW c \in Clients PROVE client[c].mine = <<>> /\ PartOf(client[c].mine, dev, c)
  BY <1>1, EmptyPartOf
<1>7. Core
  <2>1. \A c \in Clients : client[c].out <= OutCap /\ client[c].rd \notin Sleeping
    BY <1>1, <1>4 DEF Sleeping
  <2> QED BY <1>1, <1>3, <1>5, <1>6, <2>1 DEF Core, ClientOrder, ReaderHasImage
<1>8. Counts
  <2>1. usage \in Nat /\ usage <= Cardinality(Opened)
    BY OpenedFinite DEF Init
  <2>2. camera \in BOOLEAN /\ now \in 0..MaxTime /\ plugs \in 0..Replugs
    BY <1>4 DEF Init
  <2> QED BY <2>1, <2>2 DEF Counts
<1> QED BY <1>7, <1>8 DEF Inv

LEMMA InvNext ==
  ASSUME Inv, [Next]_vars
  PROVE  Inv' /\ (Undisturbed \/ UNCHANGED vars)
<1>1. Core /\ Counts /\ now \in Nat
  BY NowNat DEF Inv
<1>2. ASSUME NEW c \in Clients, ccd_open(c) PROVE Inv' /\ Undisturbed
  BY <1>1, <1>2, OpenStep, OpenCounts DEF Inv
<1>3. ASSUME NEW c \in Clients, ccd_close(c) PROVE Inv' /\ Undisturbed
  BY <1>1, <1>3, CloseStep, CloseCounts DEF Inv
<1>4. ASSUME NEW c \in Clients, NEW m \in Messages, ccd_write(c, m) PROVE Inv' /\ Undisturbed
  <2>1. Core' /\ Undisturbed /\ SameOpened
    BY <1>1, <1>4, WriteStep
  <2>2. usage' = usage /\ camera' = camera /\ now' = now /\ plugs' = plugs
    BY <1>4 DEF ccd_write
  <2>3. Counts'
    BY <1>1, <2>1, <2>2, SameCounts DEF Counts
  <2> QED BY <2>1, <2>3 DEF Inv
<1>5. ASSUME NEW c \in Clients, NEW part \in BOOLEAN, ccd_read(c, part) PROVE Inv' /\ Undisturbed
  <2>1. Core' /\ Undisturbed /\ SameOpened
    BY <1>1, <1>5, ReadStep
  <2>2. usage' = usage /\ camera' = camera /\ now' = now /\ plugs' = plugs
    BY <1>5 DEF ccd_read
  <2>3. Counts'
    BY <1>1, <2>1, <2>2, SameCounts DEF Counts
  <2> QED BY <2>1, <2>3 DEF Inv
<1>6. ASSUME NEW c \in Clients, NEW part \in BOOLEAN, NEW signal, wait_event(c, part, signal)
      PROVE  Inv' /\ Undisturbed
  <2>1. Core' /\ Undisturbed /\ SameOpened
    BY <1>1, <1>6, WaitStep
  <2>2. usage' = usage /\ camera' = camera /\ now' = now /\ plugs' = plugs
    BY <1>6 DEF wait_event
  <2>3. Counts'
    BY <1>1, <2>1, <2>2, SameCounts DEF Counts
  <2> QED BY <2>1, <2>3 DEF Inv
<1>7. CASE complete_exposure
  <2>1. Core' /\ Undisturbed
    BY <1>1, <1>7, CompleteStep
  <2>2. client' = client /\ usage' = usage /\ camera' = camera /\ now' = now /\ plugs' = plugs
    BY <1>7 DEF complete_exposure
  <2>3. Counts'
    BY <1>1, <2>2, SameCounts DEF Counts, SameOpened
  <2> QED BY <2>1, <2>3 DEF Inv
<1>8. CASE Tick
  <2>1. Core' /\ Undisturbed
    BY <1>1, <1>8, TickStep
  <2>2. /\ client' = client /\ usage' = usage /\ camera' = camera /\ plugs' = plugs
        /\ now < MaxTime /\ now' = now + 1
    BY <1>8 DEF Tick
  <2>3. MaxTime \in Nat
    BY CcdAssumption, SMT
  <2>4. (now \in 0..MaxTime)'
    BY <1>1, <2>2, <2>3
  <2>5. Counts'
    BY <1>1, <2>2, <2>4, SameCounts DEF Counts, SameOpened
  <2> QED BY <2>1, <2>5 DEF Inv
<1>9. CASE ccd_unregister_device
  BY <1>1, <1>9, UnregisterStep, UnregisterCounts DEF Inv
<1>10. CASE ccd_register_device
  <2>1. Core' /\ Undisturbed
    BY <1>1, <1>10, RegisterStep
  <2>2. /\ client' = client /\ usage' = usage /\ camera' = camera /\ now' = now
        /\ plugs < Replugs /\ plugs' = plugs + 1
    BY <1>10 DEF ccd_register_device
  <2>3. Replugs \in Nat
    BY CcdAssumption, SMT
  <2>4. (plugs \in 0..Replugs)'
    BY <1>1, <2>2, <2>3 DEF Counts
  <2>5. Counts'
    BY <1>1, <2>2, <2>4, SameCounts DEF Counts, SameOpened
  <2> QED BY <2>1, <2>5 DEF Inv
<1>11. CASE UNCHANGED vars
  <2>1. /\ dev' = dev /\ client' = client /\ usage' = usage /\ camera' = camera
        /\ now' = now /\ plugs' = plugs
    BY <1>11 DEF vars
  <2>2. Core'
    <3>1. DevInv(dev)'
      BY <1>1, <2>1, DevInvPrime DEF Core
    <3> QED BY <1>1, <2>1, <3>1, DeviceStep
  <2>3. Counts'
    BY <1>1, <2>1, SameCounts DEF Counts, SameOpened
  <2> QED BY <1>11, <2>2, <2>3 DEF Inv
<1>12. ASSUME NEW c \in Clients, NEW b \in BOOLEAN, read_row(c, b) \/ read_part(c, b)
       PROVE  Inv' /\ Undisturbed
  <2>1. Core' /\ Undisturbed /\ SameOpened
    BY <1>1, <1>12, RowStep, PartStep
  <2>2. usage' = usage /\ camera' = camera /\ now' = now /\ plugs' = plugs
    BY <1>12 DEF read_row, read_part
  <2>3. Counts'
    BY <1>1, <2>1, <2>2, SameCounts DEF Counts
  <2> QED BY <2>1, <2>3 DEF Inv
<1> QED BY <1>2, <1>3, <1>4, <1>5, <1>6, <1>7, <1>8, <1>9, <1>10, <1>11, <1>12 DEF Next, Wake

THEOREM Invariance == Spec => []Inv
<1>1. Init => Inv
  BY InvInit
<1>2. Inv /\ [Next]_vars => Inv'
  BY InvNext
<1> QED BY <1>1, <1>2, PTL DEF Spec

(* Whatever the clients ask for, in whatever order, and whenever the timer   *)
(* fires or the camera is unplugged: the device's queue holds allocated      *)
(* exposures, each once, its row is one of the image or a mark, in_buf and   *)
(* the count of open files keep their bounds, and out_buf does but for a row *)
(* that a read of a part of it writes past its end.                          *)
THEOREM TypeCorrect == Spec => []TypeOK
<1>1. Inv => TypeOK
  <2> SUFFICES ASSUME Inv PROVE TypeOK
    OBVIOUS
  <2>1. Core /\ Counts
    BY DEF Inv
  <2>2. usage \in 0..Cardinality(Clients)
    BY <2>1, OpenedFinite DEF Counts
  <2> QED BY <2>1, <2>2 DEF Core, DevInv, Counts, TypeOK
<1> QED BY <1>1, Invariance, PTL

(* new_exposure, del_exposure, abort_exposures and read_exposure splice an   *)
(* exposure into and out of two lists, the device's and its client's: after  *)
(* every call the client's list is its part of the queue, newest first.      *)
THEOREM ClientOrderHolds == Spec => []ClientOrder
<1>1. Inv => ClientOrder
  BY DEF Inv, Core
<1> QED BY <1>1, Invariance, PTL

(* start_exposure, del_exposure, new_exposure and complete_exposure hand the *)
(* one timer on: an exposure that waits at the head of the queue has it,     *)
(* whatever was queued before it, overlapped, read or aborted.               *)
THEOREM HeadArmedHolds == Spec => []HeadArmed
<1>1. Inv => HeadArmed
  <2> SUFFICES ASSUME Inv, dev.list # <<>>, dev.exp[Head(dev.list)].complete = 0
               PROVE  dev.timer # None /\ dev.target = Head(dev.list)
    BY DEF HeadArmed
  <2>1. dev \in Devices /\ Allocated(dev) /\ Steady(dev)
    BY DEF Inv, Core, DevInv
  <2>2. dev.timer = dev.exp[Head(dev.list)].end /\ dev.target = Head(dev.list)
    BY <2>1 DEF Steady
  <2>3. dev.list \in Seq(Ids)
    BY <2>1, DeviceFields
  <2>4. 1 \in DOMAIN dev.list /\ Head(dev.list) = dev.list[1] /\ dev.list[1] \in Ids
    BY <2>3
  <2>5. dev.exp[Head(dev.list)] # None
    BY <2>1, <2>4 DEF Allocated
  <2>6. dev.timer \in Nat
    BY <2>1, <2>2, <2>4, <2>5, ExposureTypes
  <2>7. None \notin Nat
    BY CcdAssumption, SMT
  <2> QED BY <2>2, <2>6, <2>7
<1> QED BY <1>1, Invariance, PTL

(* read_exposure sleeps in read_row with a pointer to its exposure: a reader  *)
(* that sleeps has its own, latched image at the head of the queue, whatever  *)
(* the other clients and the timer do; those whose exposures ccd_unregister_- *)
(* device or their own abort frees are lost.                                  *)
THEOREM ReaderHasImageHolds == Spec => []ReaderHasImage
<1>1. Inv => ReaderHasImage
  BY DEF Inv, Core
<1> QED BY <1>1, Invariance, PTL

(* An image of which some rows were read stays at the head of the queue, and *)
(* current_read_row only grows, until read_exposure or abort_exposures takes *)
(* it off: no call of another client and no run of the timer disturbs it.    *)
THEOREM DownloadUndisturbedHolds == Spec => DownloadUndisturbed
<1>1. Inv /\ [Next]_vars => [Undisturbed]_vars
  BY InvNext
<1>2. Spec => [][Undisturbed]_vars
  BY <1>1, Invariance, PTL DEF Spec
<1> QED BY <1>2 DEF DownloadUndisturbed, Undisturbed

=============================================================================
