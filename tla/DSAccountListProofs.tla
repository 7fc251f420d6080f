------------------------- MODULE DSAccountListProofs -------------------------
(***************************************************************************)
(* What updateBalance decides, as a function of the list: theorems about   *)
(* DSAccount by induction over the list of transactions.                   *)
(***************************************************************************)
EXTENDS DSAccountProofs, WellFoundedInduction

-----------------------------------------------------------------------------
(* Induction *)

\* A set of natural numbers has a least one.
LEMMA LeastNat == \A T \in SUBSET Nat : T # {} => \E n \in T : \A m \in T : n <= m
<1> DEFINE R == {ss \in Nat \X Nat : ss[1] < ss[2]}
<1>1. IsWellFoundedOn(R, Nat)
  BY NatLessThanWellFounded DEF OpToRel
<1>2. ASSUME NEW T \in SUBSET Nat, T # {}
      PROVE  \E n \in T : \A m \in T : n <= m
  <2> HIDE DEF R
  <2>1. PICK n \in T : \A m \in T : <<m, n>> \notin R
    BY <1>1, <1>2, WFMin, Zenon
  <2>2. \A m \in T : ~(m < n)
    BY <2>1 DEF R
  <2>3. QED
    BY <2>2
<1>3. QED
  BY <1>2

\* Induction up to n: a set that has 0, and with each number below n the next.
LEMMA CountUp ==
  ASSUME NEW n \in Nat, NEW S, 0 \in S, \A k \in 0 .. n - 1 : k \in S => k + 1 \in S
  PROVE  0 .. n \subseteq S
<1> DEFINE T == {k \in 0 .. n : k \notin S}
<1>1. SUFFICES ASSUME T # {}
               PROVE  FALSE
  OBVIOUS
<1>2. T \in SUBSET Nat
  OBVIOUS
<1>3. PICK k \in T : \A m \in T : k <= m
  BY <1>1, <1>2, LeastNat
<1>4. k \in 1 .. n /\ k - 1 \in 0 .. n - 1 /\ (k - 1) + 1 = k
  BY <1>3
<1>5. k - 1 \in S
  BY <1>3, <1>4
<1>6. QED
  BY <1>3, <1>4, <1>5

-----------------------------------------------------------------------------
(* The loop of updateBalance as a function *)

\* The transaction of the turn after n turns.
Turn(n) == transactions[Len(transactions) + 1 - n]

\* The positions of the list.
LEMMA Positions ==
  ASSUME transactions \in Seq(Txs)
  PROVE  /\ Len(transactions) \in Nat /\ DOMAIN transactions = 1 .. Len(transactions)
         /\ \A i \in DOMAIN transactions : transactions[i] \in Txs /\ transactions[i] \in Listed
         /\ \A n \in 1 .. Len(transactions) :
              Len(transactions) + 1 - n \in DOMAIN transactions /\ Turn(n) \in Txs
BY LenProperties, ElementOfSeq DEF Listed, Turn

\* What the turns of the loop compute, one after the other.
Turns(f, n) ==
  /\ f \in [0 .. n -> Results]
  /\ f[0] = NoResults
  /\ \A k \in 1 .. n : f[k] = Process(f[k - 1], Turn(k))

\* One more turn.
LEMMA TurnsNext ==
  ASSUME transactions \in Seq(Txs), NEW n \in 0 .. Len(transactions) - 1, NEW f, Turns(f, n)
  PROVE  \E g : Turns(g, n + 1) /\ g[n + 1] = Process(f[n], Turn(n + 1))
<1> DEFINE next == Process(f[n], Turn(n + 1))
           g == [k \in 0 .. n + 1 |-> IF k = n + 1 THEN next ELSE f[k]]
<1>1. n + 1 \in 1 .. Len(transactions) /\ n \in Nat
  BY LenProperties
<1>2. Turn(n + 1) \in Txs
  BY <1>1, Positions
<1>3. f[n] \in Results
  BY <1>1 DEF Turns
<1>4. next \in Results
  BY <1>2, <1>3, ProcessType
<1> HIDE DEF next
<1>5. g \in [0 .. n + 1 -> Results]
  BY <1>1, <1>4 DEF Turns
<1>6. g[0] = NoResults /\ g[n + 1] = next
  BY <1>1 DEF Turns
<1>7. ASSUME NEW k \in 1 .. n + 1
      PROVE  g[k] = Process(g[k - 1], Turn(k))
  <2>1. g[k - 1] = f[k - 1]
    BY <1>1
  <2>2. CASE k = n + 1
    BY <1>1, <2>1, <2>2 DEF next
  <2>3. CASE k # n + 1
    BY <1>1, <2>1, <2>3 DEF Turns
  <2>4. QED
    BY <2>2, <2>3
<1>8. Turns(g, n + 1)
  BY <1>5, <1>6, <1>7 DEF Turns
<1> HIDE DEF g
<1>9. QED
  BY <1>6, <1>8 DEF next

\* There are results for any number of turns.
LEMMA TurnsExist ==
  ASSUME transactions \in Seq(Txs)
  PROVE  \E f : Turns(f, Len(transactions))
<1> DEFINE len == Len(transactions)
           S == {n \in 0 .. len : \E f : Turns(f, n)}
<1>1. len \in Nat
  BY LenProperties
<1>2. 0 \in S
  <2> DEFINE f == [k \in 0 .. 0 |-> NoResults]
  <2>1. Turns(f, 0)
    BY NoResultsType DEF Turns
  <2>2. QED
    BY <1>1, <2>1
<1>3. ASSUME NEW n \in 0 .. len - 1, n \in S
      PROVE  n + 1 \in S
  <2>1. n + 1 \in 0 .. len
    BY <1>1
  <2>2. \E g : Turns(g, n + 1)
    BY <1>3, TurnsNext
  <2>3. QED
    BY <2>1, <2>2
<1> HIDE DEF S, len
<1>4. 0 .. len \subseteq S
  BY <1>1, <1>2, <1>3, CountUp
<1>5. len \in 0 .. len
  BY <1>1
<1>6. QED
  BY <1>4, <1>5 DEF S, len

\* There is only one way to compute them.
LEMMA TurnsUnique ==
  ASSUME NEW n \in Nat, NEW k \in 0 .. n, NEW f, NEW g, Turns(f, k), Turns(g, n)
  PROVE  f[k] = g[k]
<1> DEFINE S == {i \in 0 .. k : f[i] = g[i]}
<1>1. k \in Nat /\ k \in 0 .. k
  OBVIOUS
<1>2. 0 \in S
  BY <1>1 DEF Turns
<1>3. ASSUME NEW i \in 0 .. k - 1, i \in S
      PROVE  i + 1 \in S
  <2>1. i + 1 \in 1 .. k /\ i + 1 \in 1 .. n /\ (i + 1) - 1 = i
    BY <1>1
  <2>2. f[i + 1] = Process(f[i], Turn(i + 1)) /\ g[i + 1] = Process(g[i], Turn(i + 1))
    BY <2>1 DEF Turns
  <2>3. QED
    BY <1>3, <2>1, <2>2
<1>4. 0 .. k \subseteq S
  <2> HIDE DEF S
  <2>1. QED
    BY <1>1, <1>2, <1>3, CountUp
<1>5. QED
  BY <1>1, <1>4

\* AfterTurns is what it is defined to be.
LEMMA AfterTurnsDef ==
  ASSUME transactions \in Seq(Txs)
  PROVE  Turns(AfterTurns, Len(transactions))
<1> DEFINE len == Len(transactions)
           Body(f) == [n \in 0 .. len |->
                         IF n = 0 THEN NoResults ELSE Process(f[n - 1], Turn(n))]
<1>1. len \in Nat
  BY LenProperties
<1>2. AfterTurns = CHOOSE f : f = Body(f)
  BY DEF AfterTurns, Turn
<1>3. \E f : f = Body(f)
  <2>1. PICK f : Turns(f, len)
    BY TurnsExist
  <2>2. f = Body(f)
    BY <1>1, <2>1 DEF Turns
  <2>3. QED
    BY <2>2
<1>4. AfterTurns = Body(AfterTurns)
  BY <1>2, <1>3
<1> DEFINE S == {n \in 0 .. len : AfterTurns[n] \in Results}
<1>5. 0 \in S
  BY <1>1, <1>4, NoResultsType
<1>6. ASSUME NEW n \in 0 .. len - 1, n \in S
      PROVE  n + 1 \in S
  <2>1. n + 1 \in 1 .. len /\ (n + 1) - 1 = n
    BY <1>1
  <2>2. Turn(n + 1) \in Txs
    BY <2>1, Positions
  <2>3. AfterTurns[n + 1] = Process(AfterTurns[n], Turn(n + 1))
    BY <1>4, <2>1
  <2>4. QED
    BY <1>6, <2>1, <2>2, <2>3, ProcessType
<1>7. 0 .. len \subseteq S
  <2> HIDE DEF S, len
  <2>1. QED
    BY <1>1, <1>5, <1>6, CountUp
<1>8. AfterTurns \in [0 .. len -> Results]
  BY <1>4, <1>7
<1>9. QED
  BY <1>1, <1>4, <1>8 DEF Turns

-----------------------------------------------------------------------------
(* What the sort guarantees *)

\* The comparator is what it is defined to be: the ancestors it looks through may
\* depend on each other in any way.
LEMMA AscendingByHeight ==
  ASSUME Known \subseteq Txs, NEW height \in [Txs -> Heights], NEW t \in Txs, NEW u \in Txs
  PROVE  /\ height[t] > height[u] => IsAscending(height, t, u)
         /\ height[t] < height[u] => ~IsAscending(height, t, u)
<1> DEFINE first(S, v) == v \in S /\ u \notin S
           same(v) == height[v] = height[u] /\ v \notin Parents(u)
           base(v) == \/ height[v] > height[u]
                      \/ height[v] = height[u] /\ u \in Parents(v)
                      \/ same(v) /\ (first(cache.invalid, v) \/ first(cache.pending, v))
           older(v) == Parents(v) \cap Known
           Body(f) == [v \in Txs |-> \/ height[v] > height[u]
                                     \/ height[v] = height[u] /\ u \in Parents(v)
                                     \/ same(v) /\ (first(cache.invalid, v) \/ first(cache.pending, v))
                                     \/ same(v) /\ \E p \in older(v) : f[p]]
           ascending == CHOOSE f : f = Body(f)
<1>1. IsAscending(height, t, u) = ascending[t]
  BY DEF IsAscending
<1>2. \E f : f = Body(f)
  <2> DEFINE Closed(S) == \A v \in Txs : base(v) \/ (same(v) /\ older(v) \cap S # {}) => v \in S
             Least == {v \in Txs : \A S \in SUBSET Txs : Closed(S) => v \in S}
             f == [v \in Txs |-> v \in Least]
  <2>1. Closed(Least)
    <3>1. SUFFICES ASSUME NEW v \in Txs, base(v) \/ (same(v) /\ older(v) \cap Least # {}),
                          NEW S \in SUBSET Txs, Closed(S)
                   PROVE  v \in S
      OBVIOUS
    <3>2. Least \subseteq S
      BY <3>1
    <3> HIDE DEF Least, base, same, older
    <3>3. base(v) \/ (same(v) /\ older(v) \cap S # {})
      BY <3>1, <3>2
    <3>4. QED
      BY <3>1, <3>3
  <2>2. ASSUME NEW v \in Least
        PROVE  base(v) \/ (same(v) /\ older(v) \cap Least # {})
    <3>1. SUFFICES ASSUME ~(base(v) \/ (same(v) /\ older(v) \cap Least # {}))
                   PROVE  FALSE
      OBVIOUS
    <3> DEFINE Rest == Least \ {v}
    <3> HIDE DEF base, same, older
    <3>2. Closed(Rest)
      <4>1. SUFFICES ASSUME NEW w \in Txs, base(w) \/ (same(w) /\ older(w) \cap Rest # {})
                     PROVE  w \in Rest
        OBVIOUS
      <4>2. base(w) \/ (same(w) /\ older(w) \cap Least # {})
        BY <4>1
      <4>3. w \in Least
        <5> HIDE DEF Least
        <5>1. QED
          BY <2>1, <4>2
      <4>4. w # v
        BY <3>1, <4>2
      <4>5. QED
        BY <4>3, <4>4
    <3>3. Rest \in SUBSET Txs
      OBVIOUS
    <3>4. v \in Rest
      <4> HIDE DEF Rest, Closed
      <4>1. QED
        BY <2>2, <3>2, <3>3
    <3>5. QED
      BY <3>4
  <2> HIDE DEF Least
  <2>3. ASSUME NEW v \in Txs
        PROVE  v \in Least <=> base(v) \/ (same(v) /\ \E p \in older(v) : f[p])
    <3>1. older(v) \subseteq Txs
      OBVIOUS
    <3> HIDE DEF base, same, older
    <3>2. (\E p \in older(v) : f[p]) <=> older(v) \cap Least # {}
      BY <3>1
    <3>3. QED
      BY <2>1, <2>2, <3>2
  <2>4. f = Body(f)
    <3> DEFINE step(v) == \/ height[v] > height[u]
                          \/ height[v] = height[u] /\ u \in Parents(v)
                          \/ same(v) /\ (first(cache.invalid, v) \/ first(cache.pending, v))
                          \/ same(v) /\ \E p \in older(v) : f[p]
    <3>1. ASSUME NEW v \in Txs
          PROVE  (v \in Least) = step(v)
      <4>1. v \in Least <=> base(v) \/ (same(v) /\ \E p \in older(v) : f[p])
        BY <2>3
      <4> HIDE DEF f, same, older, first
      <4>2. v \in Least <=> step(v)
        BY <4>1
      <4>3. step(v) \in BOOLEAN
        OBVIOUS
      <4> HIDE DEF step
      <4>4. QED
        BY <4>2, <4>3
    <3> HIDE DEF step
    <3>2. f = [v \in Txs |-> step(v)]
      BY <3>1
    <3>3. QED
      BY <3>2 DEF step
  <2> HIDE DEF f, Body
  <2>5. QED
    BY <2>4
<1>3. ascending = Body(ascending)
  <2>1. PICK f : f = Body(f)
    BY <1>2
  <2>2. QED
    BY <2>1, Zenon
<1> HIDE DEF ascending
<1>4. ascending[t] = \/ height[t] > height[u]
                     \/ height[t] = height[u] /\ u \in Parents(t)
                     \/ same(t) /\ (first(cache.invalid, t) \/ first(cache.pending, t))
                     \/ same(t) /\ \E p \in older(t) : ascending[p]
  BY <1>3
<1>5. height[t] \in Nat /\ height[u] \in Nat
  BY AccountAssumption DEF AccountAssumption, HeightAssumption, Heights
<1>6. QED
  BY <1>1, <1>4, <1>5

\* A sorted list goes from the highest to the lowest, what is unconfirmed first.
LEMMA SortedByHeight ==
  ASSUME Known \subseteq Txs, transactions \in Seq(Txs),
         NEW height \in [Txs -> Heights], NEW s \in SortedLists(height),
         NEW i \in DOMAIN s, NEW j \in DOMAIN s, i < j
  PROVE  height[s[i]] >= height[s[j]]
<1> DEFINE S == {k \in Nat : i + k \in DOMAIN s /\ height[s[i]] >= height[s[i + k]]}
<1>1. s \in Seq(Txs)
  BY ArrangementType, ListedType DEF SortedLists
<1>2. DOMAIN s = 1 .. Len(s) /\ Len(s) \in Nat /\ \A k \in DOMAIN s : s[k] \in Txs
  BY <1>1, LenProperties, ElementOfSeq
<1>3. \A t \in Txs : height[t] \in Nat
  BY AccountAssumption DEF AccountAssumption, HeightAssumption, Heights
<1>4. 0 \in S
  BY <1>2, <1>3
<1>5. ASSUME NEW k \in 0 .. (j - i) - 1, k \in S
      PROVE  k + 1 \in S
  <2>1. i + k \in 1 .. Len(s) - 1 /\ i + k \in DOMAIN s /\ i + (k + 1) = (i + k) + 1
        /\ (i + k) + 1 \in DOMAIN s
    BY <1>2
  <2> DEFINE t == s[i + k]
             u == s[(i + k) + 1]
  <2>2. t \in Txs /\ u \in Txs
    BY <1>2, <2>1
  <2>3. IsAscending(height, u, t) => IsAscending(height, t, u)
    BY <2>1 DEF SortedLists
  <2> HIDE DEF t, u
  <2>4. ~(height[u] > height[t])
    BY <2>2, <2>3, AscendingByHeight
  <2>5. height[t] >= height[u]
    BY <1>3, <2>2, <2>4
  <2>6. height[s[i]] >= height[t] /\ s[i] \in Txs
    BY <1>2, <1>5 DEF t
  <2>7. height[s[i]] >= height[u]
    BY <1>3, <2>2, <2>5, <2>6
  <2>8. QED
    BY <2>1, <2>7 DEF u
<1>6. j - i \in Nat /\ i + (j - i) = j
  BY <1>2
<1>7. 0 .. j - i \subseteq S
  <2> HIDE DEF S
  <2>1. QED
    BY <1>4, <1>5, <1>6, CountUp
<1>8. QED
  BY <1>6, <1>7

-----------------------------------------------------------------------------
(* What a turn of the loop decides *)

\* What one turn adds to the results.
LEMMA ProcessDecides ==
  ASSUME NEW r \in Results, NEW t \in Txs
  PROVE  /\ Process(r, t).invalid = r.invalid \cup (IF IsInvalid(r, t) THEN {t} ELSE {})
         /\ Process(r, t).spent = r.spent \cup (IF IsInvalid(r, t) THEN {} ELSE Spends[t])
         /\ Process(r, t).pending =
              r.pending \cup (IF ~IsInvalid(r, t) /\ IsPending(r, t) THEN {t} ELSE {})
         /\ Process(r, t).locked =
              r.locked \cup (IF ~IsInvalid(r, t) /\ ~IsPending(r, t) /\ IsLocked(t) THEN {t} ELSE {})
<1> DEFINE spent == [r EXCEPT !.spent = @ \cup Spends[t]]
<1>1. /\ spent.spent = r.spent \cup Spends[t] /\ spent.invalid = r.invalid
      /\ spent.pending = r.pending /\ spent.locked = r.locked /\ spent \in Results
  BY AccountAssumption DEF AccountAssumption, TransactionAssumption, Results
<1>2. ASSUME NEW q
      PROVE  /\ Record(q).invalid = q.invalid /\ Record(q).spent = q.spent
             /\ Record(q).pending = q.pending /\ Record(q).locked = q.locked
  BY DEF Record
<1>3. CASE IsInvalid(r, t)
  <2> DEFINE q == [r EXCEPT !.invalid = @ \cup {t}]
  <2>1. /\ q.invalid = r.invalid \cup {t} /\ q.spent = r.spent
        /\ q.pending = r.pending /\ q.locked = r.locked
    BY DEF Results
  <2>2. Process(r, t) = Record(q)
    BY <1>3 DEF Process
  <2> HIDE DEF q
  <2>3. QED
    BY <1>2, <1>3, <2>1, <2>2
<1>4. CASE ~IsInvalid(r, t) /\ IsPending(r, t)
  <2> DEFINE q == [spent EXCEPT !.pending = @ \cup {t}]
  <2>1. Process(r, t) = Record(q)
    BY <1>4 DEF Process
  <2> HIDE DEF spent
  <2>2. /\ q.invalid = spent.invalid /\ q.spent = spent.spent
        /\ q.pending = spent.pending \cup {t} /\ q.locked = spent.locked
    BY <1>1 DEF Results
  <2> HIDE DEF q
  <2>3. QED
    BY <1>1, <1>2, <1>4, <2>1, <2>2
<1>5. CASE ~IsInvalid(r, t) /\ ~IsPending(r, t) /\ IsLocked(t)
  <2> DEFINE q == [spent EXCEPT !.locked = @ \cup {t}]
  <2>1. Process(r, t) = Record(q)
    BY <1>5 DEF Process
  <2> HIDE DEF spent
  <2>2. /\ q.invalid = spent.invalid /\ q.spent = spent.spent
        /\ q.pending = spent.pending /\ q.locked = spent.locked \cup {t}
    BY <1>1 DEF Results
  <2> HIDE DEF q
  <2>3. QED
    BY <1>1, <1>2, <1>5, <2>1, <2>2
<1>6. CASE ~IsInvalid(r, t) /\ ~IsPending(r, t) /\ ~IsLocked(t)
  <2> DEFINE q == Count(spent, t)
  <2>1. Process(r, t) = Record(q)
    BY <1>6 DEF Process
  <2> HIDE DEF spent
  <2>2. /\ q.invalid = spent.invalid /\ q.spent = spent.spent
        /\ q.pending = spent.pending /\ q.locked = spent.locked
    BY <1>1 DEF Results, Count
  <2> HIDE DEF q
  <2>3. QED
    BY <1>1, <1>2, <1>6, <2>1, <2>2
<1>7. QED
  BY <1>3, <1>4, <1>5, <1>6

\* The transactions of the first n turns.
Turned(n) == {Turn(m) : m \in 1 .. n}

\* Each turn has a transaction of its own, and each listed one has a turn.
LEMMA TurnsOfList ==
  ASSUME transactions \in Seq(Txs)
  PROVE  /\ Turned(Len(transactions)) = Listed
         /\ Turned(0) = {}
         /\ \A n \in 1 .. Len(transactions) :
              Turned(n) = Turned(n - 1) \cup {Turn(n)} /\ (Distinct => Turn(n) \notin Turned(n - 1))
<1> DEFINE len == Len(transactions)
<1>1. len \in Nat /\ DOMAIN transactions = 1 .. len
  BY LenProperties
<1>2. Turned(len) = Listed
  <2>1. ASSUME NEW m \in 1 .. len
        PROVE  Turn(m) \in Listed
    BY Positions, <2>1 DEF Turn
  <2>2. ASSUME NEW i \in DOMAIN transactions
        PROVE  transactions[i] \in Turned(len)
    <3>1. len + 1 - i \in 1 .. len /\ len + 1 - (len + 1 - i) = i
      BY <1>1
    <3>2. transactions[i] = Turn(len + 1 - i)
      BY <3>1 DEF Turn
    <3>3. QED
      BY <3>1, <3>2 DEF Turned
  <2>3. QED
    BY <2>1, <2>2 DEF Turned, Listed
<1>3. Turned(0) = {}
  BY DEF Turned
<1>4. ASSUME NEW n \in 1 .. len
      PROVE  Turned(n) = Turned(n - 1) \cup {Turn(n)} /\ (Distinct => Turn(n) \notin Turned(n - 1))
  <2>1. n \in Nat /\ 1 .. n = (1 .. n - 1) \cup {n}
    BY <1>1
  <2>2. Turned(n) = Turned(n - 1) \cup {Turn(n)}
    BY <2>1 DEF Turned
  <2>3. ASSUME Distinct, NEW m \in 1 .. n - 1
        PROVE  Turn(m) # Turn(n)
    <3>1. /\ len + 1 - m \in DOMAIN transactions /\ len + 1 - n \in DOMAIN transactions
          /\ len + 1 - m # len + 1 - n
      BY <1>1
    <3>2. QED
      BY <2>3, <3>1 DEF Distinct, Turn
  <2>4. QED
    BY <2>2, <2>3 DEF Turned
<1>5. QED
  BY <1>2, <1>3, <1>4

\* The results hold transactions of the turns so far, and the coins that the valid
\* ones among them spend.
LEMMA TurnsDecide ==
  ASSUME transactions \in Seq(Txs), Distinct, NEW n \in 0 .. Len(transactions)
  PROVE  /\ AfterTurns[n] \in Results
         /\ AfterTurns[n].invalid \subseteq Turned(n) /\ AfterTurns[n].pending \subseteq Turned(n)
         /\ AfterTurns[n].locked \subseteq Turned(n)
         /\ AfterTurns[n].spent = SpentBy(Turned(n) \ AfterTurns[n].invalid)
<1> DEFINE len == Len(transactions)
           Good(k) == /\ AfterTurns[k].invalid \subseteq Turned(k)
                      /\ AfterTurns[k].pending \subseteq Turned(k)
                      /\ AfterTurns[k].locked \subseteq Turned(k)
                      /\ AfterTurns[k].spent = SpentBy(Turned(k) \ AfterTurns[k].invalid)
           S == {k \in 0 .. len : Good(k)}
<1>1. len \in Nat /\ Turns(AfterTurns, len)
  BY LenProperties, AfterTurnsDef
<1>2. 0 \in S
  <2>1. AfterTurns[0] = NoResults
    BY <1>1 DEF Turns
  <2>2. QED
    BY <1>1, <2>1, TurnsOfList DEF NoResults, SpentBy
<1>3. ASSUME NEW k \in 0 .. len - 1, k \in S
      PROVE  k + 1 \in S
  <2> DEFINE r == AfterTurns[k]
             t == Turn(k + 1)
             q == AfterTurns[k + 1]
  <2>1. k + 1 \in 1 .. len /\ (k + 1) - 1 = k /\ k \in 0 .. len
    BY <1>1
  <2>2. r \in Results /\ t \in Txs /\ q = Process(r, t)
    BY <1>1, <2>1, Positions DEF Turns
  <2>3. Turned(k + 1) = Turned(k) \cup {t} /\ t \notin Turned(k)
    BY <2>1, TurnsOfList
  <2>4. Good(k)
    BY <1>3
  <2> HIDE DEF r, t, q
  <2>5. /\ q.invalid = r.invalid \cup (IF IsInvalid(r, t) THEN {t} ELSE {})
        /\ q.spent = r.spent \cup (IF IsInvalid(r, t) THEN {} ELSE Spends[t])
        /\ q.pending = r.pending \cup (IF ~IsInvalid(r, t) /\ IsPending(r, t) THEN {t} ELSE {})
        /\ q.locked = r.locked
              \cup (IF ~IsInvalid(r, t) /\ ~IsPending(r, t) /\ IsLocked(t) THEN {t} ELSE {})
    BY <2>2, ProcessDecides
  <2>6. q.invalid \subseteq Turned(k + 1) /\ q.pending \subseteq Turned(k + 1)
        /\ q.locked \subseteq Turned(k + 1)
    BY <2>3, <2>4, <2>5 DEF r
  <2>7. q.spent = SpentBy(Turned(k + 1) \ q.invalid)
    <3>1. r.spent = SpentBy(Turned(k) \ r.invalid) /\ r.invalid \subseteq Turned(k)
      BY <2>4 DEF r
    <3>2. CASE IsInvalid(r, t)
      <4>1. Turned(k + 1) \ q.invalid = Turned(k) \ r.invalid
        BY <2>3, <2>5, <3>1, <3>2
      <4>2. QED
        BY <2>5, <3>1, <3>2, <4>1
    <3>3. CASE ~IsInvalid(r, t)
      <4>1. Turned(k + 1) \ q.invalid = (Turned(k) \ r.invalid) \cup {t}
        BY <2>3, <2>5, <3>1, <3>3
      <4>2. SpentBy((Turned(k) \ r.invalid) \cup {t}) = SpentBy(Turned(k) \ r.invalid) \cup Spends[t]
        BY DEF SpentBy
      <4>3. QED
        BY <2>5, <3>1, <3>3, <4>1, <4>2
    <3>4. QED
      BY <3>2, <3>3
  <2>8. QED
    BY <2>1, <2>6, <2>7 DEF q
<1>4. n \in S
  <2>1. 0 .. len \subseteq S
    <3> HIDE DEF S, len
    <3>1. QED
      BY <1>1, <1>2, <1>3, CountUp
  <2>2. QED
    BY <2>1
<1>5. QED
  BY <1>1, <1>4 DEF Turns

\* What a turn decides of its transaction stays.
LEMMA DecidedOnce ==
  ASSUME transactions \in Seq(Txs), Distinct,
         NEW n \in 0 .. Len(transactions), NEW m \in 0 .. n
  PROVE  /\ AfterTurns[n].invalid \cap Turned(m) = AfterTurns[m].invalid
         /\ AfterTurns[n].pending \cap Turned(m) = AfterTurns[m].pending
         /\ AfterTurns[n].locked \cap Turned(m) = AfterTurns[m].locked
<1> DEFINE len == Len(transactions)
           Same(k) == /\ AfterTurns[m + k].invalid \cap Turned(m) = AfterTurns[m].invalid
                      /\ AfterTurns[m + k].pending \cap Turned(m) = AfterTurns[m].pending
                      /\ AfterTurns[m + k].locked \cap Turned(m) = AfterTurns[m].locked
                      /\ Turned(m) \subseteq Turned(m + k)
           S == {k \in 0 .. n - m : Same(k)}
<1>1. len \in Nat /\ Turns(AfterTurns, len) /\ n \in 0 .. len /\ m \in 0 .. n
      /\ n \in Nat /\ m \in Nat /\ n - m \in Nat
  BY LenProperties, AfterTurnsDef
<1>2. 0 \in S
  <2>1. m + 0 = m /\ m \in 0 .. len
    BY <1>1
  <2>2. /\ AfterTurns[m].invalid \subseteq Turned(m) /\ AfterTurns[m].pending \subseteq Turned(m)
        /\ AfterTurns[m].locked \subseteq Turned(m)
    BY <2>1, TurnsDecide
  <2>3. Same(0)
    BY <2>1, <2>2
  <2> HIDE DEF Same
  <2>4. QED
    BY <1>1, <2>3
<1>3. ASSUME NEW k \in 0 .. (n - m) - 1, k \in S
      PROVE  k + 1 \in S
  <2> DEFINE r == AfterTurns[m + k]
             t == Turn((m + k) + 1)
             q == AfterTurns[(m + k) + 1]
  <2>1. (m + k) + 1 \in 1 .. len /\ ((m + k) + 1) - 1 = m + k /\ m + k \in 0 .. len
        /\ m + (k + 1) = (m + k) + 1 /\ k + 1 \in 0 .. n - m
    BY <1>1
  <2>2. r \in Results /\ t \in Txs /\ q = Process(r, t)
    BY <1>1, <2>1, Positions DEF Turns
  <2>3. Turned((m + k) + 1) = Turned(m + k) \cup {t} /\ t \notin Turned(m + k)
    BY <2>1, TurnsOfList
  <2>4. Same(k)
    BY <1>3
  <2>5. t \notin Turned(m)
    BY <2>3, <2>4
  <2> HIDE DEF r, t, q
  <2>6. /\ q.invalid \cap Turned(m) = r.invalid \cap Turned(m)
        /\ q.pending \cap Turned(m) = r.pending \cap Turned(m)
        /\ q.locked \cap Turned(m) = r.locked \cap Turned(m)
    BY <2>2, <2>5, ProcessDecides
  <2>7. Turned(m) \subseteq Turned((m + k) + 1)
    BY <2>3, <2>4
  <2>8. QED
    BY <2>1, <2>4, <2>6, <2>7 DEF r, q
<1>4. 0 .. n - m \subseteq S
  <2> HIDE DEF S
  <2>1. QED
    BY <1>1, <1>2, <1>3, CountUp
<1>5. n - m \in S /\ m + (n - m) = n
  <2> HIDE DEF S
  <2>1. QED
    BY <1>1, <1>4
<1>6. Same(n - m)
  <2> HIDE DEF Same
  <2>1. QED
    BY <1>5
<1>7. QED
  BY <1>5, <1>6

-----------------------------------------------------------------------------
(* What is invalid *)

\* If the transactions in S are those that are invalid: the one of turn n spends
\* what an earlier valid one spends, or an output of an earlier invalid one.
Spoiled(n, S) ==
  \E m \in 1 .. n - 1 :
    \/ Turn(m) \notin S /\ Spends[Turn(n)] \cap Spends[Turn(m)] # {}
    \/ Turn(m) \in S /\ Turn(m) \in Parents(Turn(n))

\* The transactions in S, all unconfirmed, are those that are spoiled among the
\* first len.
Resolves(S, len) ==
  /\ S \subseteq Turned(len)
  /\ \A t \in S : blockHeight[t] = Unconfirmed
  /\ \A n \in 1 .. len : Turn(n) \in S <=> Spoiled(n, S)

\* updateBalance comes upon no confirmed transaction that is spoiled.
OnlyUnconfirmedSpoiled ==
  \A n \in 1 .. Len(transactions) :
    Spoiled(n, AfterTurns[n - 1].invalid) => blockHeight[Turn(n)] = Unconfirmed

\* Whether a transaction is spoiled depends on those before it.
LEMMA SpoiledByEarlier ==
  ASSUME NEW n \in Nat, NEW S, NEW T, S \cap Turned(n - 1) = T \cap Turned(n - 1)
  PROVE  Spoiled(n, S) <=> Spoiled(n, T)
<1>1. \A m \in 1 .. n - 1 : Turn(m) \in S <=> Turn(m) \in T
  BY DEF Turned
<1>2. QED
  BY <1>1 DEF Spoiled

\* What the turn of a transaction decides.
LEMMA TurnInvalid ==
  ASSUME transactions \in Seq(Txs), Distinct, NEW n \in 1 .. Len(transactions)
  PROVE  Turn(n) \in AfterTurns[n].invalid <=>
           blockHeight[Turn(n)] = Unconfirmed /\ Spoiled(n, AfterTurns[n - 1].invalid)
<1> DEFINE r == AfterTurns[n - 1]
           t == Turn(n)
           q == AfterTurns[n]
<1>1. n - 1 \in 0 .. Len(transactions) /\ Len(transactions) \in Nat
  BY LenProperties
<1>2. q = Process(r, t) /\ t \in Txs
  BY AfterTurnsDef, Positions DEF Turns
<1>3. /\ r \in Results /\ r.invalid \subseteq Turned(n - 1)
      /\ r.spent = SpentBy(Turned(n - 1) \ r.invalid)
  BY <1>1, TurnsDecide
<1>4. t \notin Turned(n - 1)
  BY TurnsOfList
<1>5. t \in q.invalid <=> IsInvalid(r, t)
  <2> HIDE DEF r, t, q
  <2>1. q.invalid = r.invalid \cup (IF IsInvalid(r, t) THEN {t} ELSE {})
    BY <1>2, <1>3, ProcessDecides
  <2>2. QED
    BY <1>3, <1>4, <2>1
<1>6. IsInvalid(r, t) <=> blockHeight[t] = Unconfirmed /\ Spoiled(n, r.invalid)
  <2> HIDE DEF r
  <2>1. Spends[t] \cap r.spent # {} <=>
          \E m \in 1 .. n - 1 : Turn(m) \notin r.invalid /\ Spends[t] \cap Spends[Turn(m)] # {}
    <3>1. Spends[t] \cap r.spent # {} <=>
            \E u \in Turned(n - 1) \ r.invalid : Spends[t] \cap Spends[u] # {}
      BY <1>3 DEF SpentBy
    <3>2. QED
      BY <3>1 DEF Turned
  <2>2. Parents(t) \cap r.invalid # {} <=>
          \E m \in 1 .. n - 1 : Turn(m) \in r.invalid /\ Turn(m) \in Parents(t)
    <3>1. r.invalid = r.invalid \cap Turned(n - 1)
      BY <1>3
    <3>2. Parents(t) \cap r.invalid # {} <=> \E u \in Turned(n - 1) : u \in r.invalid /\ u \in Parents(t)
      BY <3>1
    <3>3. QED
      BY <3>2 DEF Turned
  <2>3. QED
    BY <2>1, <2>2 DEF IsInvalid, Spoiled
<1>7. QED
  BY <1>5, <1>6

\* If only unconfirmed ones can be spoiled, updateBalance finds those that are.
LEMMA RecomputedResolves ==
  ASSUME transactions \in Seq(Txs), Distinct, OnlyUnconfirmedSpoiled
  PROVE  Resolves(Recomputed.invalid, Len(transactions))
<1> DEFINE len == Len(transactions)
           inv == AfterTurns[len].invalid
<1>1. len \in Nat /\ len \in 0 .. len
  BY LenProperties
<1>2. inv \subseteq Turned(len)
  BY <1>1, TurnsDecide
<1>3. ASSUME NEW n \in 1 .. len
      PROVE  /\ Turn(n) \in inv <=> Spoiled(n, inv)
             /\ Turn(n) \in inv => blockHeight[Turn(n)] = Unconfirmed
  <2>1. n \in 0 .. len /\ n - 1 \in 0 .. len /\ n \in Nat
    BY <1>1
  <2>2. inv \cap Turned(n) = AfterTurns[n].invalid /\ inv \cap Turned(n - 1) = AfterTurns[n - 1].invalid
    BY <1>1, <2>1, DecidedOnce
  <2>3. Turn(n) \in Turned(n)
    BY <2>1 DEF Turned
  <2>4. Turn(n) \in inv <=> blockHeight[Turn(n)] = Unconfirmed /\ Spoiled(n, AfterTurns[n - 1].invalid)
    BY <2>2, <2>3, TurnInvalid
  <2>5. AfterTurns[n - 1].invalid \cap Turned(n - 1) = inv \cap Turned(n - 1)
    BY <2>2
  <2>6. Spoiled(n, AfterTurns[n - 1].invalid) <=> Spoiled(n, inv)
    BY <2>1, <2>5, SpoiledByEarlier
  <2>7. QED
    BY <2>4, <2>6 DEF OnlyUnconfirmedSpoiled
<1>4. \A t \in inv : blockHeight[t] = Unconfirmed
  BY <1>2, <1>3 DEF Turned
<1>5. QED
  BY <1>2, <1>3, <1>4 DEF Resolves, Recomputed

\* If S resolves the first len transactions and the others are unconfirmed, the
\* first len turns find S, and only unconfirmed ones can be spoiled.
LEMMA ResolvedAgain ==
  ASSUME transactions \in Seq(Txs), Distinct,
         NEW len \in 0 .. Len(transactions), NEW S, Resolves(S, len),
         \A n \in len + 1 .. Len(transactions) : blockHeight[Turn(n)] = Unconfirmed
  PROVE  OnlyUnconfirmedSpoiled /\ AfterTurns[len].invalid = S
<1> DEFINE Found == {n \in 0 .. len : AfterTurns[n].invalid = S \cap Turned(n)}
<1>1. Len(transactions) \in Nat /\ len \in Nat /\ len \in 0 .. len
  BY LenProperties
<1>2. 0 \in Found
  <2>1. AfterTurns[0].invalid = {}
    BY AfterTurnsDef DEF Turns, NoResults
  <2>2. QED
    BY <1>1, <2>1, TurnsOfList
<1>3. ASSUME NEW n \in 0 .. len, n \in Found
      PROVE  Spoiled(n + 1, AfterTurns[n].invalid) <=> Spoiled(n + 1, S)
  <2>1. (n + 1) - 1 = n /\ n + 1 \in Nat
    BY <1>1
  <2>2. AfterTurns[n].invalid \cap Turned((n + 1) - 1) = S \cap Turned((n + 1) - 1)
    BY <1>3, <2>1
  <2>3. QED
    BY <2>1, <2>2, SpoiledByEarlier
<1>4. ASSUME NEW n \in 0 .. len - 1, n \in Found
      PROVE  n + 1 \in Found /\ (Spoiled(n + 1, AfterTurns[n].invalid) => blockHeight[Turn(n + 1)] = Unconfirmed)
  <2> DEFINE t == Turn(n + 1)
  <2>1. /\ n + 1 \in 1 .. len /\ n + 1 \in 1 .. Len(transactions) /\ (n + 1) - 1 = n /\ n \in 0 .. len
        /\ n + 1 \in 0 .. Len(transactions) /\ n \in 0 .. n + 1
    BY <1>1
  <2>2. t \in S <=> Spoiled(n + 1, AfterTurns[n].invalid)
    BY <1>3, <1>4, <2>1 DEF Resolves
  <2>3. t \in S => blockHeight[t] = Unconfirmed
    BY DEF Resolves
  <2>4. t \in AfterTurns[n + 1].invalid <=>
          blockHeight[t] = Unconfirmed /\ Spoiled(n + 1, AfterTurns[(n + 1) - 1].invalid)
    BY <2>1, TurnInvalid
  <2>5. t \in AfterTurns[n + 1].invalid <=> t \in S
    BY <2>1, <2>2, <2>3, <2>4
  <2>6. Turned(n + 1) = Turned((n + 1) - 1) \cup {t}
    BY <2>1, TurnsOfList
  <2>7. AfterTurns[n + 1].invalid \cap Turned(n) = AfterTurns[n].invalid
    BY <2>1, DecidedOnce
  <2>8. AfterTurns[n + 1].invalid \subseteq Turned(n + 1)
    BY <2>1, TurnsDecide
  <2>9. AfterTurns[n].invalid = S \cap Turned(n)
    BY <1>4
  <2> HIDE DEF t
  <2>10. AfterTurns[n + 1].invalid = S \cap Turned(n + 1)
    BY <2>1, <2>5, <2>6, <2>7, <2>8, <2>9
  <2>11. QED
    BY <2>1, <2>2, <2>3, <2>10 DEF t
<1>5. 0 .. len \subseteq Found
  <2> HIDE DEF Found
  <2>1. QED
    BY <1>1, <1>2, <1>4, CountUp
<1>6. OnlyUnconfirmedSpoiled
  <2>1. SUFFICES ASSUME NEW n \in 1 .. Len(transactions), Spoiled(n, AfterTurns[n - 1].invalid)
                 PROVE  blockHeight[Turn(n)] = Unconfirmed
    BY DEF OnlyUnconfirmedSpoiled
  <2>2. CASE n > len
    BY <1>1, <2>2
  <2>3. CASE n <= len
    <3>1. n - 1 \in 0 .. len - 1 /\ (n - 1) + 1 = n /\ n - 1 \in 0 .. len
      BY <1>1, <2>3
    <3>2. n - 1 \in Found
      <4> HIDE DEF Found
      <4>1. QED
        BY <1>5, <3>1
    <3> HIDE DEF Found
    <3>3. Spoiled((n - 1) + 1, AfterTurns[n - 1].invalid) => blockHeight[Turn((n - 1) + 1)] = Unconfirmed
      BY <1>4, <3>1, <3>2
    <3>4. QED
      BY <2>1, <3>1, <3>3
  <2>4. QED
    BY <1>1, <2>2, <2>3
<1>7. AfterTurns[len].invalid = S
  <2>1. AfterTurns[len].invalid = S \cap Turned(len)
    BY <1>1, <1>5
  <2>2. QED
    BY <2>1 DEF Resolves
<1>8. QED
  BY <1>6, <1>7

\* The confirmed transactions of the list do not conflict, and those below a
\* confirmed one are confirmed: no confirmed one can be spoiled.
ConfirmedApart ==
  \A t, u \in Listed :
    blockHeight[t] # Unconfirmed /\ blockHeight[u] # Unconfirmed => ~Conflict(t, u)

ByHeight ==
  \A i, j \in DOMAIN transactions :
    i < j => blockHeight[transactions[i]] >= blockHeight[transactions[j]]

\* In a sorted list no confirmed transaction is spoiled.
LEMMA SortedSpoils ==
  ASSUME TypeOK, Distinct, ConfirmedApart, ByHeight
  PROVE  OnlyUnconfirmedSpoiled
<1> DEFINE len == Len(transactions)
<1>1. transactions \in Seq(Txs) /\ len \in Nat /\ DOMAIN transactions = 1 .. len
  BY LenProperties DEF TypeOK
<1>2. SUFFICES ASSUME NEW n \in 1 .. len, NEW m \in 1 .. n - 1,
                      \/ Spends[Turn(n)] \cap Spends[Turn(m)] # {}
                      \/ Turn(m) \in AfterTurns[n - 1].invalid,
                      blockHeight[Turn(n)] # Unconfirmed
               PROVE  FALSE
  BY DEF OnlyUnconfirmedSpoiled, Spoiled
<1>3. m \in 1 .. len /\ m \in 0 .. n - 1 /\ n - 1 \in 0 .. len /\ m \in Nat /\ n \in Nat
  BY <1>1
<1>4. /\ Turn(m) \in Txs /\ Turn(n) \in Txs /\ Turn(m) \in Listed /\ Turn(n) \in Listed
      /\ Turn(m) \in Turned(m) /\ Turn(n) \in Turned(n)
  <2>1. /\ len + 1 - m \in DOMAIN transactions /\ len + 1 - n \in DOMAIN transactions
        /\ m \in 1 .. m /\ n \in 1 .. n
    BY <1>1, <1>3
  <2>2. QED
    BY <1>1, <1>3, <2>1, Positions DEF Turned, Turn
<1>5. blockHeight[Turn(n)] >= blockHeight[Turn(m)]
  <2>1. /\ len + 1 - m \in DOMAIN transactions /\ len + 1 - n \in DOMAIN transactions
        /\ len + 1 - n < len + 1 - m
    BY <1>1, <1>3
  <2>2. QED
    BY <2>1 DEF ByHeight, Turn
<1>6. blockHeight[Turn(m)] # Unconfirmed
  <2>1. blockHeight[Turn(m)] \in Heights /\ blockHeight[Turn(n)] \in Heights
    BY <1>4 DEF TypeOK
  <2>2. QED
    BY <1>2, <1>5, <2>1, AccountAssumption DEF AccountAssumption, HeightAssumption, Heights
<1>7. Turn(m) # Turn(n)
  <2>1. Turn(n) \notin Turned(n - 1)
    BY <1>1, TurnsOfList
  <2>2. Turn(m) \in Turned(n - 1)
    BY DEF Turned
  <2>3. QED
    BY <2>1, <2>2
<1>8. CASE Spends[Turn(n)] \cap Spends[Turn(m)] # {}
  BY <1>2, <1>4, <1>6, <1>7, <1>8 DEF ConfirmedApart, Conflict
<1>9. CASE Turn(m) \in AfterTurns[n - 1].invalid
  <2>1. Turn(m) \in AfterTurns[m].invalid
    BY <1>1, <1>3, <1>4, <1>9, DecidedOnce
  <2>2. QED
    BY <1>1, <1>3, <1>6, <2>1, TurnInvalid
<1>10. QED
  BY <1>2, <1>8, <1>9

-----------------------------------------------------------------------------
(* Nothing gets lost before a removal *)

\* The list and allTx have the same transactions, as the same objects; each can
\* still be found to belong to the account.
Whole ==
  /\ Listed = Known /\ twins = {}
  /\ \A t \in Known : CanContain(Known, t) /\ allTx[t] = blockHeight[t]
  /\ \A t \in Txs \ Known : blockHeight[t] = Unconfirmed

NothingLost == ~removed => Whole

\* What setBlockHeight does as long as nothing is lost.
LEMMA SetBlockHeightWhole ==
  ASSUME Shape, Whole, SetBlockHeightCall
  PROVE  LET h == Head(calls).height
             hashes == Head(calls).hashes
         IN  \E touched \in SUBSET Known :
               /\ touched \subseteq hashes
               /\ \A t \in hashes \cap Known : blockHeight[t] # h => t \in touched
               /\ allTx' = [t \in Known |-> IF t \in touched THEN h ELSE allTx[t]]
               /\ blockHeight' = [t \in Txs |-> IF t \in touched THEN h ELSE blockHeight[t]]
               /\ Listed' = Listed
               /\ IF NeedsUpdate(touched)
                  THEN /\ transactions' \in SortedLists(blockHeight')
                       /\ UpdateBalanceThen(transactions', Tail(calls))
                  ELSE calls' = Tail(calls) /\ UNCHANGED <<transactions, pass>>
<1> DEFINE h == Head(calls).height
           hashes == Head(calls).hashes
<1>1. PICK touched \in SUBSET (hashes \cap Known) :
        LET ours == {t \in touched : CanContain(Known, t)}
            kept == IF h = Unconfirmed THEN Known ELSE Known \ (touched \ ours)
        IN  /\ \A t \in hashes \cap Known : allTx[t] # h => t \in touched
            /\ allTx' = [t \in kept |-> IF t \in touched THEN h ELSE allTx[t]]
            /\ blockHeight' =
                 [t \in Txs |-> IF t \in (touched \cap Listed) \ twins THEN h ELSE blockHeight[t]]
            /\ IF NeedsUpdate(ours)
               THEN /\ transactions' \in SortedLists(blockHeight')
                    /\ UpdateBalanceThen(transactions', Tail(calls))
               ELSE calls' = Tail(calls) /\ UNCHANGED <<transactions, pass>>
  BY DEF SetBlockHeightCall, SetBlockHeight
<1>2. {t \in touched : CanContain(Known, t)} = touched
  BY DEF Whole
<1>3. (IF h = Unconfirmed THEN Known ELSE Known \ (touched \ touched)) = Known
  OBVIOUS
<1>4. (touched \cap Listed) \ twins = touched
  BY DEF Whole
<1>5. \A t \in hashes \cap Known : blockHeight[t] # h => t \in touched
  BY <1>1 DEF Whole
<1>6. Listed' = Listed
  <2>1. CASE transactions' = transactions
    BY <2>1 DEF Listed
  <2>2. CASE transactions' \in SortedLists(blockHeight')
    BY <2>2, ListedType, ArrangementDistinct DEF SortedLists, Shape, TypeOK
  <2>3. QED
    BY <1>1, <2>1, <2>2
<1> HIDE DEF h, hashes
<1>7. /\ allTx' = [t \in Known |-> IF t \in touched THEN h ELSE allTx[t]]
      /\ blockHeight' = [t \in Txs |-> IF t \in touched THEN h ELSE blockHeight[t]]
      /\ IF NeedsUpdate(touched)
         THEN /\ transactions' \in SortedLists(blockHeight')
              /\ UpdateBalanceThen(transactions', Tail(calls))
         ELSE calls' = Tail(calls) /\ UNCHANGED <<transactions, pass>>
  BY <1>1, <1>2, <1>3, <1>4
<1>8. QED
  BY <1>5, <1>6, <1>7 DEF h, hashes

\* A transaction is registered as long as nothing is lost: it is put on the list.
LEMMA RegisterWhole ==
  ASSUME Shape, Whole, NEW t \in Txs, RegisterTransaction(t)
  PROVE  /\ t \notin Listed /\ blockHeight[t] = Unconfirmed
         /\ transactions' = <<t>> \o transactions
         /\ Listed' = Listed \cup {t} /\ Known' = Known \cup {t}
         /\ UNCHANGED <<blockHeight, twins, cache, removed>>
<1>1. t \notin Known /\ t \notin Listed
  BY DEF RegisterTransaction, Whole
<1>2. transactions' = <<t>> \o transactions /\ UNCHANGED <<blockHeight, twins, cache, removed>>
  BY <1>1 DEF RegisterTransaction
<1>3. Listed' = Listed \cup {t}
  BY <1>2, PrependListed DEF Shape, TypeOK
<1>4. Known' = Known \cup {t}
  BY DEF RegisterTransaction, Known
<1>5. QED
  BY <1>1, <1>2, <1>3, <1>4 DEF Whole

\* Every step but a removal loses nothing.
LEMMA NextNothingLost ==
  ASSUME Shape, NothingLost, [Next]_vars
  PROVE  NothingLost'
<1>1. ASSUME UNCHANGED <<allTx, transactions, twins, blockHeight, removed>>
      PROVE  NothingLost'
  BY <1>1 DEF NothingLost, Whole, Listed, Known, CanContain
<1>2. ASSUME NEW t \in Txs, RegisterTransaction(t)
      PROVE  NothingLost'
  <2>1. SUFFICES ASSUME ~removed
                 PROVE  Whole'
    BY <1>2 DEF NothingLost, RegisterTransaction
  <2>2. Whole
    BY <2>1 DEF NothingLost
  <2>3. /\ t \notin Listed /\ blockHeight[t] = Unconfirmed
        /\ Listed' = Listed \cup {t} /\ Known' = Known \cup {t}
        /\ UNCHANGED <<blockHeight, twins, cache, removed>>
    BY <1>2, <2>2, RegisterWhole
  <2>4. \A u \in Known' : allTx'[u] = IF u = t THEN Unconfirmed ELSE allTx[u]
    BY <1>2, <2>3 DEF RegisterTransaction
  <2>5. \A u \in Known' : CanContain(Known, u)
    BY <1>2, <2>2, <2>3 DEF RegisterTransaction, Whole
  <2>6. \A u \in Known' : CanContain(Known, u)'
    BY <2>3, <2>5 DEF CanContain
  <2>7. QED
    BY <2>2, <2>3, <2>4, <2>6 DEF Whole
<1>3. ASSUME NEW t \in Txs, RemoveTransaction(t)
      PROVE  NothingLost'
  BY <1>3 DEF RemoveTransaction, NothingLost
<1>4. CASE SetBlockHeightCall
  <2>1. SUFFICES ASSUME ~removed
                 PROVE  Whole'
    BY <1>4 DEF NothingLost, SetBlockHeightCall
  <2>2. Whole /\ Known \subseteq Txs
    BY <2>1 DEF NothingLost, Shape, TypeOK
  <2> DEFINE h == Head(calls).height
  <2>3. PICK touched \in SUBSET Known :
          /\ allTx' = [t \in Known |-> IF t \in touched THEN h ELSE allTx[t]]
          /\ blockHeight' = [t \in Txs |-> IF t \in touched THEN h ELSE blockHeight[t]]
          /\ Listed' = Listed
    BY <1>4, <2>2, SetBlockHeightWhole
  <2>4. Known' = Known /\ twins' = twins
    BY <1>4, <2>3 DEF Known, SetBlockHeightCall
  <2> HIDE DEF h
  <2>5. \A t \in Known : allTx'[t] = blockHeight'[t]
    BY <2>2, <2>3 DEF Whole
  <2>6. \A t \in Known : CanContain(Known, t)'
    BY <2>2, <2>4 DEF Whole, CanContain
  <2>7. \A t \in Txs \ Known : blockHeight'[t] = Unconfirmed
    BY <2>2, <2>3 DEF Whole
  <2>8. QED
    BY <2>2, <2>3, <2>4, <2>5, <2>6, <2>7 DEF Whole
<1>5. CASE Wipe
  <2>1. Listed' = {} /\ Known' = {} /\ twins' = {} /\ \A t \in Txs : blockHeight'[t] = Unconfirmed
    BY <1>5 DEF Wipe, Listed, Known
  <2>2. QED
    BY <2>1 DEF NothingLost, Whole
<1>6. QED
  BY <1>1, <1>2, <1>3, <1>4, <1>5
     DEF Next, HandlerStep, UpdateBalanceStep, FinishUpdateBalance, ChainUpdatedBlockHeight, NewTip,
         SetTimestamp, ExtendSyncChain, ReplaceSyncBlock, Reorganize, vars

-----------------------------------------------------------------------------
(* Heights are those of the chain *)

\* A call that sets the height of a block sets it for transactions in that block.
OnChain(call) ==
  call.op = "setBlockHeight" =>
    call.height # Unconfirmed /\ call.hashes \subseteq MinedAt(mined, call.height)

\* Only the first call makes transactions unconfirmed.
CallsOnChain ==
  \A i \in DOMAIN calls :
    OnChain(calls[i]) \/ (i = 1 /\ calls[i].op = "setBlockHeight" /\ calls[i].height = Unconfirmed)

\* t is about to become unconfirmed.
Unconfirming(t) ==
  Running("setBlockHeight") /\ Head(calls).height = Unconfirmed /\ t \in Head(calls).hashes

\* As long as nothing is lost: a confirmed transaction has the height at which the
\* chain has it, unless it is about to become unconfirmed.
HeightsOnChain ==
  ~removed =>
    \A t \in Listed : blockHeight[t] # Unconfirmed => mined[t] = blockHeight[t] \/ Unconfirming(t)

MinedInv == IsChain(mined) /\ CallsOnChain /\ HeightsOnChain

\* The head of a list of calls is its first element, the tail the others.
LEMMA TailOnChain ==
  ASSUME Shape, CallsOnChain, calls # <<>>
  PROVE  /\ Tail(calls) \in Seq(Calls)
         /\ \A i \in DOMAIN Tail(calls) : OnChain(Tail(calls)[i])
         /\ OnChain(Head(calls))
              \/ (Head(calls).op = "setBlockHeight" /\ Head(calls).height = Unconfirmed)
<1>1. calls \in Seq(Calls) /\ Len(calls) \in Nat \ {0} /\ DOMAIN calls = 1 .. Len(calls)
  BY EmptySeq, LenProperties DEF Shape, TypeOK
<1>2. /\ Tail(calls) \in Seq(Calls) /\ Len(Tail(calls)) = Len(calls) - 1
      /\ \A i \in 1 .. Len(Tail(calls)) : Tail(calls)[i] = calls[i + 1]
  BY <1>1, HeadTailProperties
<1>3. DOMAIN Tail(calls) = 1 .. Len(Tail(calls))
  BY <1>2, LenProperties
<1>4. ASSUME NEW i \in DOMAIN Tail(calls)
      PROVE  OnChain(Tail(calls)[i])
  <2>1. i + 1 \in DOMAIN calls /\ i + 1 # 1 /\ Tail(calls)[i] = calls[i + 1]
    BY <1>1, <1>2, <1>3
  <2>2. QED
    BY <2>1 DEF CallsOnChain
<1>5. Head(calls) = calls[1] /\ 1 \in DOMAIN calls
  BY <1>1
<1>6. QED
  BY <1>2, <1>4, <1>5 DEF CallsOnChain

\* A list of calls that are all on the chain becomes the calls.
LEMMA CallsBecome ==
  ASSUME NEW list, \A i \in DOMAIN list : OnChain(list[i])', calls' = list
  PROVE  CallsOnChain'
BY DEF CallsOnChain, OnChain

\* updateBalance is called before calls that are all on the chain.
LEMMA UpdateOnChain ==
  ASSUME NEW list, NEW rest \in Seq(Calls), UpdateBalanceThen(list, rest),
         \A i \in DOMAIN rest : OnChain(rest[i])'
  PROVE  CallsOnChain'
<1> DEFINE call == Call("updateBalance", 0, {})
<1>1. calls' = <<call>> \o rest /\ call.op = "updateBalance" /\ call \in Calls
  BY AccountAssumption
     DEF AccountAssumption, HeightAssumption, UpdateBalanceThen, Call, Calls, Heights
<1> HIDE DEF call
<1>2. <<call>> \in Seq(Calls) /\ Len(<<call>>) = 1 /\ <<call>>[1] = call
  BY <1>1
<1>3. /\ calls' \in Seq(Calls) /\ Len(calls') = 1 + Len(rest)
      /\ \A i \in 1 .. 1 + Len(rest) : calls'[i] = IF i <= 1 THEN <<call>>[i] ELSE rest[i - 1]
  BY <1>1, <1>2, ConcatProperties
<1>4. DOMAIN calls' = 1 .. 1 + Len(rest) /\ DOMAIN rest = 1 .. Len(rest) /\ Len(rest) \in Nat
  BY <1>3, LenProperties
<1>5. ASSUME NEW i \in DOMAIN calls'
      PROVE  OnChain(calls[i])'
  <2>1. CASE i = 1
    <3>1. calls'[i] = call
      BY <1>2, <1>3, <1>4, <2>1
    <3>2. QED
      BY <1>1, <3>1 DEF OnChain
  <2>2. CASE i # 1
    <3>1. i - 1 \in DOMAIN rest /\ calls'[i] = rest[i - 1]
      BY <1>3, <1>4, <2>2
    <3>2. OnChain(rest[i - 1])'
      BY <3>1
    <3>3. QED
      BY <3>1, <3>2 DEF OnChain
  <2>3. QED
    BY <2>1, <2>2
<1>6. QED
  BY <1>5 DEF CallsOnChain, OnChain

\* The call that a block makes is on the chain.
LEMMA BlockOnChain ==
  ASSUME NEW h, h # Unconfirmed, NEW S, S \subseteq MinedAt(mined', h), NEW matched \in BOOLEAN
  PROVE  OnChain(BlockCall(h, S, matched))'
BY DEF OnChain, BlockCall, Call, MinedAt

\* A single call.
LEMMA OneOnChain ==
  ASSUME NEW call, calls' = <<call>>,
         OnChain(call)' \/ (call.op = "setBlockHeight" /\ call.height = Unconfirmed)
  PROVE  CallsOnChain'
<1>1. DOMAIN calls' = {1} /\ calls'[1] = call
  OBVIOUS
<1>2. OnChain(calls[1])' \/ (calls'[1].op = "setBlockHeight" /\ calls'[1].height = Unconfirmed)
  BY <1>1 DEF OnChain
<1>3. QED
  BY <1>1, <1>2 DEF CallsOnChain, OnChain

\* A reorganisation: one call makes transactions unconfirmed, those of the blocks
\* are on the new chain.
LEMMA ReorganizeOnChain ==
  ASSUME Shape, NEW join \in 0 .. MaxHeight, NEW top \in 1 .. MaxHeight,
         NEW heights \in [Txs -> Heights], join < top, Reorganize(join, top, heights)
  PROVE  /\ CallsOnChain'
         /\ \A t \in Listed : blockHeight[t] > join /\ blockHeight[t] # Unconfirmed => Unconfirming(t)'
<1> DEFINE above == {t \in Listed : blockHeight[t] > join /\ blockHeight[t] # Unconfirmed}
           block(i) == BlockCall(top + 1 - i, MinedAt(heights, top + 1 - i),
                                 MinedAt(heights, top + 1 - i) # {})
           blocks == [i \in 1 .. top - join |-> block(i)]
           first == Call("setBlockHeight", Unconfirmed, above)
           last == Call("newTip", top, {})
<1>1. MaxHeight \in Nat /\ Unconfirmed \in Heights /\ top \in Heights /\ Unconfirmed > MaxHeight
  BY AccountAssumption DEF AccountAssumption, HeightAssumption, Heights
<1>2. first.op = "setBlockHeight" /\ first.height = Unconfirmed /\ first.hashes = above
  BY DEF Call
<1>3. last.op = "newTip"
  BY DEF Call
<1>4. calls' = <<first>> \o blocks \o <<last>> /\ mined' = heights
  BY DEF Reorganize
<1>5. ASSUME NEW i \in 1 .. top - join
      PROVE  OnChain(block(i))' /\ block(i) \in Calls
  <2>1. top + 1 - i # Unconfirmed /\ top + 1 - i \in Heights
    BY <1>1 DEF Heights
  <2>2. MinedAt(heights, top + 1 - i) \in SUBSET Txs
    BY DEF MinedAt
  <2>3. MinedAt(heights, top + 1 - i) \subseteq MinedAt(mined', top + 1 - i)
    BY <1>4
  <2>4. QED
    BY <2>1, <2>2, <2>3, BlockOnChain, BlockCallWaits
<1>6. first \in Calls /\ last \in Calls
  BY <1>1, ListedType DEF Call, Calls, Shape, TypeOK
<1>7. \A i \in 1 .. top - join : blocks[i] = block(i)
  OBVIOUS
<1>8. top - join \in Nat /\ blocks \in [1 .. top - join -> Calls]
  BY <1>1, <1>5
<1>9. blocks \in Seq(Calls) /\ Len(blocks) = top - join
  <2> HIDE DEF blocks
  <2>1. QED
    BY <1>8, FunctionIsSeq
<1> HIDE DEF first, last, block, blocks, above
<1> DEFINE n == top - join
           one == <<first>>
           end == <<last>>
<1>10. /\ one \in Seq(Calls) /\ Len(one) = 1 /\ one[1] = first
       /\ end \in Seq(Calls) /\ Len(end) = 1 /\ end[1] = last
  BY <1>6
<1> HIDE DEF one, end
<1>11. /\ one \o blocks \in Seq(Calls) /\ Len(one \o blocks) = 1 + n
       /\ \A i \in 1 .. 1 + n : (one \o blocks)[i] = IF i <= 1 THEN one[i] ELSE blocks[i - 1]
  <2>1. /\ one \o blocks \in Seq(Calls) /\ Len(one \o blocks) = Len(one) + Len(blocks)
        /\ \A i \in 1 .. Len(one) + Len(blocks) :
             (one \o blocks)[i] = IF i <= Len(one) THEN one[i] ELSE blocks[i - Len(one)]
    BY <1>9, <1>10, ConcatProperties
  <2>2. QED
    BY <1>9, <1>10, <2>1
<1>12. /\ calls' \in Seq(Calls) /\ Len(calls') = (1 + n) + 1
       /\ \A i \in 1 .. (1 + n) + 1 :
            calls'[i] = IF i <= 1 + n THEN (one \o blocks)[i] ELSE end[i - (1 + n)]
  <2> DEFINE front == one \o blocks
  <2>1. calls' = front \o end
    BY <1>4 DEF one, end
  <2> HIDE DEF front
  <2>2. front \in Seq(Calls) /\ Len(front) = 1 + n
    BY <1>11 DEF front
  <2>3. /\ front \o end \in Seq(Calls) /\ Len(front \o end) = Len(front) + Len(end)
        /\ \A i \in 1 .. Len(front) + Len(end) :
             (front \o end)[i] = IF i <= Len(front) THEN front[i] ELSE end[i - Len(front)]
    BY <1>10, <2>2, ConcatProperties
  <2>4. QED
    BY <1>10, <2>1, <2>2, <2>3 DEF front
<1>13. DOMAIN calls' = 1 .. (1 + n) + 1 /\ n \in Nat
  BY <1>8, <1>12, LenProperties
<1>14. calls'[1] = first
  <2>1. 1 \in 1 .. (1 + n) + 1 /\ 1 \in 1 .. 1 + n /\ 1 <= 1 + n
    BY <1>13
  <2>2. calls'[1] = (one \o blocks)[1]
    BY <1>12, <2>1
  <2>3. QED
    BY <1>10, <1>11, <2>1, <2>2
<1>15. ASSUME NEW i \in 2 .. (1 + n) + 1
       PROVE  OnChain(calls[i])'
  <2>1. CASE i <= 1 + n
    <3>1. i \in 1 .. 1 + n /\ i \in 1 .. (1 + n) + 1 /\ i - 1 \in 1 .. n /\ ~(i <= 1)
      BY <1>13, <2>1
    <3>2. calls'[i] = (one \o blocks)[i]
      BY <1>12, <2>1, <3>1
    <3>3. calls'[i] = blocks[i - 1]
      BY <1>11, <3>1, <3>2
    <3>4. calls'[i] = block(i - 1)
      BY <1>7, <3>1, <3>3
    <3>5. QED
      BY <1>5, <3>1, <3>4 DEF OnChain
  <2>2. CASE i > 1 + n
    <3>1. i = (1 + n) + 1 /\ i - (1 + n) = 1 /\ i \in 1 .. (1 + n) + 1
      BY <1>13, <2>2
    <3>2. calls'[i] = last
      BY <1>10, <1>12, <2>2, <3>1
    <3>3. QED
      BY <1>3, <3>2 DEF OnChain
  <2>3. QED
    BY <1>13, <2>1, <2>2
<1>16. \A i \in DOMAIN calls' : i = 1 \/ i \in 2 .. (1 + n) + 1
  BY <1>13
<1>17. CallsOnChain'
  BY <1>2, <1>14, <1>15, <1>16 DEF CallsOnChain, OnChain
<1>18. calls' # <<>> /\ Head(calls') = calls'[1]
  BY <1>12, <1>13, EmptySeq
<1>19. \A t \in above : Unconfirming(t)'
  BY <1>2, <1>14, <1>18 DEF Unconfirming, Running
<1>20. QED
  BY <1>17, <1>19 DEF above

\* The running handler takes its calls one by one; the others stay on the chain.
LEMMA HandlerOnChain ==
  ASSUME Shape, CallsOnChain, calls # <<>>, UNCHANGED mined,
         \/ calls' = Tail(calls)
         \/ \E list : UpdateBalanceThen(list, Tail(calls))
  PROVE  CallsOnChain'
<1>1. Tail(calls) \in Seq(Calls) /\ \A i \in DOMAIN Tail(calls) : OnChain(Tail(calls)[i])
  BY TailOnChain
<1>2. \A call : OnChain(call)' <=> (call.op = "setBlockHeight" =>
                    call.height # Unconfirmed /\ call.hashes \subseteq MinedAt(mined, call.height))
  BY DEF OnChain, MinedAt
<1> DEFINE rest == Tail(calls)
<1>3. \A i \in DOMAIN rest :
        rest[i].op = "setBlockHeight" =>
          rest[i].height # Unconfirmed /\ rest[i].hashes \subseteq MinedAt(mined, rest[i].height)
  BY <1>1 DEF OnChain
<1>4. PICK list : list = rest
  OBVIOUS
<1> HIDE DEF rest
<1>5. \A i \in DOMAIN list : OnChain(list[i])'
  BY <1>3, <1>4 DEF OnChain, MinedAt
<1>6. CASE calls' = Tail(calls)
  BY <1>4, <1>5, <1>6, CallsBecome DEF rest
<1>7. CASE \E l : UpdateBalanceThen(l, Tail(calls))
  <2>1. PICK l : UpdateBalanceThen(l, list)
    BY <1>4, <1>7 DEF rest
  <2>2. list \in Seq(Calls)
    BY <1>1, <1>4 DEF rest
  <2>3. QED
    BY <1>5, <2>1, <2>2, UpdateOnChain
<1>8. QED
  BY <1>6, <1>7

\* Every step keeps the calls on the chain.
LEMMA NextCallsOnChain ==
  ASSUME Shape, CallsOnChain, [Next]_vars
  PROVE  CallsOnChain'
<1>1. ASSUME UNCHANGED <<calls, mined>>
      PROVE  CallsOnChain'
  BY <1>1 DEF CallsOnChain, OnChain, MinedAt
<1>2. CASE FinishUpdateBalance \/ SetBlockHeightCall \/ ChainUpdatedBlockHeight \/ NewTip
  <2>1. calls # <<>> /\ UNCHANGED mined
    BY <1>2 DEF FinishUpdateBalance, SetBlockHeightCall, ChainUpdatedBlockHeight, NewTip, Running, chain
  <2>2. \/ calls' = Tail(calls)
        \/ \E list : UpdateBalanceThen(list, Tail(calls))
    BY <1>2 DEF FinishUpdateBalance, SetBlockHeightCall, SetBlockHeight, ChainUpdatedBlockHeight, NewTip
  <2>3. QED
    BY <2>1, <2>2, HandlerOnChain
<1>3. ASSUME NEW list, UpdateBalanceThen(list, <<>>)
      PROVE  CallsOnChain'
  <2>1. <<>> \in Seq(Calls) /\ DOMAIN <<>> = {}
    BY EmptySeq
  <2>2. PICK none \in Seq(Calls) : none = <<>> /\ DOMAIN none = {}
    BY <2>1
  <2>3. QED
    BY <1>3, <2>2, UpdateOnChain
<1>4. ASSUME NEW t \in Txs, RegisterTransaction(t) \/ RemoveTransaction(t)
      PROVE  CallsOnChain'
  BY <1>3, <1>4 DEF RegisterTransaction, RemoveTransaction
<1>5. CASE Wipe
  BY <1>3, <1>5 DEF Wipe
<1>6. ASSUME NEW t \in Txs, SetTimestamp(t)
      PROVE  CallsOnChain'
  <2> DEFINE call == Call("setBlockHeight", Unconfirmed, {t})
  <2>1. calls' = <<call>> /\ call.op = "setBlockHeight" /\ call.height = Unconfirmed
    BY <1>6 DEF SetTimestamp, Call
  <2> HIDE DEF call
  <2>2. QED
    BY <2>1, OneOnChain
<1>7. \A h \in 0 .. MaxHeight : h # Unconfirmed
  BY AccountAssumption DEF AccountAssumption, HeightAssumption
<1>8. ASSUME NEW S \in SUBSET Txs, NEW matched \in BOOLEAN, ExtendSyncChain(S, matched)
      PROVE  CallsOnChain'
  <2>1. PICK h : h = lastSyncBlockHeight + 1
    OBVIOUS
  <2>2. PICK call : call = BlockCall(h, S, matched)
    OBVIOUS
  <2>3. h # Unconfirmed
    BY <1>8, <2>1, AccountAssumption
       DEF ExtendSyncChain, Shape, TypeOK, AccountAssumption, HeightAssumption
  <2>4. S \subseteq MinedAt(mined', h) /\ calls' = <<call>>
    BY <1>8, <2>1, <2>2 DEF ExtendSyncChain, MinedAt
  <2>5. OnChain(BlockCall(h, S, matched))'
    BY <2>3, <2>4, BlockOnChain
  <2>6. OnChain(call)'
    BY <2>2, <2>5 DEF OnChain
  <2>7. QED
    BY <2>4, <2>6, OneOnChain
<1>9. ASSUME NEW h \in 1 .. lastSyncBlockHeight, ReplaceSyncBlock(h)
      PROVE  CallsOnChain'
  <2>1. PICK S : S = MinedAt(mined, h)
    OBVIOUS
  <2>2. PICK matched \in BOOLEAN : matched = (S # {})
    OBVIOUS
  <2>3. PICK call : call = BlockCall(h, S, matched)
    OBVIOUS
  <2>4. h # Unconfirmed
    BY <1>7, AccountAssumption DEF Shape, TypeOK, AccountAssumption, HeightAssumption
  <2>5. S \subseteq MinedAt(mined', h) /\ calls' = <<call>>
    BY <1>9, <2>1, <2>2, <2>3 DEF ReplaceSyncBlock, chain
  <2>6. OnChain(BlockCall(h, S, matched))'
    BY <2>4, <2>5, BlockOnChain
  <2>7. OnChain(call)'
    BY <2>3, <2>6 DEF OnChain
  <2>8. QED
    BY <2>5, <2>7, OneOnChain
<1>10. ASSUME NEW join \in 0 .. MaxHeight, NEW top \in 1 .. MaxHeight, NEW heights \in [Txs -> Heights],
              join < top, Reorganize(join, top, heights)
       PROVE  CallsOnChain'
  BY <1>10, ReorganizeOnChain
<1>11. QED
  BY <1>1, <1>2, <1>4, <1>5, <1>6, <1>8, <1>9, <1>10
     DEF Next, HandlerStep, UpdateBalanceStep, vars, chain

\* The blocks on the chain fit together.
LEMMA NextIsChain ==
  ASSUME Shape, IsChain(mined), [Next]_vars
  PROVE  IsChain(mined')
<1>1. CASE UNCHANGED mined
  BY <1>1
<1>2. CASE Wipe
  <2>1. \A t \in Txs : mined'[t] = Unconfirmed
    BY <1>2 DEF Wipe
  <2>2. QED
    BY <2>1 DEF IsChain
<1>3. ASSUME NEW S \in SUBSET Txs, NEW matched \in BOOLEAN, ExtendSyncChain(S, matched)
      PROVE  IsChain(mined')
  BY <1>3 DEF ExtendSyncChain
<1>4. ASSUME NEW join, NEW top, NEW heights, Reorganize(join, top, heights)
      PROVE  IsChain(mined')
  BY <1>4 DEF Reorganize
<1>5. QED
  BY <1>1, <1>2, <1>3, <1>4
     DEF Next, HandlerStep, UpdateBalanceStep, FinishUpdateBalance, SetBlockHeightCall,
         ChainUpdatedBlockHeight, NewTip, RegisterTransaction, RemoveTransaction, SetTimestamp,
         ReplaceSyncBlock, chain, vars

\* Every step keeps the heights of confirmed transactions those of the chain.
LEMMA NextHeightsOnChain ==
  ASSUME Shape, NothingLost, MinedInv, [Next]_vars
  PROVE  HeightsOnChain'
<1>1. CASE UNCHANGED vars
  BY <1>1 DEF vars, chain, MinedInv, HeightsOnChain, Listed, Unconfirming, Running
<1>2. ASSUME ~Running("setBlockHeight"), Listed' = Listed, UNCHANGED <<removed, blockHeight, mined>>
      PROVE  HeightsOnChain'
  BY <1>2 DEF MinedInv, HeightsOnChain, Unconfirming
<1>3. CASE UpdateBalanceStep \/ FinishUpdateBalance \/ ChainUpdatedBlockHeight \/ NewTip
  <2>1. ~Running("setBlockHeight") /\ UNCHANGED <<transactions, removed, blockHeight, mined>>
    BY <1>3 DEF UpdateBalanceStep, FinishUpdateBalance, ChainUpdatedBlockHeight, NewTip, Running, chain
  <2>2. QED
    BY <1>2, <2>1 DEF Listed
<1>4. Idle => ~Running("setBlockHeight")
  BY DEF Idle, Running
<1>5. ASSUME NEW t \in Txs, RegisterTransaction(t)
      PROVE  HeightsOnChain'
  <2>1. SUFFICES ASSUME ~removed
                 PROVE  \A u \in Listed' : blockHeight'[u] # Unconfirmed => mined'[u] = blockHeight'[u]
    BY <1>5 DEF HeightsOnChain, RegisterTransaction
  <2>2. Whole
    BY <2>1 DEF NothingLost
  <2>3. /\ blockHeight[t] = Unconfirmed /\ Listed' = Listed \cup {t}
        /\ UNCHANGED <<blockHeight, mined>>
    BY <1>5, <2>2, RegisterWhole DEF RegisterTransaction, chain
  <2>4. ~Running("setBlockHeight")
    BY <1>4, <1>5 DEF RegisterTransaction
  <2>5. QED
    BY <2>1, <2>3, <2>4 DEF MinedInv, HeightsOnChain, Unconfirming
<1>6. ASSUME NEW t \in Txs, RemoveTransaction(t)
      PROVE  HeightsOnChain'
  BY <1>6 DEF HeightsOnChain, RemoveTransaction
<1>7. ASSUME NEW t \in Txs, SetTimestamp(t)
      PROVE  HeightsOnChain'
  BY <1>2, <1>4, <1>7 DEF SetTimestamp, chain, Listed
<1>8. ASSUME NEW h, ReplaceSyncBlock(h)
      PROVE  HeightsOnChain'
  BY <1>2, <1>4, <1>8 DEF ReplaceSyncBlock, chain, Listed
<1>9. CASE Wipe
  BY <1>9 DEF Wipe, HeightsOnChain, Listed
<1>10. ASSUME NEW S \in SUBSET Txs, NEW matched \in BOOLEAN, ExtendSyncChain(S, matched)
       PROVE  HeightsOnChain'
  <2>1. SUFFICES ASSUME ~removed, NEW t \in Listed, blockHeight[t] # Unconfirmed
                 PROVE  mined'[t] = blockHeight[t]
    BY <1>10 DEF HeightsOnChain, ExtendSyncChain, Listed
  <2>2. t \in Txs
    BY ListedType DEF Shape, TypeOK
  <2>3. mined[t] = blockHeight[t]
    BY <1>4, <1>10, <2>1 DEF ExtendSyncChain, MinedInv, HeightsOnChain, Unconfirming
  <2>4. t \notin S
    BY <1>10, <2>1, <2>3 DEF ExtendSyncChain, MinedAt
  <2>5. QED
    BY <1>10, <2>2, <2>3, <2>4 DEF ExtendSyncChain
<1>11. ASSUME NEW join \in 0 .. MaxHeight, NEW top \in 1 .. MaxHeight, NEW heights \in [Txs -> Heights],
              join < top, Reorganize(join, top, heights)
       PROVE  HeightsOnChain'
  <2>1. SUFFICES ASSUME ~removed, NEW t \in Listed, blockHeight[t] # Unconfirmed, ~Unconfirming(t)'
                 PROVE  mined'[t] = blockHeight[t]
    BY <1>11 DEF HeightsOnChain, Reorganize, Listed
  <2>2. t \in Txs
    BY ListedType DEF Shape, TypeOK
  <2>3. mined[t] = blockHeight[t]
    BY <1>4, <1>11, <2>1 DEF Reorganize, MinedInv, HeightsOnChain, Unconfirming
  <2>4. ~(blockHeight[t] > join)
    BY <1>11, <2>1, ReorganizeOnChain
  <2>5. blockHeight[t] \in Nat
    BY <2>2, AccountAssumption DEF Shape, TypeOK, Heights, AccountAssumption, HeightAssumption
  <2>6. mined[t] <= join
    BY <2>3, <2>4, <2>5
  <2>7. QED
    BY <1>11, <2>2, <2>3, <2>6 DEF Reorganize
<1>12. CASE SetBlockHeightCall
  <2>1. SUFFICES ASSUME ~removed
                 PROVE  \A t \in Listed' : blockHeight'[t] # Unconfirmed => mined'[t] = blockHeight'[t]
    BY <1>12 DEF HeightsOnChain, SetBlockHeightCall
  <2> DEFINE h == Head(calls).height
             hashes == Head(calls).hashes
  <2>2. Whole /\ calls # <<>> /\ Head(calls).op = "setBlockHeight" /\ UNCHANGED mined
    BY <1>12, <2>1 DEF NothingLost, SetBlockHeightCall, Running, chain
  <2>3. PICK touched \in SUBSET Known :
          /\ touched \subseteq hashes
          /\ \A t \in hashes \cap Known : blockHeight[t] # h => t \in touched
          /\ blockHeight' = [t \in Txs |-> IF t \in touched THEN h ELSE blockHeight[t]]
          /\ Listed' = Listed
    BY <1>12, <2>2, SetBlockHeightWhole
  <2>4. h = Unconfirmed \/ hashes \subseteq MinedAt(mined, h)
    BY <2>2, TailOnChain DEF MinedInv, OnChain
  <2> HIDE DEF h, hashes
  <2>5. SUFFICES ASSUME NEW t \in Listed, blockHeight'[t] # Unconfirmed
                 PROVE  mined[t] = blockHeight'[t]
    BY <2>2, <2>3
  <2>6. t \in Txs /\ t \in Known
    BY <2>2, ListedType DEF Shape, TypeOK, Whole
  <2>7. CASE t \in touched
    <3>1. blockHeight'[t] = h /\ h # Unconfirmed /\ t \in hashes
      BY <2>3, <2>5, <2>6, <2>7
    <3>2. QED
      BY <2>4, <3>1 DEF MinedAt
  <2>8. CASE t \notin touched
    <3>1. blockHeight'[t] = blockHeight[t] /\ blockHeight[t] # Unconfirmed
      BY <2>3, <2>5, <2>6, <2>8
    <3>2. ~Unconfirming(t)
      BY <2>3, <2>6, <2>8, <3>1 DEF Unconfirming, h, hashes
    <3>3. QED
      BY <2>1, <3>1, <3>2 DEF MinedInv, HeightsOnChain
  <2>9. QED
    BY <2>7, <2>8
<1>13. QED
  BY <1>1, <1>3, <1>5, <1>6, <1>7, <1>8, <1>9, <1>10, <1>11, <1>12 DEF Next, HandlerStep

\* While updateBalance runs, no two confirmed transactions conflict.
LEMMA ConfirmedDoNotConflict ==
  ASSUME Shape, MinedInv, ~removed, Running("updateBalance")
  PROVE  ConfirmedApart
<1>1. \A t : ~Unconfirming(t)
  BY DEF Running, Unconfirming
<1>2. Listed \subseteq Txs
  BY ListedType DEF Shape, TypeOK
<1>3. SUFFICES ASSUME NEW t \in Listed, NEW u \in Listed,
                      blockHeight[t] # Unconfirmed, blockHeight[u] # Unconfirmed, Conflict(t, u)
               PROVE  FALSE
  BY DEF ConfirmedApart
<1>4. mined[t] # Unconfirmed /\ mined[u] # Unconfirmed
  BY <1>1, <1>3 DEF MinedInv, HeightsOnChain
<1>5. QED
  BY <1>2, <1>3, <1>4 DEF MinedInv, IsChain

\* Every step keeps the blocks, the calls and the heights in agreement.
LEMMA NextMinedInv ==
  ASSUME Shape, NothingLost, MinedInv, [Next]_vars
  PROVE  MinedInv'
BY NextIsChain, NextCallsOnChain, NextHeightsOnChain DEF MinedInv, IsChain

-----------------------------------------------------------------------------
(* A running updateBalance *)

\* The turns do not depend on what a turn changes.
LEMMA TurnsKept ==
  ASSUME UNCHANGED <<allTx, transactions, blockHeight, bestBlockHeight, lastSyncBlockHeight>>,
         NEW f, NEW n
  PROVE  Turns(f, n)' <=> Turns(f, n)
<1>1. \A r, t : Process(r, t)' = Process(r, t)
  BY DEF Process, IsInvalid, IsPending, IsLocked, Count, Known
<1>2. \A k : Turn(k)' = Turn(k)
  BY DEF Turn
<1>3. QED
  BY <1>1, <1>2 DEF Turns

\* A running updateBalance has the results of its turns so far.
TurnsInv ==
  Running("updateBalance") =>
    \E f : /\ Turns(f, Len(transactions) - pass.at)
          /\ f[Len(transactions) - pass.at] = pass.results

\* A turn adds one, and every other step leaves updateBalance at its start.
LEMMA NextTurnsInv ==
  ASSUME Shape, TurnsInv, [Next]_vars
  PROVE  TurnsInv'
<1>1. transactions \in Seq(Txs) /\ Len(transactions) \in Nat
  BY LenProperties DEF Shape, TypeOK
<1>2. CASE UNCHANGED vars
  <2>1. UNCHANGED <<allTx, transactions, blockHeight, bestBlockHeight, lastSyncBlockHeight, pass, calls>>
    BY <1>2 DEF vars, chain
  <2>2. CASE ~Running("updateBalance")
    BY <2>1, <2>2 DEF TurnsInv, Running
  <2>3. CASE Running("updateBalance")
    <3>1. PICK n : n = Len(transactions) - pass.at
      OBVIOUS
    <3>2. PICK f : Turns(f, n) /\ f[n] = pass.results
      BY <2>3, <3>1 DEF TurnsInv
    <3>3. Turns(f, n)'
      BY <2>1, <3>2, TurnsKept
    <3>4. n = Len(transactions') - pass'.at /\ f[n] = pass'.results
      BY <2>1, <3>1, <3>2
    <3>5. QED
      BY <3>3, <3>4 DEF TurnsInv
  <2>4. QED
    BY <2>2, <2>3
<1>3. CASE UpdateBalanceStep
  <2>1. UNCHANGED <<allTx, transactions, blockHeight, bestBlockHeight, lastSyncBlockHeight, calls>>
        /\ Running("updateBalance")
        /\ pass' = [at |-> pass.at - 1, results |-> Process(pass.results, transactions[pass.at])]
    BY <1>3 DEF UpdateBalanceStep, chain
  <2>2. pass.at \in 1 .. Len(transactions)
    BY <1>1, <1>3 DEF Shape, TypeOK, CallsInv, UpdateBalanceStep
  <2>3. PICK n : n = Len(transactions) - pass.at
    OBVIOUS
  <2>4. PICK f : Turns(f, n) /\ f[n] = pass.results
    BY <2>1, <2>3 DEF TurnsInv
  <2>5. n \in 0 .. Len(transactions) - 1 /\ Len(transactions) + 1 - (n + 1) = pass.at
    BY <1>1, <2>2, <2>3
  <2>6. PICK g : Turns(g, n + 1) /\ g[n + 1] = Process(f[n], Turn(n + 1))
    BY <1>1, <2>4, <2>5, TurnsNext
  <2>7. Turns(g, n + 1)'
    BY <2>1, <2>6, TurnsKept
  <2>8. n + 1 = Len(transactions') - pass'.at /\ g[n + 1] = pass'.results
    BY <1>1, <2>1, <2>2, <2>3, <2>4, <2>5, <2>6 DEF Turn
  <2>9. QED
    BY <2>7, <2>8 DEF TurnsInv
<1>4. CASE OtherStep
  <2>1. SUFFICES ASSUME Running("updateBalance")'
                 PROVE  \E f : /\ Turns(f, Len(transactions) - pass.at)'
                              /\ f[Len(transactions') - pass'.at] = pass'.results
    BY DEF TurnsInv
  <2>2. pass' = StartPass(transactions') /\ transactions' \in Seq(Txs)
    BY <1>4, <2>1, OtherStepShape DEF Fresh, Shape, TypeOK
  <2>3. Len(transactions') - pass'.at = 0 /\ pass'.results = NoResults
    BY <2>2, LenProperties DEF StartPass
  <2> DEFINE f == [k \in 0 .. 0 |-> NoResults]
  <2>4. Turns(f, 0)'
    BY NoResultsType DEF Turns
  <2>5. f[0] = NoResults
    OBVIOUS
  <2> HIDE DEF f
  <2>6. QED
    BY <2>3, <2>4, <2>5
<1>5. QED
  BY <1>2, <1>3, <1>4, NextSplit

\* What the end of updateBalance leaves.
LEMMA FinishedRecomputed ==
  ASSUME Shape, TurnsInv, FinishUpdateBalance
  PROVE  cache' = Recomputed
<1>1. transactions \in Seq(Txs) /\ Len(transactions) \in Nat /\ Len(transactions) - 0 = Len(transactions)
  BY LenProperties DEF Shape, TypeOK
<1>2. PICK f : Turns(f, Len(transactions)) /\ f[Len(transactions)] = pass.results
  BY <1>1 DEF TurnsInv, FinishUpdateBalance
<1>3. Turns(AfterTurns, Len(transactions)) /\ Len(transactions) \in 0 .. Len(transactions)
  BY <1>1, AfterTurnsDef
<1>4. f[Len(transactions)] = AfterTurns[Len(transactions)]
  BY <1>1, <1>2, <1>3, TurnsUnique
<1>5. QED
  BY <1>2, <1>4 DEF Recomputed, FinishUpdateBalance

-----------------------------------------------------------------------------
(* What is invalid, from one updateBalance to the next *)

\* As long as nothing is lost: what is invalid is what is spoiled.  While
\* updateBalance runs the list may have grown, or it has just been sorted.
Settled ==
  ~removed =>
    IF Running("updateBalance")
    THEN \/ ByHeight
         \/ \E len \in 0 .. Len(transactions) :
              /\ Resolves(cache.invalid, len)
              /\ \A n \in len + 1 .. Len(transactions) : blockHeight[Turn(n)] = Unconfirmed
    ELSE Resolves(cache.invalid, Len(transactions))

\* What is resolved stays so while the first turns, and the heights of what is
\* invalid, are the same.
LEMMA ResolvesKept ==
  ASSUME NEW S, NEW len \in Nat, Resolves(S, len), \A n \in 1 .. len : Turn(n)' = Turn(n),
         \A t \in S : blockHeight'[t] = blockHeight[t]
  PROVE  Resolves(S, len)'
<1>1. Turned(len)' = Turned(len)
  BY DEF Turned
<1>2. ASSUME NEW n \in 1 .. len
      PROVE  Spoiled(n, S)' <=> Spoiled(n, S)
  <2>1. \A m \in 1 .. n - 1 : Turn(m)' = Turn(m) /\ Turn(n)' = Turn(n)
    OBVIOUS
  <2>2. Spoiled(n, S)' <=> \E m \in 1 .. n - 1 :
            \/ Turn(m) \notin S /\ Spends[Turn(n)] \cap Spends[Turn(m)] # {}
            \/ Turn(m) \in S /\ Turn(m) \in Parents(Turn(n))
    BY <2>1 DEF Spoiled, Parents
  <2>3. QED
    BY <2>2 DEF Spoiled
<1>3. QED
  BY <1>1, <1>2 DEF Resolves

\* updateBalance has been called.
LEMMA UpdateRuns ==
  ASSUME NEW list, NEW rest \in Seq(Calls), UpdateBalanceThen(list, rest)
  PROVE  Running("updateBalance")'
<1> DEFINE call == Call("updateBalance", 0, {})
<1>1. calls' = <<call>> \o rest /\ call.op = "updateBalance"
  BY DEF UpdateBalanceThen, Call
<1> HIDE DEF call
<1>2. calls' # <<>> /\ Head(calls') = call
  BY <1>1
<1>3. QED
  BY <1>1, <1>2 DEF Running

\* Registering a transaction calls updateBalance.
LEMMA RegisterRuns ==
  ASSUME NEW t, RegisterTransaction(t)
  PROVE  Running("updateBalance")'
<1>1. <<>> \in Seq(Calls) /\ UpdateBalanceThen(transactions', <<>>)
  BY EmptySeq DEF RegisterTransaction
<1>2. PICK list : list = transactions'
  OBVIOUS
<1>3. QED
  BY <1>1, <1>2, UpdateRuns

\* The wipe calls updateBalance.
LEMMA WipeRuns ==
  ASSUME Wipe
  PROVE  Running("updateBalance")'
<1>1. PICK list, rest \in Seq(Calls) : UpdateBalanceThen(list, rest)
  BY EmptySeq DEF Wipe
<1>2. QED
  BY <1>1, UpdateRuns

\* If the whole list is resolved then all is settled.
LEMMA ResolvedSettles ==
  ASSUME NEW len \in Nat, len = Len(transactions'), NEW S, S = cache'.invalid, Resolves(S, len)'
  PROVE  Settled'
<1>1. len \in 0 .. len /\ len + 1 .. len = {}
  OBVIOUS
<1>2. Resolves(cache.invalid, Len(transactions))' /\ Resolves(cache.invalid, len)'
  BY DEF Resolves
<1>3. QED
  BY <1>1, <1>2 DEF Settled

\* Every step keeps what is settled.
LEMMA NextSettled ==
  ASSUME Shape, Distinct, NothingLost, MinedInv, TurnsInv, Settled, [Next]_vars
  PROVE  Settled'
<1>1. /\ transactions \in Seq(Txs) /\ Len(transactions) \in Nat /\ Len(transactions') \in Nat
      /\ transactions' \in Seq(Txs) /\ blockHeight' \in [Txs -> Heights] /\ Shape'
  BY NextShape, LenProperties DEF Shape, TypeOK
<1>2. ASSUME ~removed, ~Running("updateBalance"), UNCHANGED <<transactions, blockHeight, cache>>
      PROVE  Settled'
  <2>1. PICK S : S = cache.invalid
    OBVIOUS
  <2>2. Resolves(S, Len(transactions))
    BY <1>2, <2>1 DEF Settled
  <2>3. \A n : Turn(n)' = Turn(n)
    BY <1>2 DEF Turn
  <2>4. PICK len \in Nat : len = Len(transactions)
    BY <1>1
  <2>5. Resolves(S, len)'
    BY <1>2, <2>2, <2>3, <2>4, ResolvesKept
  <2>6. len = Len(transactions') /\ S = cache'.invalid
    BY <1>2, <2>1, <2>4
  <2>7. QED
    BY <2>5, <2>6, ResolvedSettles
<1>3. CASE UNCHANGED <<transactions, blockHeight, cache, calls, removed>>
  <2>1. PICK S : S = cache.invalid
    OBVIOUS
  <2>2. \A n : Turn(n)' = Turn(n)
    BY <1>3 DEF Turn
  <2>3. \A len : Resolves(S, len)' <=> Resolves(S, len)
    BY <1>3, <2>2 DEF Resolves, Turned, Spoiled, Parents
  <2>4. ByHeight' <=> ByHeight
    BY <1>3 DEF ByHeight
  <2>5. Running("updateBalance")' <=> Running("updateBalance")
    BY <1>3 DEF Running
  <2>6. \A len : Resolves(cache.invalid, len)' <=> Resolves(cache.invalid, len)
    BY <1>3, <2>1, <2>3 DEF Resolves
  <2>7. QED
    BY <1>3, <2>2, <2>4, <2>5, <2>6 DEF Settled
<1>4. CASE FinishUpdateBalance
  <2>1. SUFFICES ASSUME ~removed
                 PROVE  Settled'
    BY <1>4 DEF FinishUpdateBalance, Settled
  <2>2. OnlyUnconfirmedSpoiled
    <3>1. CASE ByHeight
      BY <1>4, <2>1, <3>1, ConfirmedDoNotConflict, SortedSpoils DEF FinishUpdateBalance, Shape
    <3>2. CASE \E len \in 0 .. Len(transactions) :
                 /\ Resolves(cache.invalid, len)
                 /\ \A n \in len + 1 .. Len(transactions) : blockHeight[Turn(n)] = Unconfirmed
      BY <1>1, <3>2, ResolvedAgain
    <3>3. QED
      BY <1>4, <2>1, <3>1, <3>2 DEF Settled, FinishUpdateBalance
  <2>3. PICK S : S = Recomputed.invalid
    OBVIOUS
  <2>4. Resolves(S, Len(transactions))
    BY <1>1, <2>2, <2>3, RecomputedResolves
  <2>5. UNCHANGED <<transactions, blockHeight>> /\ S = cache'.invalid
    BY <1>4, <2>3, FinishedRecomputed DEF FinishUpdateBalance
  <2>6. PICK len \in Nat : len = Len(transactions)
    BY <1>1
  <2>7. \A n : Turn(n)' = Turn(n)
    BY <2>5 DEF Turn
  <2>8. Resolves(S, len)'
    BY <2>4, <2>5, <2>6, <2>7, ResolvesKept
  <2>9. len = Len(transactions')
    BY <2>5, <2>6
  <2>10. QED
    BY <2>5, <2>8, <2>9, ResolvedSettles
<1>5. ASSUME NEW t \in Txs, RegisterTransaction(t)
      PROVE  Settled'
  <2>1. SUFFICES ASSUME ~removed
                 PROVE  Settled'
    BY <1>5 DEF RegisterTransaction, Settled
  <2>2. Whole /\ ~Running("updateBalance")
    BY <1>5, <2>1 DEF NothingLost, RegisterTransaction, Idle, Running
  <2>3. /\ blockHeight[t] = Unconfirmed /\ transactions' = <<t>> \o transactions
        /\ UNCHANGED <<blockHeight, cache, removed>>
    BY <1>5, <2>2, RegisterWhole
  <2>4. PICK S : S = cache.invalid
    OBVIOUS
  <2>5. PICK len \in Nat : len = Len(transactions)
    BY <1>1
  <2>6. <<t>> \in Seq(Txs) /\ Len(<<t>>) = 1 /\ <<t>>[1] = t
    OBVIOUS
  <2>7. Len(transactions') = 1 + len
        /\ \A i \in 1 .. 1 + len : transactions'[i] = IF i <= 1 THEN t ELSE transactions[i - 1]
    BY <1>1, <2>3, <2>5, <2>6, ConcatProperties
  <2>8. ASSUME NEW n \in 1 .. len
        PROVE  Turn(n)' = Turn(n)
    <3>1. /\ 1 + len + 1 - n \in 1 .. 1 + len /\ ~(1 + len + 1 - n <= 1)
          /\ (1 + len + 1 - n) - 1 = len + 1 - n
      OBVIOUS
    <3>2. transactions'[1 + len + 1 - n] = transactions[len + 1 - n]
      BY <2>7, <3>1
    <3>3. QED
      BY <2>5, <2>7, <3>2 DEF Turn
  <2>9. Turn(len + 1)' = t
    <3>1. 1 + len + 1 - (len + 1) = 1 /\ 1 \in 1 .. 1 + len
      OBVIOUS
    <3>2. QED
      BY <2>7, <3>1 DEF Turn
  <2>10. Resolves(S, len)
    BY <2>1, <2>2, <2>4, <2>5 DEF Settled
  <2>11. Resolves(S, len)'
    BY <2>3, <2>8, <2>10, ResolvesKept
  <2>12. len \in 0 .. Len(transactions') /\ len + 1 .. Len(transactions') = {len + 1}
    BY <2>7
  <2>13. \A n \in len + 1 .. Len(transactions') : blockHeight'[Turn(n)'] = Unconfirmed
    BY <2>3, <2>9, <2>12
  <2>14. Running("updateBalance")'
    BY <1>5, RegisterRuns
  <2>15. QED
    BY <2>3, <2>4, <2>11, <2>12, <2>13, <2>14 DEF Settled, Resolves
<1>6. ASSUME NEW t \in Txs, RemoveTransaction(t)
      PROVE  Settled'
  BY <1>6 DEF RemoveTransaction, Settled
<1>7. CASE Wipe
  <2>1. DOMAIN transactions' = {}
    BY <1>7 DEF Wipe
  <2>2. ByHeight'
    BY <2>1 DEF ByHeight
  <2>3. Running("updateBalance")'
    BY <1>7, WipeRuns
  <2>4. QED
    BY <2>2, <2>3 DEF Settled
<1>8. CASE SetBlockHeightCall
  <2>1. SUFFICES ASSUME ~removed
                 PROVE  Settled'
    BY <1>8 DEF SetBlockHeightCall, Settled
  <2>2. Whole /\ ~Running("updateBalance") /\ UNCHANGED cache
    BY <1>8, <2>1 DEF NothingLost, SetBlockHeightCall, Running
  <2>3. PICK h : h = Head(calls).height
    OBVIOUS
  <2>4. PICK touched \in SUBSET Known :
               /\ blockHeight' = [t \in Txs |-> IF t \in touched THEN h ELSE blockHeight[t]]
               /\ IF NeedsUpdate(touched)
                  THEN /\ transactions' \in SortedLists(blockHeight')
                       /\ UpdateBalanceThen(transactions', Tail(calls))
                  ELSE calls' = Tail(calls) /\ UNCHANGED <<transactions, pass>>
    BY <1>8, <2>2, <2>3, SetBlockHeightWhole
  <2>5. CASE NeedsUpdate(touched)
    <3>1. transactions' \in SortedLists(blockHeight') /\ Known \subseteq Txs
      BY <2>4, <2>5 DEF Shape, TypeOK
    <3>2. PICK list : list = transactions'
      OBVIOUS
    <3>3. PICK height \in [Txs -> Heights] : height = blockHeight'
      BY <1>1
    <3>4. \A i, j \in DOMAIN list : i < j => height[list[i]] >= height[list[j]]
      BY <1>1, <3>1, <3>2, <3>3, SortedByHeight
    <3>5. ByHeight'
      BY <3>2, <3>3, <3>4 DEF ByHeight
    <3>6. Tail(calls) \in Seq(Calls)
      BY <1>8, HeadAndTail DEF SetBlockHeightCall, Running, Waiting
    <3>7. Running("updateBalance")'
      BY <2>4, <2>5, <3>6, UpdateRuns
    <3>8. QED
      BY <3>5, <3>7 DEF Settled
  <2>6. CASE ~NeedsUpdate(touched)
    <3>1. UNCHANGED transactions /\ touched \cap cache.invalid = {}
      BY <2>4, <2>6 DEF NeedsUpdate
    <3>2. PICK S : S = cache.invalid
      OBVIOUS
    <3>3. PICK len \in Nat : len = Len(transactions)
      BY <1>1
    <3>4. Resolves(S, len)
      BY <2>1, <2>2, <3>2, <3>3 DEF Settled
    <3>5. \A n : Turn(n)' = Turn(n)
      BY <3>1 DEF Turn
    <3>6. S \subseteq Txs
      BY <3>2 DEF Shape, TypeOK, Results
    <3>7. \A t \in S : blockHeight'[t] = blockHeight[t]
      BY <2>4, <3>1, <3>2, <3>6
    <3>8. Resolves(S, len)'
      BY <3>4, <3>5, <3>7, ResolvesKept
    <3>9. len = Len(transactions') /\ S = cache'.invalid
      BY <2>2, <3>1, <3>2, <3>3
    <3>10. QED
      BY <3>8, <3>9, ResolvedSettles
  <2>7. QED
    BY <2>5, <2>6
<1>9. CASE \/ ChainUpdatedBlockHeight \/ NewTip \/ \E t \in Txs : SetTimestamp(t)
           \/ \E S \in SUBSET Txs, matched \in BOOLEAN : ExtendSyncChain(S, matched)
           \/ \E h \in 1 .. lastSyncBlockHeight : ReplaceSyncBlock(h)
           \/ \E join \in 0 .. MaxHeight, top \in 1 .. MaxHeight, heights \in [Txs -> Heights] :
                join < top /\ Reorganize(join, top, heights)
  <2>1. ~Running("updateBalance") /\ UNCHANGED <<transactions, blockHeight, cache, removed>>
    BY <1>9 DEF ChainUpdatedBlockHeight, NewTip, SetTimestamp, ExtendSyncChain, ReplaceSyncBlock,
                Reorganize, Idle, Running
  <2>2. CASE removed
    BY <2>1, <2>2 DEF Settled
  <2>3. QED
    BY <1>2, <2>1, <2>2
<1>10. CASE UpdateBalanceStep
  BY <1>3, <1>10 DEF UpdateBalanceStep
<1>11. QED
  BY <1>3, <1>4, <1>5, <1>6, <1>7, <1>8, <1>9, <1>10 DEF Next, HandlerStep, vars

-----------------------------------------------------------------------------
(* What the last updateBalance left *)

\* What a turn does if R says what is invalid, pending and locked.
Decided(R, r, t) ==
  LET spent == [r EXCEPT !.spent = @ \cup Spends[t]]
  IN  IF t \in R.invalid THEN Record([r EXCEPT !.invalid = @ \cup {t}])
      ELSE IF t \in R.pending THEN Record([spent EXCEPT !.pending = @ \cup {t}])
      ELSE IF t \in R.locked THEN Record([spent EXCEPT !.locked = @ \cup {t}])
      ELSE Record(Count(spent, t))

\* f has the results of turns that do so, one after the other.
Replays(f, R) ==
  /\ f[0] = NoResults
  /\ \A k \in 1 .. Len(transactions) : f[k] = Decided(R, f[k - 1], Turn(k))

\* updateBalance does what its own result says.
LEMMA RecomputedReplays ==
  ASSUME transactions \in Seq(Txs), Distinct
  PROVE  Replays(AfterTurns, Recomputed)
<1> DEFINE len == Len(transactions)
           R == AfterTurns[len]
<1>1. len \in Nat /\ Turns(AfterTurns, len) /\ len \in 0 .. len
  BY LenProperties, AfterTurnsDef
<1>2. ASSUME NEW k \in 1 .. len
      PROVE  AfterTurns[k] = Decided(R, AfterTurns[k - 1], Turn(k))
  <2> DEFINE r == AfterTurns[k - 1]
             t == Turn(k)
             q == AfterTurns[k]
  <2>1. k \in 0 .. len /\ k - 1 \in 0 .. len /\ k \in Nat
    BY <1>1
  <2>2. r \in Results /\ t \in Txs /\ q = Process(r, t)
    BY <1>1, <2>1, Positions DEF Turns
  <2>3. t \in Turned(k) /\ t \notin Turned(k - 1)
    BY <2>1, TurnsOfList DEF Turned
  <2>4. /\ R.invalid \cap Turned(k) = q.invalid /\ R.pending \cap Turned(k) = q.pending
        /\ R.locked \cap Turned(k) = q.locked
    BY <1>1, <2>1, DecidedOnce
  <2>5. t \notin r.invalid /\ t \notin r.pending /\ t \notin r.locked
    BY <2>1, <2>3, TurnsDecide
  <2> HIDE DEF r, t, q, R
  <2>6. /\ t \in R.invalid <=> t \in q.invalid
        /\ t \in R.pending <=> t \in q.pending
        /\ t \in R.locked <=> t \in q.locked
    BY <2>3, <2>4
  <2>7. /\ q.invalid = r.invalid \cup (IF IsInvalid(r, t) THEN {t} ELSE {})
        /\ q.pending = r.pending \cup (IF ~IsInvalid(r, t) /\ IsPending(r, t) THEN {t} ELSE {})
        /\ q.locked = r.locked
              \cup (IF ~IsInvalid(r, t) /\ ~IsPending(r, t) /\ IsLocked(t) THEN {t} ELSE {})
    BY <2>2, ProcessDecides
  <2>8. /\ t \in R.invalid <=> IsInvalid(r, t)
        /\ t \in R.pending <=> ~IsInvalid(r, t) /\ IsPending(r, t)
        /\ t \in R.locked <=> ~IsInvalid(r, t) /\ ~IsPending(r, t) /\ IsLocked(t)
    BY <2>5, <2>6, <2>7
  <2>9. Process(r, t) = Decided(R, r, t)
    BY <2>8 DEF Process, Decided
  <2>10. QED
    BY <2>2, <2>9 DEF q, r, t
<1>3. QED
  BY <1>1, <1>2 DEF Turns, Replays, Recomputed

\* What is invalid, pending and locked determines the results.
LEMMA ReplaysUnique ==
  ASSUME transactions \in Seq(Txs), NEW f, NEW R, Replays(f, R), NEW g, NEW Q, Replays(g, Q),
         R.invalid = Q.invalid, R.pending = Q.pending, R.locked = Q.locked
  PROVE  f[Len(transactions)] = g[Len(transactions)]
<1> DEFINE len == Len(transactions)
           S == {i \in 0 .. len : f[i] = g[i]}
<1>1. len \in Nat /\ len \in 0 .. len
  BY LenProperties
<1>2. 0 \in S
  BY <1>1 DEF Replays
<1>3. ASSUME NEW i \in 0 .. len - 1, i \in S
      PROVE  i + 1 \in S
  <2>1. i + 1 \in 1 .. len /\ i + 1 \in 0 .. len /\ (i + 1) - 1 = i /\ f[i] = g[i]
    BY <1>1, <1>3
  <2>2. f[i + 1] = Decided(R, f[i], Turn(i + 1)) /\ g[i + 1] = Decided(Q, g[i], Turn(i + 1))
    BY <2>1 DEF Replays
  <2>3. \A r, t : Decided(R, r, t) = Decided(Q, r, t)
    BY DEF Decided
  <2>4. QED
    BY <2>1, <2>2, <2>3
<1>4. 0 .. len \subseteq S
  <2> HIDE DEF S, len
  <2>1. QED
    BY <1>1, <1>2, <1>3, CountUp
<1>5. QED
  BY <1>1, <1>4

\* As long as nothing is lost, and updateBalance does not run: the cache has what
\* the valid transactions of the list spend, and the results of turns that find
\* invalid, pending and locked what it has.
CacheReplays ==
  ~removed /\ ~Running("updateBalance") =>
    /\ cache.spent = SpentBy(Listed \ cache.invalid)
    /\ \E f : Replays(f, cache) /\ f[Len(transactions)] = cache

\* The end of updateBalance leaves such a cache; until it runs again the list stays
\* the same.
LEMMA NextCacheReplays ==
  ASSUME Shape, Distinct, NothingLost, TurnsInv, CacheReplays, [Next]_vars
  PROVE  CacheReplays'
<1>1. SUFFICES ASSUME ~removed', ~Running("updateBalance")'
               PROVE  /\ cache'.spent = SpentBy(Listed' \ cache'.invalid)
                      /\ \E f : Replays(f, cache)' /\ f[Len(transactions')] = cache'
  BY DEF CacheReplays, SpentBy
<1>2. transactions \in Seq(Txs) /\ Len(transactions) \in Nat /\ Whole'
  BY <1>1, LenProperties, NextNothingLost DEF Shape, TypeOK, NothingLost
<1>3. ASSUME UNCHANGED <<transactions, allTx>>
      PROVE  \A f, R : Replays(f, R)' <=> Replays(f, R)
  <2>1. \A R, r, t : Decided(R, r, t)' = Decided(R, r, t)
    BY <1>3 DEF Decided, Count, Known
  <2>2. \A k : Turn(k)' = Turn(k)
    BY <1>3 DEF Turn
  <2>3. QED
    BY <1>3, <2>1, <2>2 DEF Replays
<1>4. CASE FinishUpdateBalance
  <2>1. UNCHANGED <<transactions, allTx>> /\ cache' = Recomputed
    BY <1>4, FinishedRecomputed DEF FinishUpdateBalance
  <2>2. Recomputed.spent = SpentBy(Listed \ Recomputed.invalid)
    <3>1. Len(transactions) \in 0 .. Len(transactions) /\ Turned(Len(transactions)) = Listed
      BY <1>2, TurnsOfList
    <3>2. QED
      BY <1>2, <3>1, TurnsDecide DEF Recomputed
  <2>3. PICK f : f = AfterTurns
    OBVIOUS
  <2>4. PICK R : R = Recomputed
    OBVIOUS
  <2>5. Replays(f, R) /\ f[Len(transactions)] = R
    BY <1>2, <2>3, <2>4, RecomputedReplays DEF Recomputed
  <2>6. Replays(f, R)' /\ R = cache'
    BY <1>3, <2>1, <2>4, <2>5
  <2>7. Replays(f, cache)'
    BY <2>6 DEF Replays
  <2>8. QED
    BY <2>1, <2>2, <2>4, <2>5, <2>7 DEF Listed
<1>5. ASSUME UNCHANGED <<transactions, cache>>, ~removed, ~Running("updateBalance")
      PROVE  /\ cache'.spent = SpentBy(Listed' \ cache'.invalid)
             /\ \E f : Replays(f, cache)' /\ f[Len(transactions')] = cache'
  <2>1. Known' = Known
    BY <1>2, <1>5 DEF NothingLost, Whole, Listed
  <2>2. \A f, R : Replays(f, R)' <=> Replays(f, R)
    <3>1. \A R, r, t : Decided(R, r, t)' = Decided(R, r, t)
      BY <2>1 DEF Decided, Count
    <3>2. \A k : Turn(k)' = Turn(k)
      BY <1>5 DEF Turn
    <3>3. QED
      BY <1>5, <3>1, <3>2 DEF Replays
  <2>3. PICK f : Replays(f, cache) /\ f[Len(transactions)] = cache
    BY <1>5 DEF CacheReplays
  <2>4. PICK R : R = cache
    OBVIOUS
  <2>5. Replays(f, R)
    BY <2>3, <2>4
  <2>6. Replays(f, R)' /\ R = cache'
    BY <1>5, <2>2, <2>4, <2>5
  <2>7. Replays(f, cache)'
    BY <2>6 DEF Replays
  <2>8. Listed' = Listed
    BY <1>5 DEF Listed
  <2>9. QED
    BY <1>5, <2>3, <2>7, <2>8 DEF CacheReplays
<1>6. CASE UNCHANGED vars
  BY <1>1, <1>5, <1>6 DEF vars, Running
<1>7. CASE UpdateBalanceStep
  BY <1>1, <1>7 DEF UpdateBalanceStep, Running
<1>8. CASE OtherStep /\ ~FinishUpdateBalance
  <2>1. ~Running("updateBalance") /\ UNCHANGED <<transactions, cache>>
    BY <1>1, <1>8, OtherStepList
  <2>2. ~removed
    <3>1. ~Wipe
      BY <1>1, WipeRuns
    <3>2. QED
      BY <1>1, <1>8, <3>1
         DEF OtherStep, SetBlockHeightCall, ChainUpdatedBlockHeight, NewTip, RegisterTransaction,
             RemoveTransaction, SetTimestamp, ExtendSyncChain, ReplaceSyncBlock, Reorganize
  <2>3. QED
    BY <1>5, <2>1, <2>2
<1>9. QED
  BY <1>4, <1>6, <1>7, <1>8, NextSplit

-----------------------------------------------------------------------------
(* The theorems *)

\* All that relates the list to the chain, the cache and the running updateBalance.
ListsInv ==
  Shape /\ Distinct /\ NothingLost /\ MinedInv /\ TurnsInv /\ Settled /\ CacheReplays

\* The empty list.
LEMMA InitListsInv == Init => ListsInv
<1> SUFFICES ASSUME Init
             PROVE  ListsInv
  OBVIOUS
<1>1. Shape
  BY InitShape
<1>2. /\ transactions = <<>> /\ calls = <<>> /\ cache = NoResults /\ Listed = {} /\ Known = {}
      /\ DOMAIN transactions = {} /\ Len(transactions) = 0
  BY EmptySeq DEF Init, Listed, Known
<1>3. ~Running("updateBalance") /\ ~Running("setBlockHeight")
  BY <1>2 DEF Running
<1>4. Distinct
  BY <1>2 DEF Distinct
<1>5. NothingLost
  BY <1>2 DEF Init, NothingLost, Whole
<1>6. IsChain(mined)
  BY DEF Init, IsChain
<1>7. MinedInv
  <2>1. DOMAIN calls = {}
    BY <1>2
  <2>2. QED
    BY <1>2, <1>6, <2>1 DEF MinedInv, CallsOnChain, HeightsOnChain
<1>8. TurnsInv
  BY <1>3 DEF TurnsInv
<1>9. Turned(0) = {} /\ cache.invalid = {} /\ cache.spent = {}
  BY <1>2 DEF Turned, NoResults
<1>10. Settled
  <2>1. Resolves({}, 0)
    BY <1>9 DEF Resolves
  <2>2. QED
    BY <1>2, <1>3, <1>9, <2>1 DEF Settled
<1>11. CacheReplays
  <2> DEFINE f == [k \in 0 .. 0 |-> NoResults]
  <2>1. Replays(f, cache) /\ f[0] = cache
    BY <1>2 DEF Replays
  <2> HIDE DEF f
  <2>2. SpentBy({}) = {}
    BY DEF SpentBy
  <2>3. QED
    BY <1>2, <1>9, <2>1, <2>2 DEF CacheReplays
<1>12. QED
  BY <1>1, <1>4, <1>5, <1>7, <1>8, <1>10, <1>11 DEF ListsInv

\* The list, the chain and the cache agree in every state.
LEMMA ListsInvariant == Spec => []ListsInv
<1>1. AccountInv /\ ListsInv /\ [Next]_vars => ListsInv'
  <2>1. ASSUME AccountInv, ListsInv, [Next]_vars
        PROVE  ListsInv'
    <3>1. Shape' /\ ListInv'
      BY <2>1, NextShape, NextListInv DEF AccountInv
    <3>2. QED
      BY <2>1, <3>1, NextNothingLost, NextMinedInv, NextTurnsInv, NextSettled, NextCacheReplays
         DEF ListsInv, ListInv
  <2>2. QED
    BY <2>1
<1>2. QED
  BY <1>1, InitListsInv, AccountInvariant, PTL DEF Spec

\* As long as no transaction has been removed, the account takes at most one of
\* two transactions that spend the same coin for valid.
THEOREM DoubleSpendsResolved == Spec => []ConflictsResolved
<1>1. ListsInv => ConflictsResolved
  <2>1. SUFFICES ASSUME ListsInv, Idle, ~removed,
                        NEW t \in Listed \ cache.invalid, NEW u \in Listed \ cache.invalid,
                        Conflict(t, u)
                 PROVE  FALSE
    BY DEF ConflictsResolved
  <2>2. transactions \in Seq(Txs) /\ Len(transactions) \in Nat
    BY <2>1, LenProperties DEF ListsInv, Shape, TypeOK
  <2>3. Resolves(cache.invalid, Len(transactions))
    BY <2>1 DEF ListsInv, Settled, Idle, Running
  <2>4. PICK n, m \in 1 .. Len(transactions) : Turn(n) = t /\ Turn(m) = u
    BY <2>1, <2>2, TurnsOfList DEF Turned
  <2>5. n \in Nat /\ m \in Nat /\ n # m
    BY <2>1, <2>4 DEF Conflict
  <2>6. CASE m < n
    <3>1. m \in 1 .. n - 1
      BY <2>4, <2>5, <2>6
    <3>2. Spoiled(n, cache.invalid)
      BY <2>1, <2>4, <3>1 DEF Spoiled, Conflict
    <3>3. QED
      BY <2>1, <2>3, <2>4, <3>2 DEF Resolves
  <2>7. CASE n < m
    <3>1. n \in 1 .. m - 1
      BY <2>4, <2>5, <2>7
    <3>2. Spoiled(m, cache.invalid)
      BY <2>1, <2>4, <3>1 DEF Spoiled, Conflict
    <3>3. QED
      BY <2>1, <2>3, <2>4, <3>2 DEF Resolves
  <2>8. QED
    BY <2>5, <2>6, <2>7
<1>2. QED
  BY <1>1, ListsInvariant, PTL

\* As long as no transaction has been removed, setBlockHeight updates the balance
\* whenever it must: the cache is what updateBalance would compute now.
THEOREM CacheCurrent == Spec => []CacheIsCurrent
<1>1. ListsInv => CacheIsCurrent
  <2>1. SUFFICES ASSUME ListsInv, Idle, ~removed
                 PROVE  /\ cache.invalid = Recomputed.invalid /\ cache.spent = Recomputed.spent
                        /\ cache.pending = Recomputed.pending /\ cache.locked = Recomputed.locked =>
                             cache = Recomputed
    BY DEF CacheIsCurrent
  <2>2. transactions \in Seq(Txs) /\ Len(transactions) \in Nat /\ Distinct
        /\ Len(transactions) \in 0 .. Len(transactions)
    BY <2>1, LenProperties DEF ListsInv, Shape, TypeOK
  <2>3. ~Running("updateBalance")
    BY <2>1 DEF Idle, Running
  <2>4. cache.invalid = Recomputed.invalid
    <3>1. Resolves(cache.invalid, Len(transactions))
      BY <2>1, <2>3 DEF ListsInv, Settled
    <3>2. \A n \in Len(transactions) + 1 .. Len(transactions) : FALSE
      BY <2>2
    <3>3. QED
      BY <2>2, <3>1, <3>2, ResolvedAgain DEF Recomputed
  <2>5. cache.spent = Recomputed.spent
    <3>1. cache.spent = SpentBy(Listed \ cache.invalid)
      BY <2>1, <2>3 DEF ListsInv, CacheReplays
    <3>2. Turned(Len(transactions)) = Listed
      BY <2>2, TurnsOfList
    <3>3. Recomputed.spent = SpentBy(Listed \ Recomputed.invalid)
      BY <2>2, <3>2, TurnsDecide DEF Recomputed
    <3>4. QED
      BY <2>4, <3>1, <3>3
  <2>6. ASSUME cache.pending = Recomputed.pending, cache.locked = Recomputed.locked
        PROVE  cache = Recomputed
    <3>1. PICK f : Replays(f, cache) /\ f[Len(transactions)] = cache
      BY <2>1, <2>3 DEF ListsInv, CacheReplays
    <3>2. Replays(AfterTurns, Recomputed)
      BY <2>2, RecomputedReplays
    <3>3. f[Len(transactions)] = AfterTurns[Len(transactions)]
      BY <2>2, <2>4, <2>6, <3>1, <3>2, ReplaysUnique
    <3>4. QED
      BY <3>1, <3>3 DEF Recomputed
  <2>7. QED
    BY <2>4, <2>5, <2>6
<1>2. QED
  BY <1>1, ListsInvariant, PTL

=============================================================================
