-------------------------- MODULE UserSearchProofs --------------------------
(***************************************************************************)
(* Theorems about UserSearch, for answers of any length and any number of  *)
(* searches.                                                               *)
(***************************************************************************)
EXTENDS UserSearch, FiniteSetTheorems, WellFoundedInduction, TLAPS

-----------------------------------------------------------------------------
(* Numbers. *)

\* The least number of a set of numbers.
LEMMA Smallest ==
    ASSUME NEW S \in SUBSET Nat, S # {}
    PROVE  \E m \in S : \A n \in S : m <= n
<1>1. PICK m \in S : \A n \in S : <<n, m>> \notin OpToRel(<, Nat)
  BY WFMin, NatLessThanWellFounded, Zenon
<1>2. \A n \in S : ~(n < m)
  BY <1>1, Zenon DEF OpToRel
<1> QED
  BY <1>2

\* Induction on a set of numbers.
LEMMA InductionOn ==
    ASSUME NEW S, 0 \in S, \A n \in Nat : n \in S => n + 1 \in S
    PROVE  Nat \subseteq S
<1> SUFFICES ASSUME Nat \ S # {} PROVE FALSE
  OBVIOUS
<1>1. PICK m \in Nat \ S : \A n \in Nat \ S : m <= n
  BY Smallest
<1>2. m - 1 \in Nat /\ m - 1 \in S
  BY <1>1
<1> QED
  BY <1>1, <1>2

Rank(numbers, n) == Cardinality({m \in numbers : m <= n})

\* The rank of a number among finitely many tells the number.
LEMMA RankType ==
    ASSUME NEW S \in SUBSET Nat, IsFiniteSet(S), NEW i \in S
    PROVE  Rank(S, i) \in 1..Cardinality(S)
<1> DEFINE T == {m \in S : m <= i}
<1>1. T \in SUBSET S /\ i \in T
  OBVIOUS
<1> HIDE DEF T
<1>2. IsFiniteSet(T) /\ Cardinality(T) <= Cardinality(S)
  BY <1>1, FS_Subset
<1>3. Cardinality(T) \in Nat /\ Cardinality(T) # 0 /\ Cardinality(S) \in Nat
  BY <1>1, <1>2, FS_CardinalityType, FS_EmptySet
<1>4. Cardinality(T) \in 1..Cardinality(S)
  BY <1>2, <1>3
<1> QED
  BY <1>4 DEF Rank, T

LEMMA RankIncreases ==
    ASSUME NEW S \in SUBSET Nat, IsFiniteSet(S), NEW i \in S, NEW j \in S, i < j
    PROVE  Rank(S, i) # Rank(S, j)
<1> DEFINE T(n) == {m \in S : m <= n}
<1>1. T(i) \in SUBSET T(j) /\ T(j) \in SUBSET S
  <2>1. \A m \in S : m <= i => m <= j
    OBVIOUS
  <2> QED
    BY <2>1, Zenon
<1>2. j \in T(j) /\ j \notin T(i)
  OBVIOUS
<1> HIDE DEF T
<1>3. IsFiniteSet(T(j))
  BY <1>1, FS_Subset
<1>4. Cardinality(T(j)) # Cardinality(T(i))
  BY <1>1, <1>2, <1>3, FS_Subset
<1> QED
  BY <1>4 DEF Rank, T

LEMMA NthOfRank ==
    ASSUME NEW S \in SUBSET Nat, IsFiniteSet(S), NEW i \in S
    PROVE  Nth(S, Rank(S, i)) = i
<1>1. \A n \in S : Rank(S, n) = Rank(S, i) => n = i
  <2> SUFFICES ASSUME NEW n \in S, n # i PROVE Rank(S, n) # Rank(S, i)
    OBVIOUS
  <2>1. n < i \/ i < n
    OBVIOUS
  <2> QED
    BY <2>1, RankIncreases
<1>2. Nth(S, Rank(S, i)) = CHOOSE n \in S : Rank(S, n) = Rank(S, i)
  BY DEF Nth, Rank
<1> QED
  BY <1>1, <1>2

\* Each of the ranks is that of a number: ranks are distinct, and there are as
\* many of them as numbers.
LEMMA NthIsOne ==
    ASSUME NEW S \in SUBSET Nat, IsFiniteSet(S), NEW k \in 1..Cardinality(S)
    PROVE  Nth(S, k) \in S
<1> DEFINE rank == [i \in S |-> Rank(S, i)]
           Places == 1..Cardinality(S)
<1>1. Cardinality(S) \in Nat
  BY FS_CardinalityType
<1>2. IsFiniteSet(Places) /\ Cardinality(Places) = Cardinality(S)
  BY <1>1, FS_Interval
<1>3. rank \in [S -> Places]
  BY RankType
<1>4. \A i, j \in S : rank[i] = rank[j] => i = j
  <2> SUFFICES ASSUME NEW i \in S, NEW j \in S, i # j PROVE Rank(S, i) # Rank(S, j)
    OBVIOUS
  <2>1. i < j \/ j < i
    OBVIOUS
  <2> QED
    BY <2>1, RankIncreases
<1>5. rank \in Injection(S, Places)
  BY <1>3, <1>4 DEF Injection, IsInjective
<1>6. rank \in Surjection(S, Places)
  BY <1>2, <1>5, FS_Injection
<1>7. PICK i \in S : rank[i] = k
  BY <1>6 DEF Surjection
<1>8. Rank(S, i) = k
  BY <1>7
<1> QED
  BY <1>8, NthOfRank

-----------------------------------------------------------------------------
(* The Map of dedupSearchResultsByGuid. *)

\* The recursion defines a function.
LEMMA DedupedIsDefined ==
    ASSUME NEW data, Len(data) \in Nat
    PROVE  \E f : f = [n \in 0..Len(data) |->
              IF n = 0 THEN [guid \in Guids |-> Absent] ELSE Keeps(f[n - 1], data, n)]
<1> DEFINE Step(f, n) == IF n = 0 THEN [guid \in Guids |-> Absent]
                         ELSE Keeps(f[n - 1], data, n)
           Defined == {m \in Nat : \E f : f = [n \in 0..m |-> Step(f, n)]}
<1>1. 0 \in Defined
  <2> DEFINE g == [n \in 0..0 |-> [guid \in Guids |-> Absent]]
  <2>1. \A n \in 0..0 : Step(g, n) = g[n]
    OBVIOUS
  <2>2. g = [n \in 0..0 |-> Step(g, n)]
    BY <2>1
  <2> QED
    BY <2>2
<1>2. ASSUME NEW m \in Nat, m \in Defined PROVE m + 1 \in Defined
  <2>1. PICK f : f = [n \in 0..m |-> Step(f, n)]
    BY <1>2
  <2> DEFINE g == [n \in 0..(m + 1) |-> IF n <= m THEN f[n] ELSE Keeps(f[n - 1], data, n)]
  <2>2. ASSUME NEW n \in 0..(m + 1) PROVE g[n] = Step(g, n)
    <3>1. CASE n = 0
      BY <2>1, <3>1
    <3>2. CASE n # 0
      <4>1. n - 1 \in 0..m /\ g[n - 1] = f[n - 1]
        BY <3>2
      <4>2. n \in 0..m => f[n] = Step(f, n)
        BY <2>1
      <4> QED
        BY <3>2, <4>1, <4>2
    <3> QED
      BY <3>1, <3>2
  <2>3. g = [n \in 0..(m + 1) |-> Step(g, n)]
    <3> DEFINE h == [n \in 0..(m + 1) |-> Step(g, n)]
    <3>1. \A n \in 0..(m + 1) : h[n] = g[n]
      BY <2>2
    <3> QED
      BY <3>1
  <2>4. \E e : e = [n \in 0..(m + 1) |-> Step(e, n)]
    BY <2>3, Zenon
  <2>5. m + 1 \in Nat
    OBVIOUS
  <2> QED
    BY <2>4, <2>5, Zenon
<1>3. Nat \subseteq Defined
  <2> HIDE DEF Defined
  <2> QED
    BY <1>1, <1>2, InductionOn
<1> QED
  BY <1>3

\* The Map after each of the users.
LEMMA DedupedIs ==
    ASSUME NEW data, Len(data) \in Nat
    PROVE  \E f : /\ DedupedUsers(data) = f[Len(data)]
                  /\ f[0] = [guid \in Guids |-> Absent]
                  /\ \A n \in 1..Len(data) : f[n] = Keeps(f[n - 1], data, n)
<1> DEFINE Step(f, n) == IF n = 0 THEN [guid \in Guids |-> Absent]
                         ELSE Keeps(f[n - 1], data, n)
           kept == CHOOSE f : f = [n \in 0..Len(data) |-> Step(f, n)]
<1>1. kept = [n \in 0..Len(data) |-> Step(kept, n)]
  <2>1. \E f : f = [n \in 0..Len(data) |-> Step(f, n)]
    BY DedupedIsDefined
  <2> QED
    BY <2>1, Zenon
<1>2. DedupedUsers(data) = kept[Len(data)]
  BY DEF DedupedUsers
<1>3. PICK f : f = kept
  OBVIOUS
<1> HIDE DEF kept
<1>4. \A n \in 0..Len(data) : f[n] = Step(f, n)
  BY <1>1, <1>3
<1>5. f[0] = [guid \in Guids |-> Absent]
  BY <1>4
<1>6. \A n \in 1..Len(data) : n \in 0..Len(data) /\ n # 0
  OBVIOUS
<1>7. \A n \in 1..Len(data) : f[n] = Keeps(f[n - 1], data, n)
  BY <1>4, <1>6
<1> QED
  BY <1>2, <1>3, <1>5, <1>7

LEMMA ScoreType ==
    ASSUME NEW user \in SsoUsers
    PROVE  Score(user) \in Nat
<1>1. user.filled \in SUBSET Fields
  BY DEF SsoUsers
<1>2. Cardinality(user.filled) \in Nat
  BY <1>1, FieldsAssumption, FS_Subset, FS_CardinalityType
<1> QED
  BY <1>2 DEF Score

\* The places up to n of the users with a guid.
Like(data, n, guid) == {j \in 1..n : data[j].guid = guid}

\* What the Map has after n users: of each guid there was, the first place, and
\* the place of the first of the most complete.
SoundFor(entry, data, n, guid) ==
    /\ Like(data, n, guid) = {} => entry = Absent
    /\ Like(data, n, guid) # {} =>
           /\ entry.index \in Like(data, n, guid)
           /\ \A j \in Like(data, n, guid) : entry.index <= j
           /\ entry.from \in Like(data, n, guid)
           /\ \A j \in Like(data, n, guid) :
                  /\ Score(data[j]) <= Score(data[entry.from])
                  /\ j < entry.from => Score(data[j]) < Score(data[entry.from])
Sound(kept, data, n) ==
    /\ kept \in [Guids -> [from : Nat, index : Nat]]
    /\ \A guid \in Guids : SoundFor(kept[guid], data, n, guid)

LEMMA KeepsSound ==
    ASSUME NEW data \in Seq(SsoUsers), NEW n \in Nat, n + 1 \in DOMAIN data,
           NEW kept, Sound(kept, data, n)
    PROVE  Sound(Keeps(kept, data, n + 1), data, n + 1)
<1> DEFINE i == n + 1
           own == data[i].guid
           entry == kept[own]
           new == [from |-> i, index |-> IF entry = Absent THEN i ELSE entry.index]
<1> SUFFICES Sound(Keeps(kept, data, i), data, i)
  OBVIOUS
<1>1. /\ i \in Nat /\ i \in 1..i /\ i \notin 1..n
      /\ 1..i = (1..n) \union {i} /\ 1..n \subseteq DOMAIN data
  OBVIOUS
<1>2. \A guid : Like(data, i, guid) = IF guid = own THEN Like(data, n, guid) \union {i}
                                      ELSE Like(data, n, guid)
  BY <1>1 DEF Like
<1>3. \A j \in DOMAIN data : Score(data[j]) \in Nat
  BY ScoreType
<1>4. \A guid : Like(data, n, guid) \subseteq 1..n
  BY DEF Like
<1>5. kept \in [Guids -> [from : Nat, index : Nat]]
  BY DEF Sound
<1>6. CASE own = NoGuid
  <2>1. Keeps(kept, data, i) = kept
    BY <1>6 DEF Keeps
  <2>2. \A guid \in Guids : Like(data, i, guid) = Like(data, n, guid)
    BY <1>2, <1>6, GuidsAssumption
  <2>3. Sound(kept, data, i)
    BY <2>2 DEF Sound, SoundFor
  <2> QED
    BY <2>1, <2>3
<1>7. CASE own # NoGuid
  <2>1. own \in Guids
    <3>1. data[i] \in SsoUsers
      OBVIOUS
    <3> HIDE DEF i
    <3> QED
      BY <1>7, <3>1 DEF SsoUsers
  <2>2. SoundFor(entry, data, n, own) /\ entry \in [from : Nat, index : Nat]
    BY <2>1 DEF Sound
  <2>3. entry # Absent <=> Like(data, n, own) # {}
    BY <1>1, <1>4, <2>2 DEF SoundFor, Absent
  <2>4. CASE entry # Absent /\ Score(data[i]) <= Score(data[entry.from])
    <3>1. Keeps(kept, data, i) = kept
      BY <2>4 DEF Keeps
    <3>2. SoundFor(entry, data, i, own)
      <4>1. Like(data, i, own) = Like(data, n, own) \union {i} /\ Like(data, n, own) # {}
        BY <1>2, <2>3, <2>4
      <4>2. entry.index \in 1..n /\ entry.from \in 1..n
        BY <1>4, <2>2, <4>1 DEF SoundFor
      <4> HIDE DEF i, entry, own
      <4> QED
        BY <1>1, <2>2, <2>4, <4>1, <4>2 DEF SoundFor
    <3>3. \A guid \in Guids \ {own} : SoundFor(kept[guid], data, i, guid)
      BY <1>2 DEF Sound, SoundFor
    <3> QED
      BY <1>5, <3>1, <3>2, <3>3 DEF Sound
  <2>5. CASE ~(entry # Absent /\ Score(data[i]) <= Score(data[entry.from]))
    <3>1. Keeps(kept, data, i) = [kept EXCEPT ![own] = new]
      BY <1>7, <2>5 DEF Keeps
    <3>2. new \in [from : Nat, index : Nat]
      BY <1>1, <2>2
    <3>3. SoundFor(new, data, i, own)
      <4>1. CASE entry = Absent
        <5>1. Like(data, i, own) = {i}
          BY <1>2, <2>3, <4>1
        <5>2. new.from = i /\ new.index = i /\ Score(data[i]) \in Nat
          BY <1>3, <4>1
        <5> HIDE DEF i, new, own
        <5> QED
          BY <1>1, <5>1, <5>2 DEF SoundFor
      <4>2. CASE entry # Absent
        <5>1. Like(data, i, own) = Like(data, n, own) \union {i} /\ Like(data, n, own) # {}
          BY <1>2, <2>3, <4>2
        <5>2. new.from = i /\ new.index = entry.index
          BY <4>2
        <5>3. /\ entry.index \in Like(data, n, own)
              /\ \A j \in Like(data, n, own) : entry.index <= j
              /\ entry.from \in 1..n
              /\ \A j \in Like(data, n, own) : Score(data[j]) <= Score(data[entry.from])
          BY <1>4, <2>2, <5>1 DEF SoundFor
        <5>4. /\ \A j \in Like(data, n, own) : j \in 1..n /\ Score(data[j]) \in Nat
              /\ Score(data[i]) \in Nat /\ Score(data[entry.from]) \in Nat
          BY <1>1, <1>3, <1>4, <5>3
        <5>5. Score(data[entry.from]) < Score(data[i])
          BY <2>5, <4>2, <5>4
        <5>6. \A j \in Like(data, n, own) : entry.index <= j /\ entry.index <= i /\ j < i
          BY <1>4, <5>3
        <5>7. \A j \in Like(data, n, own) : Score(data[j]) < Score(data[i])
          <6> HIDE DEF i, entry, own
          <6> QED
            BY <5>3, <5>4, <5>5
        <5>8. i <= i /\ ~(i < i) /\ Score(data[i]) <= Score(data[i])
          BY <5>4
        <5>9. \A j \in Like(data, n, own) : Score(data[j]) <= Score(data[i])
          BY <5>4, <5>7
        <5>10. entry.index <= i
          BY <5>1, <5>6
        <5> HIDE DEF i, new, entry, own
        <5> QED
          BY <5>1, <5>2, <5>3, <5>6, <5>7, <5>8, <5>9, <5>10 DEF SoundFor
      <4> QED
        BY <4>1, <4>2
    <3>4. \A guid \in Guids \ {own} : SoundFor(kept[guid], data, i, guid)
      BY <1>2 DEF Sound, SoundFor
    <3> HIDE DEF new, i
    <3> QED
      BY <1>5, <2>1, <3>1, <3>2, <3>3, <3>4 DEF Sound
  <2> QED
    BY <2>4, <2>5
<1> QED
  BY <1>6, <1>7

LEMMA DedupedSound ==
    ASSUME NEW data \in Seq(SsoUsers)
    PROVE  Sound(DedupedUsers(data), data, Len(data))
<1>1. Len(data) \in Nat /\ DOMAIN data = 1..Len(data)
  OBVIOUS
<1>2. PICK f : /\ DedupedUsers(data) = f[Len(data)]
               /\ f[0] = [guid \in Guids |-> Absent]
               /\ \A n \in 1..Len(data) : f[n] = Keeps(f[n - 1], data, n)
  BY <1>1, DedupedIs
<1> DEFINE Good == {n \in Nat : n <= Len(data) => Sound(f[n], data, n)}
<1>3. 0 \in Good
  <2>1. \A guid : Like(data, 0, guid) = {}
    BY DEF Like
  <2>2. f[0] \in [Guids -> [from : Nat, index : Nat]] /\ \A guid \in Guids : f[0][guid] = Absent
    BY <1>2 DEF Absent
  <2> QED
    BY <2>1, <2>2 DEF Sound, SoundFor
<1>4. ASSUME NEW n \in Nat, n \in Good PROVE n + 1 \in Good
  <2> SUFFICES ASSUME n + 1 <= Len(data) PROVE Sound(f[n + 1], data, n + 1)
    OBVIOUS
  <2>1. Sound(f[n], data, n) /\ n + 1 \in DOMAIN data
    BY <1>1, <1>4
  <2>2. f[n + 1] = Keeps(f[n], data, n + 1)
    BY <1>1, <1>2
  <2> QED
    BY <2>1, <2>2, KeepsSound
<1>5. Len(data) \in Good
  <2> HIDE DEF Good
  <2> QED
    BY <1>1, <1>3, <1>4, InductionOn
<1> QED
  BY <1>1, <1>2, <1>5

-----------------------------------------------------------------------------
(* The answer. *)

\* BestLike is the place of the first of the most complete.
LEMMA BestLikeIs ==
    ASSUME NEW data \in Seq(SsoUsers), NEW i \in DOMAIN data, data[i].guid # NoGuid,
           NEW best \in Like(data, Len(data), data[i].guid),
           \A j \in Like(data, Len(data), data[i].guid) :
               /\ Score(data[j]) <= Score(data[best])
               /\ j < best => Score(data[j]) < Score(data[best])
    PROVE  BestLike(data, i) = best
<1> DEFINE like == {j \in DOMAIN data : data[j].guid = data[i].guid}
           all == {j \in like : \A k \in like : Score(data[k]) <= Score(data[j])}
<1>1. like = Like(data, Len(data), data[i].guid)
  BY DEF Like
<1>2. \A j \in like : j \in Nat /\ Score(data[j]) \in Nat
  BY ScoreType
<1>3. BestLike(data, i) = Min(all)
  BY DEF BestLike
<1>4. best \in like /\ \A j \in like : Score(data[j]) <= Score(data[best])
  BY <1>1
<1>5. \A j \in like : j < best => Score(data[j]) < Score(data[best])
  BY <1>1
<1> HIDE DEF like
<1>6. best \in all /\ \A j \in all : j \in Nat
  BY <1>2, <1>4
<1>7. ASSUME NEW j \in all PROVE best <= j
  <2>1. j \in like /\ Score(data[best]) <= Score(data[j])
    BY <1>4
  <2> QED
    BY <1>2, <1>4, <1>5, <2>1
<1> HIDE DEF all
<1>8. \A x \in all : (\A y \in all : x <= y) => x = best
  BY <1>6, <1>7
<1>9. Min(all) = best
  BY <1>6, <1>7, <1>8 DEF Min
<1> QED
  BY <1>3, <1>9

\* The entries are those of the first places, each with the best record.
LEMMA EntriesOfFirsts ==
    ASSUME NEW data \in Seq(SsoUsers)
    PROVE  /\ {e.index : e \in Entries(data)} = Firsts(data)
           /\ \A e \in Entries(data) :
                  e.from \in DOMAIN data /\ e.from = BestLike(data, e.index)
<1> DEFINE kept == DedupedUsers(data)
           aside == {i \in DOMAIN data : data[i].guid = NoGuid}
<1>1. Len(data) \in Nat /\ DOMAIN data = 1..Len(data) /\ \A i \in DOMAIN data : i \in Nat
  OBVIOUS
<1>2. Sound(kept, data, Len(data))
  BY DedupedSound
<1>3. Entries(data) = {kept[guid] : guid \in {g \in Guids : kept[g] # Absent}}
                      \union {[from |-> i, index |-> i] : i \in aside}
  BY DEF Entries
<1> HIDE DEF kept
<1>4. ASSUME NEW guid \in Guids, kept[guid] # Absent
      PROVE  /\ kept[guid].index \in Firsts(data)
             /\ kept[guid].from \in DOMAIN data
             /\ kept[guid].from = BestLike(data, kept[guid].index)
  <2> DEFINE like == Like(data, Len(data), guid)
             entry == kept[guid]
  <2>1. /\ entry.index \in like /\ \A j \in like : entry.index <= j
        /\ entry.from \in like
        /\ \A j \in like : /\ Score(data[j]) <= Score(data[entry.from])
                           /\ j < entry.from => Score(data[j]) < Score(data[entry.from])
    BY <1>2, <1>4 DEF Sound, SoundFor
  <2>2. \A j : j \in like <=> j \in DOMAIN data /\ data[j].guid = guid
    BY <1>1 DEF Like
  <2> HIDE DEF like, entry
  <2>3. /\ entry.index \in DOMAIN data /\ data[entry.index].guid = guid
        /\ entry.from \in DOMAIN data
    BY <2>1, <2>2
  <2>4. \A j \in 1..(entry.index - 1) : data[j].guid # guid
    <3> SUFFICES ASSUME NEW j \in 1..(entry.index - 1), data[j].guid = guid PROVE FALSE
      OBVIOUS
    <3>1. j \in DOMAIN data /\ j < entry.index /\ j \in Nat /\ entry.index \in Nat
      BY <1>1, <2>3
    <3> QED
      BY <2>1, <2>2, <3>1
  <2>5. entry.index \in Firsts(data)
    BY <2>3, <2>4 DEF Firsts
  <2>6. entry.from = BestLike(data, entry.index)
    <3>1. data[entry.index].guid # NoGuid /\ like = Like(data, Len(data), data[entry.index].guid)
      BY <2>3, GuidsAssumption DEF like
    <3> QED
      BY <2>1, <2>3, <3>1, BestLikeIs
  <2> QED
    BY <2>3, <2>5, <2>6 DEF entry
<1>5. ASSUME NEW i \in aside
      PROVE  i \in Firsts(data) /\ BestLike(data, i) = i
  BY DEF Firsts, BestLike
<1>6. ASSUME NEW i \in Firsts(data), data[i].guid # NoGuid
      PROVE  \E guid \in Guids : kept[guid] # Absent /\ kept[guid].index = i
  <2>1. i \in DOMAIN data /\ \A j \in 1..(i - 1) : data[j].guid # data[i].guid
    BY <1>6 DEF Firsts
  <2>2. PICK guid \in Guids : guid = data[i].guid
    <3>1. data[i] \in SsoUsers
      BY <2>1
    <3> QED
      BY <1>6, <3>1 DEF SsoUsers
  <2>3. i \in Like(data, Len(data), guid)
    BY <1>1, <2>1, <2>2 DEF Like
  <2>4. /\ kept[guid].index \in Like(data, Len(data), guid)
        /\ kept[guid].index <= i
    BY <1>2, <2>3 DEF Sound, SoundFor
  <2>5. kept[guid].index \in DOMAIN data /\ data[kept[guid].index].guid = data[i].guid
    BY <1>1, <2>2, <2>4 DEF Like
  <2>6. ~(kept[guid].index < i)
    BY <1>1, <2>1, <2>5
  <2>7. kept[guid].index = i /\ i # 0
    BY <1>1, <2>1, <2>4, <2>5, <2>6
  <2> QED
    BY <2>7 DEF Absent
<1>7. ASSUME NEW e \in Entries(data)
      PROVE  /\ e.index \in Firsts(data)
             /\ e.from \in DOMAIN data /\ e.from = BestLike(data, e.index)
  <2>1. CASE \E guid \in Guids : kept[guid] # Absent /\ e = kept[guid]
    BY <1>4, <2>1
  <2>2. CASE \E i \in aside : e = [from |-> i, index |-> i]
    <3>1. PICK i \in aside : e = [from |-> i, index |-> i]
      BY <2>2
    <3>2. e.index = i /\ e.from = i /\ i \in DOMAIN data
      BY <3>1
    <3> HIDE DEF aside
    <3> QED
      BY <1>5, <3>2
  <2> HIDE DEF aside
  <2> QED
    BY <1>3, <2>1, <2>2
<1>8. ASSUME NEW i \in Firsts(data) PROVE \E e \in Entries(data) : e.index = i
  <2>1. CASE data[i].guid = NoGuid
    <3>1. i \in aside
      BY <2>1 DEF Firsts
    <3>2. [from |-> i, index |-> i] \in Entries(data) /\ [from |-> i, index |-> i].index = i
      BY <1>3, <3>1
    <3> QED
      BY <3>2
  <2>2. CASE data[i].guid # NoGuid
    <3>1. PICK guid \in Guids : kept[guid] # Absent /\ kept[guid].index = i
      BY <1>6, <2>2
    <3>2. kept[guid] \in Entries(data)
      BY <1>3, <3>1
    <3> QED
      BY <3>1, <3>2
  <2> QED
    BY <2>1, <2>2
<1> QED
  BY <1>7, <1>8

LEMMA PlacesFinite ==
    ASSUME NEW data, Len(data) \in Nat, DOMAIN data = 1..Len(data),
           NEW S \in SUBSET (DOMAIN data)
    PROVE  S \in SUBSET Nat /\ IsFiniteSet(S) /\ Cardinality(S) \in Nat
<1>1. S \in SUBSET Nat /\ IsFiniteSet(1..Len(data))
  BY FS_Interval
<1> QED
  BY <1>1, FS_Subset, FS_CardinalityType

\* What the backend answers, for any number of users found.
LEMMA DedupIs ==
    ASSUME NEW data \in Seq(SsoUsers)
    PROVE  /\ Dedup(data) \in Seq(SsoUsers)
           /\ Len(Dedup(data)) = Cardinality(Firsts(data))
           /\ \A i \in Firsts(data) :
                  /\ Rank(Firsts(data), i) \in DOMAIN Dedup(data)
                  /\ Dedup(data)[Rank(Firsts(data), i)] = data[BestLike(data, i)]
<1> DEFINE indexes == {e.index : e \in Entries(data)}
           At(k) == CHOOSE e \in Entries(data) : e.index = Nth(indexes, k)
           answer == [k \in 1..Cardinality(indexes) |-> data[At(k).from]]
<1>1. Dedup(data) = answer
  BY DEF Dedup
<1>2. indexes = Firsts(data)
  BY EntriesOfFirsts
<1>3. indexes \in SUBSET Nat /\ IsFiniteSet(indexes) /\ Cardinality(indexes) \in Nat
  <2>1. /\ Firsts(data) \in SUBSET Nat /\ IsFiniteSet(Firsts(data))
        /\ Cardinality(Firsts(data)) \in Nat
    BY PlacesFinite DEF Firsts
  <2> HIDE DEF indexes
  <2> QED
    BY <1>2, <2>1
<1>4. ASSUME NEW k \in 1..Cardinality(indexes)
      PROVE  /\ At(k).from \in DOMAIN data
             /\ At(k).from = BestLike(data, Nth(indexes, k))
  <2>1. Nth(indexes, k) \in indexes
    <3> HIDE DEF indexes
    <3> QED
      BY <1>3, NthIsOne
  <2>2. \E e \in Entries(data) : e.index = Nth(indexes, k)
    BY <2>1
  <2>3. At(k) \in Entries(data) /\ At(k).index = Nth(indexes, k)
    <3> HIDE DEF indexes
    <3> QED
      BY <2>2
  <2> HIDE DEF At, indexes
  <2> QED
    BY <2>3, EntriesOfFirsts
<1> HIDE DEF At, indexes
<1>5. answer \in Seq(SsoUsers) /\ Len(answer) = Cardinality(indexes)
  <2>1. \A k \in 1..Cardinality(indexes) : data[At(k).from] \in SsoUsers
    BY <1>4
  <2> QED
    BY <1>3, <2>1
<1>6. ASSUME NEW i \in indexes
      PROVE  /\ Rank(indexes, i) \in DOMAIN answer
             /\ answer[Rank(indexes, i)] = data[BestLike(data, i)]
  <2>1. Rank(indexes, i) \in 1..Cardinality(indexes) /\ Nth(indexes, Rank(indexes, i)) = i
    BY <1>3, RankType, NthOfRank
  <2> QED
    BY <1>4, <2>1
<1> HIDE DEF answer
<1> QED
  BY <1>1, <1>2, <1>5, <1>6

LEMMA BusinessType ==
    ASSUME NEW found \in Seq(SsoUsers)
    PROVE  Business(found) \in Seq(SsoUsers)
<1> DEFINE places == {i \in DOMAIN found : found[i].business}
<1>1. places \in SUBSET Nat /\ IsFiniteSet(places) /\ Cardinality(places) \in Nat
  BY PlacesFinite
<1>2. \A k \in 1..Cardinality(places) : Nth(places, k) \in places
  BY <1>1, NthIsOne
<1>3. \A k \in 1..Cardinality(places) : found[Nth(places, k)] \in SsoUsers
  BY <1>2
<1>4. Business(found) = [k \in 1..Cardinality(places) |-> found[Nth(places, k)]]
  BY DEF Business
<1> HIDE DEF places
<1> QED
  BY <1>1, <1>3, <1>4

-----------------------------------------------------------------------------
(* The pages. *)

\* A search that is outstanding is for a text, which is the one in the box
\* unless the search is late; and what it keeps was found for that text.  With
\* or without a box, what is shown is late or left or for the text in the box.
OutstandingForText ==
    \A s \in Outstanding : search[s].for \in Texts
OutstandingUnlessLate ==
    \A s \in Outstanding : (open /\ search[s].for = text) \/ search[s].for \in late
ShownUnlessLateOrLeft ==
    left \/ \A i \in DOMAIN shown : (open /\ shown[i].for = text) \/ shown[i].for \in late
KeptOfOwnSearch ==
    \A s \in Searches : \A i \in DOMAIN search[s].kept :
        search[s].kept[i].for = search[s].for

\* The part of TypeOK that is about the box.
BoxTypeOK ==
    open \in BOOLEAN /\ text \in Texts /\ selected \in BOOLEAN /\ adding \in 0..MaxAdding

SearchInv ==
    /\ TypeOK
    /\ OutstandingForText
    /\ OutstandingUnlessLate
    /\ KeptOfOwnSearch
    /\ ResultsOfOneSearch
    /\ ShownUnlessLateOrLeft

\* What a call makes of the users it was answered with.
LEMMA ForType ==
    ASSUME NEW s \in Searches, search[s].for \in Texts, NEW users \in Seq(SsoUsers)
    PROVE  /\ For(s, users) \in Seq(Results)
           /\ Len(For(s, users)) = Len(users)
           /\ \A k \in DOMAIN users : For(s, users)[k].user = users[k]
           /\ \A k \in DOMAIN For(s, users) : For(s, users)[k].for = search[s].for
<1>1. Len(users) \in Nat /\ DOMAIN users = 1..Len(users)
  OBVIOUS
<1>2. \A k \in 1..Len(users) : [for |-> search[s].for, user |-> users[k]] \in Results
  BY DEF Results
<1>3. For(s, users) = [k \in 1..Len(users) |-> [for |-> search[s].for, user |-> users[k]]]
  BY <1>1 DEF For
<1> QED
  BY <1>1, <1>2, <1>3

SearchState ==
    [at : {"idle", "idir", "bceid"}, for : Texts \union {"none"}, found : Seq(SsoUsers),
     kept : Seq(Results)]

LEMMA NoSearchType == NoSearch \in SearchState
<1>1. <<>> \in Seq(SsoUsers) /\ <<>> \in Seq(Results)
  OBVIOUS
<1> QED
  BY <1>1 DEF NoSearch, SearchState

\* A search that is over: the others stay as they are.
LEMMA ForgetSearch ==
    ASSUME SearchInv, NEW s \in Searches, search' = [search EXCEPT ![s] = NoSearch],
           UNCHANGED <<box, late>>
    PROVE  /\ search' \in [Searches -> SearchState]
           /\ OutstandingForText' /\ OutstandingUnlessLate' /\ KeptOfOwnSearch'
<1>1. search \in [Searches -> SearchState]
  BY DEF SearchInv, TypeOK, SearchState, box, results
<1>2. search' \in [Searches -> SearchState]
  BY <1>1, NoSearchType
<1>3. \A r \in Searches \ {s} : search'[r] = search[r]
  BY <1>1
<1>4. search'[s].at = "idle" /\ search'[s].kept = <<>>
  BY <1>1 DEF NoSearch
<1>5. OutstandingForText' /\ OutstandingUnlessLate'
  BY <1>3, <1>4 DEF SearchInv, OutstandingForText, OutstandingUnlessLate, box, results, Outstanding
<1>6. KeptOfOwnSearch'
  BY <1>3, <1>4 DEF SearchInv, KeptOfOwnSearch
<1> QED
  BY <1>2, <1>5, <1>6

LEMMA AnsweredInv ==
    ASSUME SearchInv, NEW s \in Searches, NEW found \in Seq(SsoUsers), IdirAnswered(s, found)
    PROVE  SearchInv'
<1> DEFINE users == For(s, SearchBCGOVSSOUsers(found))
           new == [search[s] EXCEPT !.at = "bceid", !.kept = users, !.found = found]
<1>1. /\ search[s].at = "idir"
      /\ search' = [search EXCEPT ![s] = new]
      /\ shown' = users /\ shows' = TRUE /\ left' = FALSE
      /\ UNCHANGED <<box, late>>
  BY DEF IdirAnswered, Show
<1>2. search \in [Searches -> SearchState]
  BY DEF SearchInv, TypeOK, SearchState, box, results
<1>3. search[s].for \in Texts /\ ((open /\ search[s].for = text) \/ search[s].for \in late)
  BY <1>1 DEF SearchInv, OutstandingForText, OutstandingUnlessLate, box, results, Outstanding
<1>4. SearchBCGOVSSOUsers(found) \in Seq(SsoUsers)
  BY DedupIs DEF SearchBCGOVSSOUsers
<1>5. users \in Seq(Results) /\ \A k \in DOMAIN users : users[k].for = search[s].for
  BY <1>3, <1>4, ForType
<1> HIDE DEF users
<1>6. new \in SearchState /\ new.at = "bceid" /\ new.for = search[s].for /\ new.kept = users
  BY <1>2, <1>5 DEF SearchState
<1> HIDE DEF new
<1>7. search' \in [Searches -> SearchState] /\ search'[s] = new
      /\ \A r \in Searches \ {s} : search'[r] = search[r]
  BY <1>1, <1>2, <1>6
<1>8. TypeOK'
  BY <1>1, <1>5, <1>7 DEF SearchInv, TypeOK, SearchState, box, results
<1>9. OutstandingForText' /\ OutstandingUnlessLate'
  BY <1>1, <1>3, <1>6, <1>7
  DEF SearchInv, OutstandingForText, OutstandingUnlessLate, box, results, Outstanding
<1>10. KeptOfOwnSearch'
  BY <1>5, <1>6, <1>7 DEF SearchInv, KeptOfOwnSearch
<1>11. ResultsOfOneSearch' /\ ShownUnlessLateOrLeft'
  BY <1>1, <1>3, <1>5 DEF ResultsOfOneSearch, ShownUnlessLateOrLeft, box, results
<1> QED
  BY <1>8, <1>9, <1>10, <1>11 DEF SearchInv

LEMMA CompletedInv ==
    ASSUME SearchInv, NEW s \in Searches, NEW found \in Seq(SsoUsers), BceidAnswered(s, found)
    PROVE  SearchInv'
<1> DEFINE users == For(s, SearchBCGOVSSOBceidUsers(found))
<1>1. /\ search[s].at = "bceid"
      /\ search' = [search EXCEPT ![s] = NoSearch]
      /\ shown' = search[s].kept \o users /\ shows' = TRUE /\ left' = FALSE
      /\ UNCHANGED <<box, late>>
  BY DEF BceidAnswered, Show
<1>2. search[s].for \in Texts /\ ((open /\ search[s].for = text) \/ search[s].for \in late)
  BY <1>1 DEF SearchInv, OutstandingForText, OutstandingUnlessLate, box, results, Outstanding
<1>3. SearchBCGOVSSOBceidUsers(found) \in Seq(SsoUsers)
  BY BusinessType, DedupIs DEF SearchBCGOVSSOBceidUsers
<1>4. users \in Seq(Results) /\ \A k \in DOMAIN users : users[k].for = search[s].for
  BY <1>2, <1>3, ForType
<1>5. /\ search[s].kept \in Seq(Results)
      /\ \A k \in DOMAIN search[s].kept : search[s].kept[k].for = search[s].for
  BY DEF SearchInv, TypeOK, KeptOfOwnSearch
<1> HIDE DEF users
<1>6. shown' \in Seq(Results) /\ \A k \in DOMAIN shown' : shown'[k].for = search[s].for
  <2>1. PICK kept \in Seq(Results) : kept = search[s].kept
    BY <1>5
  <2>2. /\ kept \o users \in Seq(Results)
        /\ \A k \in DOMAIN (kept \o users) :
               \/ k \in DOMAIN kept /\ (kept \o users)[k] = kept[k]
               \/ k - Len(kept) \in DOMAIN users /\ (kept \o users)[k] = users[k - Len(kept)]
    BY <1>4
  <2> QED
    BY <1>1, <1>4, <1>5, <2>1, <2>2
<1>7. /\ search' \in [Searches -> SearchState]
      /\ OutstandingForText' /\ OutstandingUnlessLate' /\ KeptOfOwnSearch'
  BY <1>1, ForgetSearch
<1>8. TypeOK'
  BY <1>1, <1>6, <1>7 DEF SearchInv, TypeOK, SearchState, box, results
<1>9. ResultsOfOneSearch' /\ ShownUnlessLateOrLeft'
  BY <1>1, <1>2, <1>6 DEF ResultsOfOneSearch, ShownUnlessLateOrLeft, box, results
<1> QED
  BY <1>7, <1>8, <1>9 DEF SearchInv

LEMMA FailedInv ==
    ASSUME SearchInv, NEW s \in Searches, SearchFails(s)
    PROVE  SearchInv'
<1>1. /\ search' = [search EXCEPT ![s] = NoSearch]
      /\ shown' = <<>> /\ shows' = FALSE /\ left' = FALSE
      /\ UNCHANGED <<box, late>>
  BY DEF SearchFails, Nothing
<1>2. /\ search' \in [Searches -> SearchState]
      /\ OutstandingForText' /\ OutstandingUnlessLate' /\ KeptOfOwnSearch'
  BY <1>1, ForgetSearch
<1>3. TypeOK'
  <2>1. <<>> \in Seq(Results)
    OBVIOUS
  <2> QED
    BY <1>1, <1>2, <2>1 DEF SearchInv, TypeOK, SearchState, box, results
<1>4. ResultsOfOneSearch' /\ ShownUnlessLateOrLeft'
  BY <1>1 DEF ResultsOfOneSearch, ShownUnlessLateOrLeft, box, results
<1> QED
  BY <1>2, <1>3, <1>4 DEF SearchInv

LEMMA BegunInv ==
    ASSUME SearchInv, NEW s \in Searches, HandleUserSearch(s)
    PROVE  SearchInv'
<1> DEFINE new == [NoSearch EXCEPT !.at = "idir", !.for = text]
<1>1. /\ open
      /\ search' = [search EXCEPT ![s] = new]
      /\ UNCHANGED <<box, results, late, left>>
  BY DEF HandleUserSearch
<1>2. search \in [Searches -> SearchState] /\ text \in Texts
  BY DEF SearchInv, TypeOK, SearchState, box, results
<1>3. new \in SearchState /\ new.for = text /\ new.kept = <<>>
  BY <1>2, NoSearchType DEF SearchState, NoSearch
<1> HIDE DEF new
<1>4. search' \in [Searches -> SearchState] /\ search'[s] = new
      /\ \A r \in Searches \ {s} : search'[r] = search[r]
  BY <1>1, <1>2, <1>3
<1>5. TypeOK'
  BY <1>1, <1>4 DEF SearchInv, TypeOK, SearchState, box, results
<1>6. OutstandingForText' /\ OutstandingUnlessLate'
  BY <1>1, <1>2, <1>3, <1>4
  DEF SearchInv, OutstandingForText, OutstandingUnlessLate, box, results, Outstanding
<1>7. KeptOfOwnSearch'
  BY <1>3, <1>4 DEF SearchInv, KeptOfOwnSearch
<1>8. ResultsOfOneSearch' /\ ShownUnlessLateOrLeft'
  BY <1>1 DEF SearchInv, ResultsOfOneSearch, ShownUnlessLateOrLeft, box, results
<1> QED
  BY <1>5, <1>6, <1>7, <1>8 DEF SearchInv

\* The results are cleared, or left.
GoneOrLeft == Nothing \/ (UNCHANGED results /\ left' = shows)

\* A step that is none of a search.
BoxMoves == BoxTypeOK' /\ UNCHANGED search

\* Whatever is outstanding when the text is abandoned is late from then on, and
\* what is shown is cleared or left.
LEMMA AbandonedInv ==
    ASSUME SearchInv, BoxMoves, Abandon, GoneOrLeft
    PROVE  SearchInv'
<1>0. BoxTypeOK' /\ search' = search
  BY DEF BoxMoves
<1>1. late' = late \union {search[s].for : s \in Outstanding}
  BY DEF Abandon
<1>2. Outstanding' = Outstanding
  BY <1>0 DEF Outstanding
<1>3. OutstandingForText' /\ OutstandingUnlessLate'
  BY <1>0, <1>1, <1>2 DEF SearchInv, OutstandingForText, OutstandingUnlessLate
<1>4. TypeOK'
  <2>1. late' \subseteq Texts
    BY <1>1 DEF SearchInv, TypeOK, OutstandingForText
  <2>2. <<>> \in Seq(Results)
    OBVIOUS
  <2> QED
    BY <1>0, <2>1, <2>2 DEF SearchInv, TypeOK, BoxTypeOK, GoneOrLeft, Nothing, results
<1>5. KeptOfOwnSearch'
  BY <1>0 DEF SearchInv, KeptOfOwnSearch
<1>6. ResultsOfOneSearch'
  BY <1>0 DEF SearchInv, ResultsOfOneSearch, GoneOrLeft, Nothing, results
<1>7. ShownUnlessLateOrLeft'
  <2>1. shown' = <<>> \/ left' = TRUE
    BY <1>0 DEF GoneOrLeft, Nothing, results, SearchInv, TypeOK
  <2> QED
    BY <2>1 DEF ShownUnlessLateOrLeft
<1> QED
  BY <1>3, <1>4, <1>5, <1>6, <1>7 DEF SearchInv

\* What the new box shows is late or left already.
LEMMA OpenedInv ==
    ASSUME SearchInv, OpenBox
    PROVE  SearchInv'
<1>1. TypeOK'
  BY TextsAssumption DEF SearchInv, TypeOK, OpenBox, results
<1>2. OutstandingForText' /\ OutstandingUnlessLate' /\ KeptOfOwnSearch'
  BY DEF SearchInv, OutstandingForText, OutstandingUnlessLate, Outstanding, KeptOfOwnSearch,
     OpenBox
<1>3. ResultsOfOneSearch' /\ ShownUnlessLateOrLeft'
  BY DEF SearchInv, ResultsOfOneSearch, ShownUnlessLateOrLeft, OpenBox, results
<1> QED
  BY <1>1, <1>2, <1>3 DEF SearchInv

\* Neither a selection nor an addition that fails touches texts and results.
Untouched == BoxTypeOK' /\ UNCHANGED <<open, text, results, search, late, left>>

LEMMA UntouchedInv ==
    ASSUME SearchInv, Untouched
    PROVE  SearchInv'
BY DEF SearchInv, TypeOK, BoxTypeOK, OutstandingForText, OutstandingUnlessLate, Outstanding,
   KeptOfOwnSearch, ResultsOfOneSearch, ShownUnlessLateOrLeft, results, Untouched

LEMMA NextSearchInv == SearchInv /\ [Next]_vars => SearchInv'
<1> SUFFICES ASSUME SearchInv, [Next]_vars PROVE SearchInv'
  OBVIOUS
<1>0. BoxTypeOK /\ MaxAdding \in Nat
  BY MaxAddingAssumption DEF SearchInv, TypeOK, BoxTypeOK
<1>1. ASSUME NEW t \in Texts, ChangeText(t) PROVE SearchInv'
  <2>1. BoxTypeOK'
    BY <1>0, <1>1 DEF ChangeText, BoxTypeOK
  <2>2. UNCHANGED search /\ Abandon /\ GoneOrLeft
    BY <1>1 DEF ChangeText, GoneOrLeft
  <2> QED
    BY <2>1, <2>2, AbandonedInv DEF BoxMoves
<1>2. CASE HandleCancel
  <2>1. BoxTypeOK'
    BY <1>0, <1>2 DEF HandleCancel, BoxTypeOK
  <2>2. UNCHANGED search /\ Abandon /\ GoneOrLeft
    BY <1>2 DEF HandleCancel, GoneOrLeft
  <2> QED
    BY <2>1, <2>2, AbandonedInv DEF BoxMoves
<1>3. CASE UserAdded
  <2>1. BoxTypeOK'
    BY <1>0, <1>3 DEF UserAdded, BoxTypeOK
  <2>2. UNCHANGED search /\ Abandon /\ GoneOrLeft
    BY <1>3 DEF UserAdded, GoneOrLeft
  <2> QED
    BY <2>1, <2>2, AbandonedInv DEF BoxMoves
<1>4. CASE ToggleSearch \/ HandleAddUser
  <2>1. CloseBox /\ selected' = selected
    BY <1>4 DEF ToggleSearch, HandleAddUser
  <2>2. adding' \in 0..MaxAdding
    BY <1>0, <1>4 DEF ToggleSearch, HandleAddUser, BoxTypeOK
  <2>3. BoxTypeOK'
    BY <1>0, <2>1, <2>2 DEF CloseBox, BoxTypeOK
  <2>4. UNCHANGED search /\ Abandon /\ GoneOrLeft
    BY <2>1 DEF CloseBox, GoneOrLeft
  <2> QED
    BY <2>3, <2>4, AbandonedInv DEF BoxMoves
<1>5. CASE OpenBox
  BY <1>5, OpenedInv
<1>6. CASE HandleUserSelected \/ AddFails
  <2>0. adding' \in 0..MaxAdding
    BY <1>0, <1>6 DEF HandleUserSelected, AddFails, BoxTypeOK
  <2>1. BoxTypeOK'
    BY <1>0, <1>6, <2>0 DEF HandleUserSelected, AddFails, BoxTypeOK
  <2>2. UNCHANGED <<open, text, results, search, late, left>>
    BY <1>6 DEF HandleUserSelected, AddFails
  <2> QED
    BY <2>1, <2>2, UntouchedInv DEF Untouched
<1>7. ASSUME NEW s \in Searches, HandleUserSearch(s) PROVE SearchInv'
  BY <1>7, BegunInv
<1>8. ASSUME NEW s \in Searches, NEW found \in IdirAnswers, IdirAnswered(s, found)
      PROVE  SearchInv'
  BY <1>8, AnsweredInv, AnswersAssumption
<1>9. ASSUME NEW s \in Searches, NEW found \in BceidAnswers, BceidAnswered(s, found)
      PROVE  SearchInv'
  BY <1>9, CompletedInv, AnswersAssumption
<1>10. ASSUME NEW s \in Searches, SearchFails(s) PROVE SearchInv'
  BY <1>10, FailedInv
<1>11. CASE UNCHANGED vars
  <2>1. BoxTypeOK'
    BY <1>0, <1>11 DEF vars, box, BoxTypeOK
  <2>2. UNCHANGED <<open, text, results, search, late, left>>
    BY <1>11 DEF vars, box
  <2> QED
    BY <2>1, <2>2, UntouchedInv DEF Untouched
<1> QED
  BY <1>1, <1>2, <1>3, <1>4, <1>5, <1>6, <1>7, <1>8, <1>9, <1>10, <1>11 DEF Next

LEMMA InitSearchInv == Init => SearchInv
<1> SUFFICES ASSUME Init PROVE SearchInv
  OBVIOUS
<1>1. /\ open = FALSE /\ text \in Texts /\ selected = FALSE
      /\ adding = 0 /\ adding \in 0..MaxAdding
      /\ shown = <<>> /\ shows = FALSE /\ late = {} /\ left = FALSE
      /\ search = [s \in Searches |-> NoSearch]
  BY TextsAssumption, MaxAddingAssumption DEF Init
<1>2. TypeOK
  <2>1. <<>> \in Seq(Results)
    OBVIOUS
  <2>2. search \in [Searches -> SearchState]
    BY <1>1, NoSearchType
  <2> QED
    BY <1>1, <2>1, <2>2 DEF TypeOK, SearchState
<1>3. \A s \in Searches : search[s].at = "idle" /\ search[s].kept = <<>>
  BY <1>1 DEF NoSearch
<1>4. OutstandingForText /\ OutstandingUnlessLate /\ KeptOfOwnSearch
  BY <1>3 DEF OutstandingForText, OutstandingUnlessLate, Outstanding, KeptOfOwnSearch
<1>5. ResultsOfOneSearch /\ ShownUnlessLateOrLeft
  BY <1>1 DEF ResultsOfOneSearch, ShownUnlessLateOrLeft, box, results
<1> QED
  BY <1>2, <1>4, <1>5 DEF SearchInv

\* The inductive invariant of the pages.
LEMMA SearchInvariant == Spec => []SearchInv
  BY InitSearchInv, NextSearchInv, PTL DEF Spec

\* The variables of the pages keep their types.
THEOREM TypeCorrect == Spec => []TypeOK
<1>1. SearchInv => TypeOK
  BY DEF SearchInv
<1> QED
  BY <1>1, SearchInvariant, PTL

\* handleUserSearch replaces what is shown by what it found, and concatenates to
\* the array it holds: however the answers of searches overtake each other, all
\* the results shown were searched for the same text.
THEOREM ShownOfOneSearch == Spec => []ResultsOfOneSearch
<1>1. SearchInv => ResultsOfOneSearch
  BY DEF SearchInv
<1> QED
  BY <1>1, SearchInvariant, PTL

\* What the box shows for another text is late, from a search that was outstanding
\* when its text was abandoned, or left, what the last box was closed on.
THEOREM ShownForTextUnlessLateOrLeft == Spec => []ResultsForTextUnlessLateOrLeft
<1>1. SearchInv => ResultsForTextUnlessLateOrLeft
  BY DEF SearchInv, ShownUnlessLateOrLeft, ResultsForTextUnlessLateOrLeft
<1> QED
  BY <1>1, SearchInvariant, PTL

-----------------------------------------------------------------------------
(* What the backend drops. *)

\* What a search holds after its first answer is the best of what was found.
HoldsTheBest(data, answer) ==
    /\ Len(answer) = Cardinality(Firsts(data))
    /\ \A i \in Firsts(data) : answer[Rank(Firsts(data), i)].user = data[BestLike(data, i)]

LEMMA DedupKeepsTheBestIs ==
    DedupKeepsTheBest <=> \A s \in Searches : HoldsTheBest(search[s].found, search[s].kept)
  BY DEF DedupKeepsTheBest, HoldsTheBest, Rank

LEMMA NothingHeld ==
    HoldsTheBest(NoSearch.found, NoSearch.kept)
<1>1. Firsts(<<>>) = {}
  BY DEF Firsts
<1>2. Cardinality({}) = 0 /\ Len(<<>>) = 0
  BY FS_EmptySet
<1> QED
  BY <1>1, <1>2 DEF HoldsTheBest, NoSearch

LEMMA AnswerHeld ==
    ASSUME NEW s \in Searches, search[s].for \in Texts, NEW found \in Seq(SsoUsers)
    PROVE  HoldsTheBest(found, For(s, SearchBCGOVSSOUsers(found)))
<1> DEFINE users == Dedup(found)
<1>1. /\ users \in Seq(SsoUsers) /\ Len(users) = Cardinality(Firsts(found))
      /\ \A i \in Firsts(found) :
             /\ Rank(Firsts(found), i) \in DOMAIN users
             /\ users[Rank(Firsts(found), i)] = found[BestLike(found, i)]
  BY DedupIs
<1> HIDE DEF users
<1>2. /\ Len(For(s, users)) = Len(users)
      /\ \A k \in DOMAIN users : For(s, users)[k].user = users[k]
  BY <1>1, ForType
<1>3. HoldsTheBest(found, For(s, users))
  BY <1>1, <1>2 DEF HoldsTheBest
<1> QED
  BY <1>3 DEF users, SearchBCGOVSSOUsers

\* Of the users the SSO API finds, however many, each person is in the answer
\* once, by the first of their most complete records, in the order they were
\* first found in; and users without a guid are all there.
THEOREM DedupIsBest == Spec => []DedupKeepsTheBest
<1>1. Init => DedupKeepsTheBest
  BY NothingHeld, DedupKeepsTheBestIs DEF Init
<1>2. SearchInv /\ DedupKeepsTheBest /\ [Next]_vars => DedupKeepsTheBest'
  <2> SUFFICES ASSUME SearchInv, DedupKeepsTheBest, [Next]_vars PROVE DedupKeepsTheBest'
    OBVIOUS
  <2>0. /\ \A s \in Searches : HoldsTheBest(search[s].found, search[s].kept)
        /\ search \in [Searches -> SearchState]
    BY DedupKeepsTheBestIs DEF SearchInv, TypeOK, SearchState
  <2> SUFFICES ASSUME NEW s \in Searches
               PROVE  HoldsTheBest(search'[s].found, search'[s].kept)
    BY DEF DedupKeepsTheBest, HoldsTheBest, Rank
  <2>1. CASE search'[s] = search[s]
    BY <2>0, <2>1
  <2>2. ASSUME NEW r \in Searches, HandleUserSearch(r)
        PROVE  search'[s] = search[s] \/ /\ search'[s].found = NoSearch.found
                                         /\ search'[s].kept = NoSearch.kept
    BY <2>0, <2>2 DEF HandleUserSearch, NoSearch
  <2>3. ASSUME NEW r \in Searches, NEW found \in IdirAnswers, IdirAnswered(r, found)
        PROVE  HoldsTheBest(search'[s].found, search'[s].kept)
    <3>1. r # s => search'[s] = search[s]
      BY <2>0, <2>3 DEF IdirAnswered
    <3>2. r = s => /\ search'[s].found = found
                   /\ search'[s].kept = For(s, SearchBCGOVSSOUsers(found))
      BY <2>0, <2>3 DEF IdirAnswered, SearchState
    <3>3. r = s => search[s].for \in Texts
      BY <2>3 DEF IdirAnswered, SearchInv, OutstandingForText, Outstanding
    <3>4. found \in Seq(SsoUsers)
      BY AnswersAssumption
    <3> QED
      BY <2>1, <3>1, <3>2, <3>3, <3>4, AnswerHeld
  <2>4. ASSUME NEW r \in Searches, NEW found \in BceidAnswers, BceidAnswered(r, found)
        PROVE  search'[s] = search[s] \/ search'[s] = NoSearch
    BY <2>0, <2>4 DEF BceidAnswered
  <2>5. ASSUME NEW r \in Searches, SearchFails(r)
        PROVE  search'[s] = search[s] \/ search'[s] = NoSearch
    BY <2>0, <2>5 DEF SearchFails
  <2>6. CASE UNCHANGED search
    BY <2>1, <2>6
  <2> QED
    BY <2>1, <2>2, <2>3, <2>4, <2>5, <2>6, NothingHeld
    DEF Next, vars, OpenBox, ToggleSearch, CloseBox, HandleUserSelected, HandleAddUser,
        UserAdded, AddFails, HandleCancel, ChangeText
<1> QED
  BY <1>1, <1>2, SearchInvariant, PTL DEF Spec
=============================================================================
