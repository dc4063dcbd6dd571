-------------------------- MODULE LinkHealthProofs --------------------------
(***************************************************************************)
(* Proofs about LinkHealth for every set of items, URLs and hosts, every    *)
(* batch and any number of edits and restarts.                             *)
(***************************************************************************)
EXTENDS LinkHealth, FiniteSetTheorems, SequenceTheorems, TLAPS

-----------------------------------------------------------------------------
(* Ranks: how many elements of a finite set come before one.               *)

Rank(K, R, k) == Cardinality({j \in K : <<j, k>> \in R})

StrictOrder(K, R) ==
    /\ \A j \in K : <<j, j>> \notin R
    /\ \A i, j, k \in K : <<i, j>> \in R /\ <<j, k>> \in R => <<i, k>> \in R
    /\ \A i, j \in K : i # j => <<i, j>> \in R \/ <<j, i>> \in R

LEMMA RankIsNat ==
    ASSUME NEW K, NEW R, IsFiniteSet(K), StrictOrder(K, R), NEW k \in K
    PROVE  /\ Rank(K, R, k) \in Nat /\ Cardinality(K) \in Nat
           /\ Rank(K, R, k) < Cardinality(K)
<1> DEFINE S == {j \in K : <<j, k>> \in R}
<1>1. S \subseteq K /\ k \notin S /\ S # K
  BY DEF StrictOrder
<1>2. IsFiniteSet(S) /\ Cardinality(S) <= Cardinality(K) /\ Cardinality(S) # Cardinality(K)
  BY <1>1, FS_Subset
<1>3. Cardinality(S) \in Nat /\ Cardinality(K) \in Nat
  BY <1>2, FS_CardinalityType
<1> QED
  BY <1>2, <1>3 DEF Rank

LEMMA RankGrows ==
    ASSUME NEW K, NEW R, IsFiniteSet(K), StrictOrder(K, R), NEW j \in K, NEW k \in K,
           <<j, k>> \in R
    PROVE  Rank(K, R, j) < Rank(K, R, k)
<1> DEFINE S == {i \in K : <<i, j>> \in R}
           T == {i \in K : <<i, k>> \in R}
<1>1. S \subseteq T /\ S # T
  BY DEF StrictOrder
<1>2. IsFiniteSet(T)
  BY FS_Subset
<1>3. IsFiniteSet(S) /\ Cardinality(S) <= Cardinality(T) /\ Cardinality(S) # Cardinality(T)
  BY <1>1, <1>2, FS_Subset
<1>4. Cardinality(S) \in Nat /\ Cardinality(T) \in Nat
  BY <1>2, <1>3, FS_CardinalityType
<1> QED
  BY <1>3, <1>4 DEF Rank

LEMMA RankOrders ==
    ASSUME NEW K, NEW R, IsFiniteSet(K), StrictOrder(K, R), NEW j \in K, NEW k \in K
    PROVE  Rank(K, R, j) < Rank(K, R, k) <=> <<j, k>> \in R
<1>1. Rank(K, R, j) \in Nat /\ Rank(K, R, k) \in Nat
  BY RankIsNat
<1>2. CASE j = k
  BY <1>1, <1>2 DEF StrictOrder
<1>3. CASE <<j, k>> \in R
  BY <1>1, <1>3, RankGrows
<1>4. CASE <<k, j>> \in R /\ j # k
  <2>1. Rank(K, R, k) < Rank(K, R, j)
    BY <1>4, RankGrows
  <2>2. <<j, k>> \notin R
    BY <1>4 DEF StrictOrder
  <2> QED
    BY <1>1, <1>4, <2>1, <2>2
<1> QED
  BY <1>2, <1>3, <1>4 DEF StrictOrder

LEMMA RankSame ==
    ASSUME NEW K, NEW R, IsFiniteSet(K), StrictOrder(K, R), NEW j, j \in K, NEW k, k \in K,
           Rank(K, R, j) = Rank(K, R, k)
    PROVE  j = k
<1>1. Rank(K, R, j) \in Nat /\ Rank(K, R, k) \in Nat
  BY RankIsNat
<1>2. <<j, k>> \notin R
  <2>1. ~ (Rank(K, R, j) < Rank(K, R, k))
    BY <1>1
  <2> QED
    BY <2>1, RankGrows
<1>3. <<k, j>> \notin R
  <2>1. ~ (Rank(K, R, k) < Rank(K, R, j))
    BY <1>1
  <2> QED
    BY <2>1, RankGrows
<1> QED
  BY <1>2, <1>3 DEF StrictOrder

\* Fewer than n before each: at most n.
LEMMA ByRank ==
    ASSUME NEW K, NEW R, IsFiniteSet(K), StrictOrder(K, R), NEW n \in Nat,
           NEW B, B \subseteq K, \A k \in B : Rank(K, R, k) < n
    PROVE  IsFiniteSet(B) /\ Cardinality(B) <= n
<1> DEFINE T == 0..(n-1)
           f == [k \in B |-> Rank(K, R, k)]
<1>1. IsFiniteSet(T) /\ Cardinality(T) = n
  <2>1. IsFiniteSet(T) /\ Cardinality(T) = IF 0 > n-1 THEN 0 ELSE (n-1) - 0 + 1
    BY FS_Interval
  <2> QED
    BY <2>1
<1>2. \A k \in B : Rank(K, R, k) \in T
  <2> SUFFICES ASSUME NEW k \in B PROVE Rank(K, R, k) \in T
    OBVIOUS
  <2>1. Rank(K, R, k) \in Nat /\ Rank(K, R, k) < n
    BY RankIsNat
  <2> QED
    BY <2>1
<1>3. f \in Injection(B, T)
  <2>1. f \in [B -> T]
    BY <1>2
  <2>2. ASSUME NEW j \in B, NEW k \in B, f[j] = f[k]
        PROVE  j = k
    <3>1. Rank(K, R, j) = Rank(K, R, k)
      BY <2>2
    <3>2. j \in K /\ k \in K
      OBVIOUS
    <3> QED
      BY ONLY <3>1, <3>2, IsFiniteSet(K), StrictOrder(K, R), RankSame
  <2> HIDE DEF f, T
  <2> QED
    BY <2>1, <2>2 DEF Injection, IsInjective
<1> HIDE DEF f, T
<1> QED
  BY <1>1, <1>3, FS_Injection

\* Every rank below the cardinality is taken.
LEMMA EveryRank ==
    ASSUME NEW K, NEW R, IsFiniteSet(K), StrictOrder(K, R), NEW m \in Nat, m < Cardinality(K)
    PROVE  \E k \in K : Rank(K, R, k) = m
<1> DEFINE n == Cardinality(K)
           T == 0..(n-1)
           f == [k \in K |-> Rank(K, R, k)]
<1>0. n \in Nat
  BY FS_CardinalityType
<1> HIDE DEF n
<1>1. IsFiniteSet(T) /\ Cardinality(T) = n
  <2>1. IsFiniteSet(T) /\ Cardinality(T) = IF 0 > n-1 THEN 0 ELSE (n-1) - 0 + 1
    BY <1>0, FS_Interval
  <2> QED
    BY <1>0, <2>1
<1>2. \A k \in K : Rank(K, R, k) \in T
  <2> SUFFICES ASSUME NEW k \in K PROVE Rank(K, R, k) \in T
    OBVIOUS
  <2>1. Rank(K, R, k) \in Nat /\ Rank(K, R, k) < n
    BY RankIsNat DEF n
  <2> QED
    BY <1>0, <2>1
<1>3. f \in Injection(K, T)
  <2>1. f \in [K -> T]
    BY <1>2
  <2>2. ASSUME NEW j \in K, NEW k \in K, f[j] = f[k]
        PROVE  j = k
    <3>1. Rank(K, R, j) = Rank(K, R, k)
      BY <2>2
    <3>2. j \in K /\ k \in K
      OBVIOUS
    <3> QED
      BY ONLY <3>1, <3>2, IsFiniteSet(K), StrictOrder(K, R), RankSame
  <2> HIDE DEF f, T
  <2> QED
    BY <2>1, <2>2 DEF Injection, IsInjective
<1>4. m \in T
  BY <1>0 DEF n
<1>5. f \in Surjection(K, T)
  <2> HIDE DEF f, T
  <2> QED
    BY <1>1, <1>3, FS_Injection DEF n
<1>6. \E k \in K : f[k] = m
  <2> HIDE DEF f, T
  <2> QED
    BY <1>4, <1>5 DEF Surjection
<1> QED
  BY <1>6

\* A set put in order: every element once, and nothing between two neighbours.
LEMMA InOrderIs ==
    ASSUME NEW K, NEW R, IsFiniteSet(K), StrictOrder(K, R), NEW s, s = InOrder(K, R)
    PROVE  /\ DOMAIN s = 1..Cardinality(K) /\ Cardinality(K) \in Nat
           /\ \A n \in DOMAIN s : s[n] \in K
           /\ \A n, m \in DOMAIN s : n < m => <<s[n], s[m]>> \in R
           /\ \A n, m \in DOMAIN s : s[n] = s[m] => n = m
           /\ \A n \in DOMAIN s, k \in K :
                 n + 1 \in DOMAIN s => ~ (<<s[n], k>> \in R /\ <<k, s[n+1]>> \in R)
<1>1. DOMAIN s = 1..Cardinality(K) /\ Cardinality(K) \in Nat
  BY FS_CardinalityType DEF InOrder
<1>2. ASSUME NEW n \in DOMAIN s
      PROVE  s[n] \in K /\ Rank(K, R, s[n]) = n - 1 /\ n \in Nat
  <2>1. n - 1 \in Nat /\ n - 1 < Cardinality(K) /\ n \in Nat
    BY <1>1
  <2>2. \E k \in K : Cardinality({j \in K : <<j, k>> \in R}) = n - 1
    BY <2>1, EveryRank DEF Rank
  <2>3. s[n] = CHOOSE k \in K : Cardinality({j \in K : <<j, k>> \in R}) = n - 1
    BY <1>1 DEF InOrder
  <2> QED
    BY <2>1, <2>2, <2>3 DEF Rank
<1>3. \A n, m \in DOMAIN s : n < m => <<s[n], s[m]>> \in R
  <2> SUFFICES ASSUME NEW n \in DOMAIN s, NEW m \in DOMAIN s, n < m
               PROVE  <<s[n], s[m]>> \in R
    OBVIOUS
  <2>1. Rank(K, R, s[n]) < Rank(K, R, s[m])
    BY <1>2
  <2> QED
    BY <1>2, <2>1, RankOrders
<1>4. \A n, m \in DOMAIN s : s[n] = s[m] => n = m
  <2> SUFFICES ASSUME NEW n \in DOMAIN s, NEW m \in DOMAIN s, s[n] = s[m]
               PROVE  n = m
    OBVIOUS
  <2>1. n - 1 = m - 1 /\ n \in Nat /\ m \in Nat
    BY <1>2
  <2> QED
    BY ONLY <2>1
<1>5. ASSUME NEW n \in DOMAIN s, NEW k \in K, n + 1 \in DOMAIN s,
             <<s[n], k>> \in R, <<k, s[n+1]>> \in R
      PROVE  FALSE
  <2>1. Rank(K, R, s[n]) = n - 1 /\ Rank(K, R, s[n+1]) = (n + 1) - 1 /\ n \in Nat
    BY <1>2, <1>5
  <2>2. Rank(K, R, s[n]) < Rank(K, R, k) /\ Rank(K, R, k) < Rank(K, R, s[n+1])
    BY <1>2, <1>5, RankOrders
  <2>3. Rank(K, R, k) \in Nat
    BY RankIsNat
  <2> QED
    BY ONLY <2>1, <2>2, <2>3
<1> QED
  BY <1>1, <1>2, <1>3, <1>4, <1>5

-----------------------------------------------------------------------------
(* A batch and its hosts.                                                  *)

Less(K) == {p \in K \X K : p[1] < p[2]}

LEMMA LessIsStrict ==
    ASSUME NEW K, K \subseteq Nat
    PROVE  /\ StrictOrder(K, Less(K))
           /\ \A k \in K : {j \in K : <<j, k>> \in Less(K)} = {j \in K : j < k}
<1>1. \A j, k \in K : j \in Nat /\ k \in Nat /\ (<<j, k>> \in Less(K) <=> j < k)
  BY DEF Less
<1>2. StrictOrder(K, Less(K))
  <2>1. \A j \in K : <<j, j>> \notin Less(K)
    BY <1>1
  <2>2. ASSUME NEW i \in K, NEW j \in K, NEW k \in K,
               <<i, j>> \in Less(K), <<j, k>> \in Less(K)
        PROVE  <<i, k>> \in Less(K)
    <3>1. i \in Nat /\ j \in Nat /\ k \in Nat /\ i < j /\ j < k
      BY <1>1, <2>2
    <3>2. i < k
      BY ONLY <3>1
    <3> QED
      BY <1>1, <3>2
  <2>3. ASSUME NEW i \in K, NEW j \in K, i # j
        PROVE  <<i, j>> \in Less(K) \/ <<j, i>> \in Less(K)
    <3>1. i < j \/ j < i
      BY <1>1, <2>3
    <3> QED
      BY <1>1, <3>1
  <2> QED
    BY <2>1, <2>2, <2>3 DEF StrictOrder
<1> QED
  BY <1>1, <1>2

\* LIMIT: no more than n are taken.
LEMMA TakenAreFew ==
    ASSUME Due \subseteq Nat, IsFiniteSet(Due), NEW n \in Nat
    PROVE  /\ ItemsDueForLinkCheck(n) \subseteq Due
           /\ IsFiniteSet(ItemsDueForLinkCheck(n))
           /\ Cardinality(ItemsDueForLinkCheck(n)) <= n
<1>1. \A k \in ItemsDueForLinkCheck(n) : k \in Due /\ Rank(Due, Less(Due), k) < n
  BY LessIsStrict DEF ItemsDueForLinkCheck, Rank
<1> QED
  BY <1>1, LessIsStrict, ByRank

\* Those of the batch B that are on the host of k.
Mates(B, k) == {j \in B : Host(j) = Host(k)}

LEMMA TurnIsRank ==
    ASSUME NEW B, B \subseteq Nat, IsFiniteSet(B), NEW k, k \in B
    PROVE  /\ Mates(B, k) \subseteq Nat /\ IsFiniteSet(Mates(B, k)) /\ k \in Mates(B, k)
           /\ StrictOrder(Mates(B, k), Less(Mates(B, k)))
           /\ \A j \in Mates(B, k) :
                 /\ Mates(B, j) = Mates(B, k)
                 /\ Turn(B, j) = Rank(Mates(B, k), Less(Mates(B, k)), j)
<1> DEFINE M == Mates(B, k)
<1>1. M \subseteq B /\ M \subseteq Nat /\ k \in M
  BY DEF Mates
<1>2. IsFiniteSet(M)
  BY <1>1, FS_Subset
<1>3. ASSUME NEW j \in M
      PROVE  Mates(B, j) = M /\ Turn(B, j) = Rank(M, Less(M), j)
  <2>1. Host(j) = Host(k)
    BY DEF Mates
  <2>2. {i \in B : Host(i) = Host(j) /\ i < j} = {i \in M : i < j}
    BY <2>1 DEF Mates
  <2>3. {i \in M : <<i, j>> \in Less(M)} = {i \in M : i < j}
    <3> HIDE DEF M
    <3> QED
      BY <1>1, LessIsStrict
  <2> QED
    BY <2>1, <2>2, <2>3 DEF Turn, Rank, Mates
<1> QED
  BY <1>1, <1>2, <1>3, LessIsStrict

LEMMA Turns ==
    ASSUME NEW B, B \subseteq Nat, IsFiniteSet(B), NEW k, k \in B
    PROVE  /\ Turn(B, k) \in Nat
           /\ \A j \in B : Host(j) = Host(k) /\ Turn(B, j) = Turn(B, k) => j = k
<1> DEFINE M == Mates(B, k)
<1>0. /\ M \subseteq Nat /\ IsFiniteSet(M) /\ k \in M /\ StrictOrder(M, Less(M))
      /\ \A j \in M : Turn(B, j) = Rank(M, Less(M), j)
  BY TurnIsRank
<1>1. \A j \in B : Host(j) = Host(k) <=> j \in M
  BY DEF Mates
<1>2. M \subseteq B
  BY DEF Mates
<1> HIDE DEF M
<1>3. Turn(B, k) \in Nat /\ Turn(B, k) < Cardinality(M) /\ Cardinality(M) \in Nat
  BY <1>0, RankIsNat
<1>4. ASSUME NEW j \in B, Host(j) = Host(k), Turn(B, j) = Turn(B, k)
      PROVE  j = k
  <2>1. j \in M
    BY <1>1, <1>4
  <2>2. Rank(M, Less(M), j) = Rank(M, Less(M), k)
    BY <1>0, <1>4, <2>1
  <2> QED
    BY <1>0, <2>1, <2>2, RankSame
<1> QED
  BY <1>3, <1>4

LEMMA TurnOnce ==
    ASSUME NEW B, B \subseteq Nat, IsFiniteSet(B), NEW j, NEW k, j \in B, k \in B,
           Host(j) = Host(k), Turn(B, j) = Turn(B, k)
    PROVE  j = k
  BY Turns

\* One on the host of k has the turn m.
HasTurn(B, k, m) == \E i \in B : Host(i) = Host(k) /\ Turn(B, i) = m

LEMMA EveryTurn ==
    ASSUME NEW B, B \subseteq Nat, IsFiniteSet(B), NEW k, k \in B,
           NEW m, m \in Nat, m <= Turn(B, k)
    PROVE  HasTurn(B, k, m)
<1> DEFINE M == Mates(B, k)
<1>0. /\ M \subseteq Nat /\ IsFiniteSet(M) /\ k \in M /\ StrictOrder(M, Less(M))
      /\ \A j \in M : Turn(B, j) = Rank(M, Less(M), j)
  BY TurnIsRank
<1>1. \A j \in M : j \in B /\ Host(j) = Host(k)
  BY DEF Mates
<1> HIDE DEF M
<1>2. Turn(B, k) \in Nat /\ Turn(B, k) < Cardinality(M) /\ Cardinality(M) \in Nat
  BY <1>0, RankIsNat
<1>3. m < Cardinality(M)
  BY <1>2
<1>4. PICK i \in M : Rank(M, Less(M), i) = m
  <2>1. IsFiniteSet(M) /\ StrictOrder(M, Less(M)) /\ Cardinality(M) \in Nat
    BY <1>0, <1>2
  <2> QED
    BY ONLY <1>3, <2>1, m \in Nat, EveryRank
<1> QED
  BY <1>0, <1>1, <1>4 DEF HasTurn

LEMMA FirstIs ==
    ASSUME NEW B, B \subseteq Nat, IsFiniteSet(B), NEW k, k \in B
    PROVE  First(B, k) \in B /\ Host(First(B, k)) = Host(k) /\ First(B, k) \in Nat
<1>1. Turn(B, k) \in Nat
  BY Turns
<1>2. 0 <= Turn(B, k) /\ 0 \in Nat
  BY <1>1
<1>3. HasTurn(B, k, 0)
  BY <1>2, EveryTurn
<1> QED
  BY <1>3 DEF First, HasTurn

LEMMA FirstAgrees ==
    ASSUME NEW B, NEW j, NEW k, Host(j) = Host(k)
    PROVE  First(B, j) = First(B, k)
  BY DEF First

\* What a sweep takes of the batch B, and its order.
Kept(B, cap) == {k \in B : Turn(B, k) < cap}
Round(B, cap) == {p \in Kept(B, cap) \X Kept(B, cap) : Before(B, p[1], p[2])}

LEMMA RoundIsStrict ==
    ASSUME NEW B, B \subseteq Nat, IsFiniteSet(B), NEW cap
    PROVE  /\ IsFiniteSet(Kept(B, cap)) /\ StrictOrder(Kept(B, cap), Round(B, cap))
           /\ \A j, k \in Kept(B, cap) : <<j, k>> \in Round(B, cap) <=> Before(B, j, k)
<1> DEFINE K == Kept(B, cap)
           R == Round(B, cap)
<1>1. IsFiniteSet(K) /\ K \subseteq B
  BY FS_Subset DEF Kept
<1>2. \A j, k \in K : <<j, k>> \in R <=> Before(B, j, k)
  BY DEF Round
<1> HIDE DEF K, R
<1>3. \A k \in K : k \in B /\ Turn(B, k) \in Nat /\ First(B, k) \in Nat
  BY <1>1, Turns, FirstIs
<1>4. ASSUME NEW j \in K PROVE <<j, j>> \notin R
  <2>1. ~ Before(B, j, j)
    BY <1>3 DEF Before
  <2> QED
    BY <1>2, <2>1
<1>5. ASSUME NEW i \in K, NEW j \in K, NEW k \in K, <<i, j>> \in R, <<j, k>> \in R
      PROVE  <<i, k>> \in R
  <2>1. Before(B, i, j) /\ Before(B, j, k)
    BY <1>2, <1>5
  <2>2. Before(B, i, k)
    BY <1>3, <2>1 DEF Before
  <2> QED
    BY <1>2, <2>2
<1>6. ASSUME NEW i \in K, NEW j \in K, i # j PROVE <<i, j>> \in R \/ <<j, i>> \in R
  <2>1. Before(B, i, j) \/ Before(B, j, i)
    <3>1. CASE Turn(B, i) # Turn(B, j)
      BY <1>3, <3>1 DEF Before
    <3>2. CASE Turn(B, i) = Turn(B, j)
      <4>1. Host(i) # Host(j)
        BY <1>3, <1>6, <3>2, TurnOnce
      <4>2. Host(First(B, i)) = Host(i) /\ Host(First(B, j)) = Host(j)
        <5>1. i \in B /\ j \in B
          BY <1>3
        <5> QED
          BY <5>1, FirstIs
      <4>3. First(B, i) # First(B, j)
        BY <4>1, <4>2
      <4> QED
        BY <1>3, <3>2, <4>3 DEF Before
    <3> QED
      BY <3>1, <3>2
  <2> QED
    BY <1>2, <2>1
<1>7. StrictOrder(K, R)
  BY <1>4, <1>5, <1>6 DEF StrictOrder
<1> QED
  BY <1>1, <1>2, <1>7 DEF K, R

\* How a batch is spread: all that is kept, once each, in the order of rounds.
Spreads(B, cap, s) ==
    /\ DOMAIN s = 1..Cardinality(Kept(B, cap)) /\ Cardinality(Kept(B, cap)) \in Nat
    /\ \A n \in DOMAIN s : s[n] \in Kept(B, cap)
    /\ \A n, m \in DOMAIN s : n < m => Before(B, s[n], s[m])
    /\ \A n, m \in DOMAIN s : s[n] = s[m] => n = m
    /\ \A n \in DOMAIN s, k \in Kept(B, cap) :
          n + 1 \in DOMAIN s => ~ (Before(B, s[n], k) /\ Before(B, k, s[n+1]))

LEMMA SpreadIs ==
    ASSUME NEW B, B \subseteq Nat, IsFiniteSet(B), NEW cap,
           NEW s, s = spreadByHost(B, cap)
    PROVE  Spreads(B, cap, s)
<1> DEFINE K == Kept(B, cap)
           R == Round(B, cap)
<1>1. /\ IsFiniteSet(K) /\ StrictOrder(K, R)
      /\ \A j, k \in K : <<j, k>> \in R <=> Before(B, j, k)
  BY RoundIsStrict
<1>2. s = InOrder(K, R)
  BY DEF spreadByHost, Kept, Round
<1> HIDE DEF K, R
<1>3. /\ DOMAIN s = 1..Cardinality(K) /\ Cardinality(K) \in Nat
      /\ \A n \in DOMAIN s : s[n] \in K
      /\ \A n, m \in DOMAIN s : n < m => <<s[n], s[m]>> \in R
      /\ \A n, m \in DOMAIN s : s[n] = s[m] => n = m
      /\ \A n \in DOMAIN s, k \in K :
            n + 1 \in DOMAIN s => ~ (<<s[n], k>> \in R /\ <<k, s[n+1]>> \in R)
  BY ONLY <1>1, <1>2, InOrderIs
<1>4. \A n, m \in DOMAIN s : n < m => Before(B, s[n], s[m])
  BY <1>1, <1>3
<1>5. \A n \in DOMAIN s, k \in K :
         n + 1 \in DOMAIN s => ~ (Before(B, s[n], k) /\ Before(B, k, s[n+1]))
  <2> SUFFICES ASSUME NEW n \in DOMAIN s, NEW k \in K, n + 1 \in DOMAIN s,
                      Before(B, s[n], k), Before(B, k, s[n+1])
               PROVE  FALSE
    OBVIOUS
  <2>1. s[n] \in K /\ s[n+1] \in K
    BY <1>3
  <2>2. <<s[n], k>> \in R /\ <<k, s[n+1]>> \in R
    BY <1>1, <2>1
  <2> QED
    BY <1>3, <2>2
<1> QED
  BY <1>3, <1>4, <1>5 DEF K, Spreads

\* A host gets two turns in a row only when no other host is left.
TakesTurns(s) ==
    \A n, k \in DOMAIN s :
        n + 1 \in DOMAIN s /\ Host(s[n]) = Host(s[n+1]) /\ n <= k => Host(s[k]) = Host(s[n])

LEMMA SpreadAlternates ==
    ASSUME NEW B, B \subseteq Nat, IsFiniteSet(B), NEW cap, cap \in Nat,
           NEW s, s = spreadByHost(B, cap)
    PROVE  TakesTurns(s)
<1> SUFFICES ASSUME NEW n \in DOMAIN s, NEW k \in DOMAIN s, n + 1 \in DOMAIN s,
                    Host(s[n]) = Host(s[n+1]), n <= k, Host(s[k]) # Host(s[n])
             PROVE  FALSE
  BY DEF TakesTurns
<1> DEFINE a == s[n]
           b == s[n+1]
           c == s[k]
<1>1. /\ DOMAIN s \subseteq Nat
      /\ \A m \in DOMAIN s : s[m] \in Kept(B, cap)
      /\ \A i, m \in DOMAIN s : i < m => Before(B, s[i], s[m])
  <2>1. Spreads(B, cap, s)
    BY SpreadIs
  <2> QED
    BY <2>1 DEF Spreads
<1>2. \A d \in Kept(B, cap) : ~ (Before(B, a, d) /\ Before(B, d, b))
  <2>1. \A i \in DOMAIN s, d \in Kept(B, cap) :
            i + 1 \in DOMAIN s => ~ (Before(B, s[i], d) /\ Before(B, d, s[i+1]))
    <3>1. Spreads(B, cap, s)
      BY SpreadIs
    <3> QED
      BY <3>1 DEF Spreads
  <2> QED
    BY <2>1
<1>3. n \in Nat /\ k \in Nat
  BY <1>1
<1>4. n < n + 1 /\ n + 1 < k
  <2>1. k # n /\ k # n + 1
    OBVIOUS
  <2> QED
    BY <1>3, <2>1
<1>5. a \in Kept(B, cap) /\ b \in Kept(B, cap) /\ c \in Kept(B, cap)
  BY <1>1
<1>6. Before(B, a, b) /\ Before(B, b, c)
  BY <1>1, <1>4
<1>7. Host(a) = Host(b) /\ Host(c) # Host(a)
  OBVIOUS
<1> HIDE DEF a, b, c
<1>8. /\ a \in B /\ b \in B /\ c \in B
      /\ Turn(B, a) < cap /\ Turn(B, b) < cap
  BY <1>5 DEF Kept
<1>9. Turn(B, a) \in Nat /\ Turn(B, b) \in Nat /\ Turn(B, c) \in Nat
  BY <1>8, Turns
<1>10. First(B, a) \in Nat /\ First(B, c) \in Nat /\ First(B, a) # First(B, c)
  <2>1. Host(First(B, a)) = Host(a) /\ First(B, a) \in Nat
    BY <1>8, FirstIs
  <2>2. Host(First(B, c)) = Host(c) /\ First(B, c) \in Nat
    BY <1>8, FirstIs
  <2> QED
    BY <1>7, <2>1, <2>2
<1>11. First(B, b) = First(B, a)
  BY <1>7, FirstAgrees
<1>12. Turn(B, a) < Turn(B, b)
  BY <1>6, <1>9, <1>10, <1>11 DEF Before
<1>13. Turn(B, b) <= Turn(B, c)
  BY <1>6, <1>9 DEF Before
<1>14. CASE First(B, a) < First(B, c)
  <2>1. Turn(B, a) <= Turn(B, c)
    BY <1>9, <1>12, <1>13
  <2>2. HasTurn(B, c, Turn(B, a))
    BY <1>8, <1>9, <2>1, EveryTurn
  <2>3. PICK d \in B : Host(d) = Host(c) /\ Turn(B, d) = Turn(B, a)
    BY <2>2 DEF HasTurn
  <2>4. First(B, d) = First(B, c)
    BY <2>3, FirstAgrees
  <2>5. d \in Kept(B, cap)
    BY <1>8, <2>3 DEF Kept
  <2>6. Before(B, a, d) /\ Before(B, d, b)
    BY <1>12, <1>14, <2>3, <2>4 DEF Before
  <2> QED
    BY <1>2, <2>5, <2>6
<1>15. CASE First(B, c) < First(B, a)
  <2>2. HasTurn(B, c, Turn(B, b))
    BY <1>8, <1>9, <1>13, EveryTurn
  <2>3. PICK d \in B : Host(d) = Host(c) /\ Turn(B, d) = Turn(B, b)
    BY <2>2 DEF HasTurn
  <2>4. First(B, d) = First(B, c)
    BY <2>3, FirstAgrees
  <2>5. d \in Kept(B, cap)
    BY <1>8, <2>3 DEF Kept
  <2>6. Before(B, a, d) /\ Before(B, d, b)
    BY <1>11, <1>12, <1>15, <2>3, <2>4 DEF Before
  <2> QED
    BY <1>2, <2>5, <2>6
<1> QED
  BY <1>10, <1>14, <1>15

\* No host gets more than cap turns.
LEMMA SpreadShares ==
    ASSUME NEW B, B \subseteq Nat, IsFiniteSet(B), NEW cap, cap \in Nat,
           NEW s, s = spreadByHost(B, cap), NEW n \in DOMAIN s
    PROVE  Cardinality({k \in DOMAIN s : Host(s[k]) = Host(s[n])}) <= cap
<1> DEFINE D == {k \in DOMAIN s : Host(s[k]) = Host(s[n])}
           T == 0..(cap - 1)
           f == [k \in D |-> Turn(B, s[k])]
<1>1. /\ \A m \in DOMAIN s : s[m] \in Kept(B, cap)
      /\ \A i, m \in DOMAIN s : s[i] = s[m] => i = m
  <2>1. Spreads(B, cap, s)
    BY SpreadIs
  <2> QED
    BY <2>1 DEF Spreads
<1>2. ASSUME NEW k \in D
      PROVE  s[k] \in B /\ Turn(B, s[k]) \in T /\ Host(s[k]) = Host(s[n]) /\ k \in DOMAIN s
  <2>1. s[k] \in B /\ Turn(B, s[k]) < cap
    BY <1>1 DEF Kept
  <2>2. Turn(B, s[k]) \in Nat
    BY <2>1, Turns
  <2> QED
    BY <2>1, <2>2
<1>3. IsFiniteSet(T) /\ Cardinality(T) = cap
  <2>1. IsFiniteSet(T) /\ Cardinality(T) = IF 0 > cap-1 THEN 0 ELSE (cap-1) - 0 + 1
    BY FS_Interval
  <2> QED
    BY <2>1
<1>4. f \in [D -> T]
  BY <1>2
<1>5. ASSUME NEW j \in D, NEW k \in D, f[j] = f[k]
      PROVE  j = k
  <2>1. s[j] \in B /\ s[k] \in B /\ Host(s[j]) = Host(s[k])
    BY <1>2
  <2>2. Turn(B, s[j]) = Turn(B, s[k])
    BY <1>5
  <2>3. s[j] = s[k]
    BY <2>1, <2>2, TurnOnce
  <2> QED
    BY <1>1, <1>2, <2>3
<1> HIDE DEF f, T
<1>6. f \in Injection(D, T)
  <2> HIDE DEF D
  <2> QED
    BY <1>4, <1>5 DEF Injection, IsInjective
<1>7. Cardinality(D) <= Cardinality(T)
  <2> HIDE DEF D
  <2> QED
    BY <1>3, <1>6, FS_Injection
<1> QED
  BY <1>3, <1>7

-----------------------------------------------------------------------------
(* Lists without repetition.                                               *)

List(S, s) == s \in Seq(S) /\ IsInjective(s)

LEMMA ListIs ==
    ASSUME NEW S, NEW s, List(S, s)
    PROVE  /\ Len(s) \in Nat /\ DOMAIN s = 1..Len(s)
           /\ \A n \in DOMAIN s : s[n] \in S /\ n \in Nat
           /\ \A n, m \in DOMAIN s : s[n] = s[m] => n = m
<1>1. s \in Seq(S)
  BY DEF List
<1>2. Len(s) \in Nat /\ s \in [1..Len(s) -> S]
  BY <1>1, LenProperties
<1> QED
  BY <1>2 DEF List, IsInjective

LEMMA ListPrefix ==
    ASSUME NEW S, NEW s, List(S, s), NEW n, n \in 0..Len(s)
    PROVE  /\ List(S, SubSeq(s, 1, n))
           /\ Range(SubSeq(s, 1, n)) \subseteq Range(s)
           /\ n < 1 => Range(SubSeq(s, 1, n)) = {}
<1> DEFINE t == SubSeq(s, 1, n)
<1>1. /\ Len(s) \in Nat /\ DOMAIN s = 1..Len(s)
      /\ \A i \in DOMAIN s : s[i] \in S /\ i \in Nat
      /\ \A i, m \in DOMAIN s : s[i] = s[m] => i = m
  BY ListIs
<1>2. n \in Nat /\ n <= Len(s)
  BY <1>1
<1>3. \A i \in 1..n : i \in DOMAIN s /\ s[i] \in S
  BY <1>1, <1>2
<1>4. /\ t \in Seq(S) /\ Len(t) = IF 1 <= n THEN n - 1 + 1 ELSE 0
      /\ \A i \in 1..(n - 1 + 1) : t[i] = s[1 + i - 1]
  BY <1>2, <1>3, SubSeqProperties
<1> HIDE DEF t
<1>5. DOMAIN t = 1..n /\ \A i \in 1..n : t[i] = s[i] /\ i \in DOMAIN s
  <2>1. Len(t) = n
    BY <1>2, <1>4
  <2>2. DOMAIN t = 1..Len(t)
    BY <1>4, LenProperties
  <2>3. ASSUME NEW i \in 1..n PROVE t[i] = s[i] /\ i \in DOMAIN s
    <3>1. i \in 1..(n - 1 + 1) /\ 1 + i - 1 = i
      BY <1>2
    <3> QED
      BY <1>3, <1>4, <3>1
  <2> QED
    BY <2>1, <2>2, <2>3
<1>6. IsInjective(t)
  BY <1>1, <1>5 DEF IsInjective
<1>7. Range(t) \subseteq Range(s)
  BY <1>5 DEF Range
<1>8. n < 1 => Range(t) = {}
  <2> SUFFICES ASSUME n < 1 PROVE Range(t) = {}
    OBVIOUS
  <2>1. 1..n = {}
    BY <1>2
  <2> QED
    BY <1>5, <2>1 DEF Range
<1> QED
  BY <1>4, <1>6, <1>7, <1>8 DEF List, t

Joins(S, s, t) == List(S, s \o t) /\ Range(s \o t) = Range(s) \cup Range(t)

LEMMA ListConcat ==
    ASSUME NEW S, NEW s, NEW t, List(S, s), List(S, t), Range(s) \cap Range(t) = {}
    PROVE  Joins(S, s, t)
<1> DEFINE c == s \o t
<1>1. /\ Len(s) \in Nat /\ DOMAIN s = 1..Len(s)
      /\ \A i, m \in DOMAIN s : s[i] = s[m] => i = m
  BY ListIs
<1>2. /\ Len(t) \in Nat /\ DOMAIN t = 1..Len(t)
      /\ \A i, m \in DOMAIN t : t[i] = t[m] => i = m
  BY ListIs
<1>3. s \in Seq(S) /\ t \in Seq(S)
  BY DEF List
<1>4. /\ c \in Seq(S) /\ Len(c) = Len(s) + Len(t)
      /\ \A i \in 1..(Len(s) + Len(t)) :
            c[i] = IF i <= Len(s) THEN s[i] ELSE t[i - Len(s)]
  BY <1>3, ConcatProperties
<1> HIDE DEF c
<1>5. DOMAIN c = 1..(Len(s) + Len(t))
  BY <1>4, LenProperties
<1>6. ASSUME NEW i \in DOMAIN c
      PROVE  /\ i \in Nat
             /\ i <= Len(s) => i \in DOMAIN s /\ c[i] = s[i]
             /\ ~ (i <= Len(s)) => i - Len(s) \in DOMAIN t /\ c[i] = t[i - Len(s)]
  BY <1>1, <1>2, <1>4, <1>5
<1>7. ASSUME NEW i \in DOMAIN c, NEW m \in DOMAIN c, c[i] = c[m]
      PROVE  i = m
  <2>1. CASE i <= Len(s) /\ m <= Len(s)
    BY <1>1, <1>6, <1>7, <2>1
  <2>2. CASE ~ (i <= Len(s)) /\ ~ (m <= Len(s))
    <3>1. i - Len(s) = m - Len(s)
      BY <1>2, <1>6, <1>7, <2>2
    <3>2. i \in Nat /\ m \in Nat
      BY <1>6
    <3> QED
      BY <1>1, <3>1, <3>2
  <2>3. CASE i <= Len(s) /\ ~ (m <= Len(s))
    <3>1. c[i] \in Range(s) /\ c[m] \in Range(t)
      BY <1>6, <2>3 DEF Range
    <3> QED
      BY <1>7, <3>1
  <2>4. CASE ~ (i <= Len(s)) /\ m <= Len(s)
    <3>1. c[m] \in Range(s) /\ c[i] \in Range(t)
      BY <1>6, <2>4 DEF Range
    <3> QED
      BY <1>7, <3>1
  <2> QED
    BY <2>1, <2>2, <2>3, <2>4
<1>8. ASSUME NEW i \in DOMAIN s PROVE i \in DOMAIN c /\ c[i] = s[i]
  <2>1. i \in Nat /\ 1 <= i /\ i <= Len(s)
    BY <1>1
  <2>2. i \in 1..(Len(s) + Len(t))
    BY <1>1, <1>2, <2>1
  <2> QED
    BY <1>4, <1>5, <2>1, <2>2
<1>9. ASSUME NEW i \in DOMAIN t
      PROVE  \E j \in DOMAIN c : c[j] = t[i]
  <2>1. i \in Nat /\ 1 <= i /\ i <= Len(t)
    BY <1>2
  <2>2. PICK j \in Nat : j = Len(s) + i
    BY <1>1, <2>1
  <2>3. j \in DOMAIN c /\ ~ (j <= Len(s)) /\ j - Len(s) = i
    BY <1>1, <1>2, <1>5, <2>1, <2>2
  <2> QED
    BY <1>6, <2>3
<1>10. Range(c) = Range(s) \cup Range(t)
  <2>1. Range(s) \subseteq Range(c)
    BY <1>8 DEF Range
  <2>2. Range(t) \subseteq Range(c)
    BY <1>9 DEF Range
  <2>3. Range(c) \subseteq Range(s) \cup Range(t)
    BY <1>6 DEF Range
  <2> QED
    BY <2>1, <2>2, <2>3
<1> QED
  BY <1>4, <1>7, <1>10 DEF List, IsInjective, Joins, c

LEMMA ListAppend ==
    ASSUME NEW S, NEW s, List(S, s), NEW e, e \in S, e \notin Range(s)
    PROVE  /\ List(S, Append(s, e)) /\ Range(Append(s, e)) = Range(s) \cup {e}
           /\ Len(Append(s, e)) = Len(s) + 1
<1> DEFINE t == Append(s, e)
<1>1. /\ Len(s) \in Nat /\ DOMAIN s = 1..Len(s)
      /\ \A i, m \in DOMAIN s : s[i] = s[m] => i = m
  BY ListIs
<1>2. /\ t \in Seq(S) /\ Len(t) = Len(s) + 1
      /\ \A i \in 1..Len(s) : t[i] = s[i]
      /\ t[Len(s) + 1] = e
  <2>1. s \in Seq(S)
    BY DEF List
  <2> QED
    BY <2>1, AppendProperties
<1> HIDE DEF t
<1>3. DOMAIN t = 1..(Len(s) + 1)
  BY <1>2, LenProperties
<1>4. DOMAIN t = DOMAIN s \cup {Len(s) + 1} /\ Len(s) + 1 \notin DOMAIN s
  BY <1>1, <1>3
<1>5. \A i \in DOMAIN s : t[i] = s[i]
  BY <1>1, <1>2
<1>6. Range(t) = Range(s) \cup {e}
  BY <1>2, <1>4, <1>5 DEF Range
<1>7. IsInjective(t)
  <2> SUFFICES ASSUME NEW i \in DOMAIN t, NEW m \in DOMAIN t, t[i] = t[m]
               PROVE  i = m
    BY DEF IsInjective
  <2>1. \A j \in DOMAIN s : t[j] # e
    BY <1>5 DEF Range
  <2>2. CASE i \in DOMAIN s /\ m \in DOMAIN s
    BY <1>1, <1>5, <2>2
  <2> QED
    BY <1>2, <1>4, <2>1, <2>2
<1> QED
  BY <1>2, <1>6, <1>7 DEF List, t

LEMMA ListRemove ==
    ASSUME NEW S, NEW s, List(S, s), NEW e
    PROVE  /\ List(S, RemoveFirst(s, e)) /\ Range(RemoveFirst(s, e)) = Range(s) \ {e}
           /\ e \in Range(s) => Len(RemoveFirst(s, e)) = Len(s) - 1
           /\ e \notin Range(s) => RemoveFirst(s, e) = s
<1>1. /\ Len(s) \in Nat /\ DOMAIN s = 1..Len(s)
      /\ \A i \in DOMAIN s : s[i] \in S /\ i \in Nat
      /\ \A i, m \in DOMAIN s : s[i] = s[m] => i = m
  BY ListIs
<1>2. CASE e \notin Range(s)
  <2>1. ~ \E i \in 1..Len(s) : s[i] = e
    BY <1>1, <1>2 DEF Range
  <2>2. RemoveFirst(s, e) = s
    BY <2>1 DEF RemoveFirst
  <2> QED
    BY <1>2, <2>2
<1>3. CASE e \in Range(s)
  <2>1. PICK k \in DOMAIN s : s[k] = e
    BY <1>3 DEF Range
  <2>2. k \in Nat /\ 1 <= k /\ k <= Len(s)
    BY <1>1
  <2>3. SelectInSeq(s, LAMBDA v : v = e) = k
    <3>1. {i \in 1..Len(s) : s[i] = e} = {k}
      BY <1>1, <2>1
    <3>2. Min({k}) = k
      BY <2>2 DEF Min
    <3> QED
      BY <3>1, <3>2 DEF SelectInSeq
  <2> DEFINE a == SubSeq(s, 1, k - 1)
             b == SubSeq(s, k + 1, Len(s))
             t == a \o b
  <2>4. RemoveFirst(s, e) = t
    BY <1>1, <2>1, <2>3 DEF RemoveFirst, RemoveAt
  <2>5. /\ a \in Seq(S) /\ Len(a) = k - 1
        /\ \A i \in 1..(k - 1) : a[i] = s[i]
    <3>1. \A i \in 1..(k - 1) : s[i] \in S
      BY <1>1, <2>2
    <3>2. 1 \in Int /\ k - 1 \in Int
      BY <2>2
    <3>3. /\ a \in Seq(S) /\ Len(a) = IF 1 <= k - 1 THEN (k - 1) - 1 + 1 ELSE 0
          /\ \A i \in 1..((k - 1) - 1 + 1) : a[i] = s[1 + i - 1]
      BY ONLY <3>1, <3>2, SubSeqProperties
    <3> HIDE DEF a
    <3> QED
      BY <2>2, <3>3
  <2>6. /\ b \in Seq(S) /\ Len(b) = Len(s) - k
        /\ \A i \in 1..(Len(s) - k) : b[i] = s[k + i]
    <3>1. \A i \in (k + 1)..Len(s) : s[i] \in S
      BY <1>1, <2>2
    <3>2. k + 1 \in Int /\ Len(s) \in Int
      BY <1>1, <2>2
    <3>3. /\ b \in Seq(S) /\ Len(b) = IF k + 1 <= Len(s) THEN Len(s) - (k + 1) + 1 ELSE 0
          /\ \A i \in 1..(Len(s) - (k + 1) + 1) : b[i] = s[(k + 1) + i - 1]
      BY ONLY <3>1, <3>2, SubSeqProperties, SMTT(30)
    <3> HIDE DEF b
    <3>4. Len(b) = Len(s) - k
      <4>1. Len(b) = IF k + 1 <= Len(s) THEN Len(s) - (k + 1) + 1 ELSE 0
        BY ONLY <3>3
      <4>2. Len(s) \in Nat
        BY ONLY <1>1
      <4> QED
        BY ONLY <2>2, <4>1, <4>2
    <3>5. ASSUME NEW i \in 1..(Len(s) - k) PROVE b[i] = s[k + i]
      <4>1. i \in 1..(Len(s) - (k + 1) + 1) /\ (k + 1) + i - 1 = k + i
        BY <1>1, <2>2
      <4> QED
        BY <3>3, <4>1
    <3> QED
      BY <3>3, <3>4, <3>5
  <2> HIDE DEF a, b
  <2>7. /\ t \in Seq(S) /\ Len(t) = Len(s) - 1
        /\ \A i \in 1..(Len(s) - 1) : t[i] = IF i < k THEN s[i] ELSE s[i + 1]
    <3>1. /\ t \in Seq(S) /\ Len(t) = Len(a) + Len(b)
          /\ \A i \in 1..(Len(a) + Len(b)) :
                t[i] = IF i <= Len(a) THEN a[i] ELSE b[i - Len(a)]
      BY <2>5, <2>6, ConcatProperties
    <3> HIDE DEF t
    <3>2. Len(t) = Len(s) - 1
      BY <1>1, <2>2, <2>5, <2>6, <3>1
    <3>3. ASSUME NEW i \in 1..(Len(s) - 1)
          PROVE  t[i] = IF i < k THEN s[i] ELSE s[i + 1]
      <4>0. i \in Nat /\ 1 <= i /\ i <= Len(s) - 1
        BY <1>1
      <4>1. t[i] = IF i <= k - 1 THEN a[i] ELSE b[i - (k - 1)]
        BY <1>1, <2>2, <2>5, <2>6, <3>1
      <4>2. CASE i < k
        <5>1. i \in 1..(k - 1)
          BY <2>2, <4>0, <4>2
        <5> QED
          BY <2>2, <2>5, <4>0, <4>1, <4>2, <5>1
      <4>3. CASE ~ (i < k)
        <5>1. i - (k - 1) \in 1..(Len(s) - k) /\ k + (i - (k - 1)) = i + 1
          BY <1>1, <2>2, <4>0, <4>3
        <5>2. b[i - (k - 1)] = s[i + 1]
          BY <2>6, <5>1
        <5> QED
          BY <2>2, <4>0, <4>1, <4>3, <5>2
      <4> QED
        BY <4>2, <4>3
    <3> QED
      BY <3>1, <3>2, <3>3
  <2> HIDE DEF t
  <2>8. DOMAIN t = 1..(Len(s) - 1)
    BY <2>7, LenProperties
  <2>9. ASSUME NEW i \in DOMAIN t
        PROVE  /\ i \in Nat
               /\ i < k => i \in DOMAIN s /\ t[i] = s[i]
               /\ ~ (i < k) => i + 1 \in DOMAIN s /\ t[i] = s[i + 1] /\ i + 1 # k
    BY <1>1, <2>2, <2>7, <2>8
  <2>10. IsInjective(t)
    <3> SUFFICES ASSUME NEW i \in DOMAIN t, NEW m \in DOMAIN t, t[i] = t[m]
                 PROVE  i = m
      BY DEF IsInjective
    <3>1. CASE i < k /\ m < k
      BY <1>1, <2>9, <3>1
    <3>2. CASE ~ (i < k) /\ ~ (m < k)
      <4>1. i + 1 = m + 1 /\ i \in Nat /\ m \in Nat
        BY <1>1, <2>9, <3>2
      <4> QED
        BY ONLY <4>1
    <3>3. CASE i < k /\ ~ (m < k)
      <4>1. i = m + 1 /\ i \in Nat /\ m \in Nat
        BY <1>1, <2>9, <3>3
      <4> QED
        BY ONLY <2>2, <3>3, <4>1
    <3>4. CASE ~ (i < k) /\ m < k
      <4>1. m = i + 1 /\ i \in Nat /\ m \in Nat
        BY <1>1, <2>9, <3>4
      <4> QED
        BY ONLY <2>2, <3>4, <4>1
    <3> QED
      BY <3>1, <3>2, <3>3, <3>4
  <2>11. Range(t) = Range(s) \ {e}
    <3>1. ASSUME NEW i \in DOMAIN t PROVE t[i] \in Range(s) /\ t[i] # e
      <4>1. CASE i < k
        <5>1. i # k
          BY <2>2, <2>9, <4>1
        <5> QED
          BY <1>1, <2>1, <2>9, <4>1, <5>1 DEF Range
      <4>2. CASE ~ (i < k)
        BY <1>1, <2>1, <2>9, <4>2 DEF Range
      <4> QED
        BY <4>1, <4>2
    <3>2. ASSUME NEW j \in DOMAIN s, s[j] # e PROVE s[j] \in Range(t)
      <4>1. j \in Nat /\ 1 <= j /\ j <= Len(s) /\ j # k
        BY <1>1, <2>1, <3>2
      <4>2. CASE j < k
        <5>1. j \in DOMAIN t
          BY <1>1, <2>2, <2>8, <4>1, <4>2
        <5> QED
          BY <2>9, <4>2, <5>1 DEF Range
      <4>3. CASE ~ (j < k)
        <5>1. PICK i \in Nat : i = j - 1
          BY <4>1
        <5>2. i \in DOMAIN t /\ ~ (i < k) /\ i + 1 = j
          BY <1>1, <2>2, <2>8, <4>1, <4>3, <5>1
        <5>3. t[i] = s[j]
          BY <2>9, <5>2
        <5> QED
          BY <5>2, <5>3 DEF Range
      <4> QED
        BY <4>2, <4>3
    <3> QED
      BY <3>1, <3>2 DEF Range
  <2> QED
    BY <1>3, <2>4, <2>7, <2>10, <2>11 DEF List
<1> QED
  BY <1>2, <1>3

-----------------------------------------------------------------------------
(* The invariant.                                                          *)

Ids == Range(never) \cup Range(looked)
Rows == [url: Urls \cup {NoUrl}, status: Statuses, deleted: BOOLEAN]
Snapshots == [id: ItemIds, url: Urls, status: Statuses]

\* Every id is in the order once.
OrderOK ==
    /\ List(ItemIds, never) /\ List(ItemIds, looked)
    /\ Range(never) \cap Range(looked) = {}
    /\ old \in 0..Len(looked)

ItemsOK ==
    /\ items \in [DOMAIN items -> Rows]
    /\ DOMAIN items \subseteq Ids

\* A sweep is a list of snapshots of different items, no more than a batch.
SweepOK ==
    /\ sweep \in Seq(Snapshots) /\ Len(sweep) <= Batch
    /\ \A n \in DOMAIN sweep : sweep[n].id \in Ids
    /\ \A n, m \in DOMAIN sweep : sweep[n].id = sweep[m].id => n = m

EditOK ==
    edit # NoEdit => /\ edit \in [id: Ids, url: Urls \cup {NoUrl}, status: Statuses]
                     /\ edits < MaxEdits

RestOK ==
    /\ shop \in [Urls -> Answers]
    /\ answer \in Answers \cup {"none"}
    /\ edits \in 0..MaxEdits /\ restarts \in 0..MaxRestarts
    /\ links \subseteq ItemIds \X (Urls \cup {NoUrl})
    /\ heard \subseteq ItemIds \X (Urls \cup {NoUrl}) \X AllAnswers

Inv == OrderOK /\ ItemsOK /\ SweepOK /\ EditOK /\ RestOK

LEMMA InvInit == Init => Inv
<1> SUFFICES ASSUME Init PROVE Inv
  OBVIOUS
<1>1. \A S : List(S, <<>>)
  BY DEF List, IsInjective
<1>2. Range(<<>>) = {}
  BY DEF Range
<1>3. OrderOK
  BY <1>1, <1>2 DEF Init, OrderOK
<1>4. ItemsOK
  BY DEF Init, ItemsOK, EmptyTable
<1>5. SweepOK
  <2>1. <<>> \in Seq(Snapshots) /\ Len(<<>>) = 0 /\ DOMAIN <<>> = {}
    OBVIOUS
  <2> QED
    BY <2>1, LinkHealthAssumption DEF Init, SweepOK
<1>6. EditOK /\ RestOK
  BY LinkHealthAssumption DEF Init, EditOK, RestOK
<1> QED
  BY <1>3, <1>4, <1>5, <1>6 DEF Inv

\* An item due is its place in a list of ids, and its row is there.
LEMMA DueIs ==
    ASSUME OrderOK, ItemsOK
    PROVE  /\ Due \subseteq Nat /\ IsFiniteSet(Due)
           /\ \A k \in Due : /\ Waiting[k] \in Ids \cap ItemIds
                             /\ Waiting[k] \in DOMAIN items
                             /\ items[Waiting[k]].url \in Urls
                             /\ items[Waiting[k]].status \in Statuses
           /\ \A j, k \in Due : Waiting[j] = Waiting[k] => j = k
<1> DEFINE t == SubSeq(looked, 1, old)
<1>1. List(ItemIds, t) /\ Range(t) \subseteq Range(looked)
  BY ListPrefix DEF OrderOK
<1>2. List(ItemIds, Waiting) /\ Range(Waiting) \subseteq Ids
  <2>1. List(ItemIds, never) /\ Range(never) \cap Range(t) = {}
    BY <1>1 DEF OrderOK
  <2> HIDE DEF t
  <2>2. List(ItemIds, never \o t) /\ Range(never \o t) = Range(never) \cup Range(t)
    BY <1>1, <2>1, ListConcat DEF Joins
  <2> QED
    BY <1>1, <2>2 DEF Waiting, t, Ids
<1>3. /\ Len(Waiting) \in Nat /\ DOMAIN Waiting = 1..Len(Waiting)
      /\ \A n \in DOMAIN Waiting : Waiting[n] \in ItemIds
      /\ \A n, m \in DOMAIN Waiting : Waiting[n] = Waiting[m] => n = m
  BY <1>2, ListIs
<1>4. IsFiniteSet(DOMAIN Waiting)
  BY <1>3, FS_Interval
<1>5. Due \subseteq DOMAIN Waiting
  BY DEF Due
<1>6. IsFiniteSet(Due)
  BY <1>4, <1>5, FS_Subset
<1>7. DOMAIN Waiting \subseteq Nat
  BY <1>3
<1>8. ASSUME NEW k \in Due
      PROVE  /\ Waiting[k] \in Ids \cap ItemIds
             /\ Waiting[k] \in DOMAIN items
             /\ items[Waiting[k]].url \in Urls
             /\ items[Waiting[k]].status \in Statuses
  <2>1. Waiting[k] \in Ids \cap ItemIds
    BY <1>2, <1>3, <1>5 DEF Range
  <2>2. Waiting[k] \in DOMAIN items /\ items[Waiting[k]].url # NoUrl
    BY DEF Due, Live
  <2>3. items[Waiting[k]] \in Rows
    BY <2>2 DEF ItemsOK
  <2> QED
    BY <2>1, <2>2, <2>3 DEF Rows
<1> QED
  BY <1>3, <1>5, <1>6, <1>7, <1>8

\* Some hosts may have two turns at least.
LEMMA CapIsNat == perHostCap \in Nat
<1>1. Batch \in Nat
  BY LinkHealthAssumption
<1>2. Batch \div 4 \in Nat
  BY <1>1
<1> QED
  BY <1>2 DEF perHostCap

\* What a sweep starts with.
Started(B, s) ==
    /\ B \subseteq Nat /\ IsFiniteSet(B) /\ B \subseteq Due /\ Cardinality(B) <= Batch
    /\ s = spreadByHost(B, perHostCap)
    /\ DOMAIN s = 1..Cardinality(Kept(B, perHostCap))
    /\ Cardinality(Kept(B, perHostCap)) \in Nat
    /\ Cardinality(Kept(B, perHostCap)) <= Batch
    /\ \A n \in DOMAIN s : s[n] \in B
    /\ \A n, m \in DOMAIN s : s[n] = s[m] => n = m
    /\ DOMAIN sweep' = DOMAIN s
    /\ \A n \in DOMAIN s : sweep'[n] = Snapshot(Waiting[s[n]])

LEMMA SweepStarts ==
    ASSUME OrderOK, ItemsOK, StartSweep
    PROVE  \E B, s : Started(B, s)
<1> DEFINE B == ItemsDueForLinkCheck(Batch)
           s == spreadByHost(B, perHostCap)
           K == Kept(B, perHostCap)
<1>1. sweep' = [n \in DOMAIN s |-> Snapshot(Waiting[s[n]])]
  BY DEF StartSweep
<1>2. Batch \in Nat
  BY LinkHealthAssumption
<1>3. Due \subseteq Nat /\ IsFiniteSet(Due)
  BY DueIs
<1>4. B \subseteq Due /\ IsFiniteSet(B) /\ Cardinality(B) <= Batch
  BY <1>2, <1>3, TakenAreFew
<1>5. B \subseteq Nat
  BY <1>3, <1>4
<1> HIDE DEF B
<1>6. Spreads(B, perHostCap, s)
  BY <1>4, <1>5, SpreadIs
<1> HIDE DEF s
<1>7. /\ DOMAIN s = 1..Cardinality(K) /\ Cardinality(K) \in Nat
      /\ \A n \in DOMAIN s : s[n] \in K
      /\ \A n, m \in DOMAIN s : s[n] = s[m] => n = m
  BY <1>6 DEF Spreads
<1>8. K \subseteq B
  BY DEF Kept
<1>9. Cardinality(K) <= Batch
  <2>1. Cardinality(K) <= Cardinality(B)
    BY <1>4, <1>8, FS_Subset
  <2>2. Cardinality(B) \in Nat
    BY <1>4, FS_CardinalityType
  <2> QED
    BY <1>2, <1>4, <1>7, <2>1, <2>2
<1>10. DOMAIN sweep' = DOMAIN s /\ \A n \in DOMAIN s : sweep'[n] = Snapshot(Waiting[s[n]])
  BY <1>1
<1>11. s = spreadByHost(B, perHostCap)
  BY DEF s
<1>12. Started(B, s)
  BY <1>4, <1>5, <1>7, <1>8, <1>9, <1>10, <1>11 DEF Started
<1> QED
  BY <1>12

LEMMA StartedIsOK ==
    ASSUME OrderOK, ItemsOK, StartSweep
    PROVE  SweepOK'
<1>1. PICK B, s : Started(B, s)
  BY SweepStarts
<1>2. /\ B \subseteq Due
      /\ Cardinality(Kept(B, perHostCap)) \in Nat
      /\ Cardinality(Kept(B, perHostCap)) <= Batch
      /\ DOMAIN sweep' = 1..Cardinality(Kept(B, perHostCap))
      /\ \A n \in DOMAIN sweep' : s[n] \in B /\ sweep'[n] = Snapshot(Waiting[s[n]])
      /\ \A n, m \in DOMAIN sweep' : s[n] = s[m] => n = m
  BY <1>1 DEF Started
<1>3. ASSUME NEW n \in DOMAIN sweep'
      PROVE  sweep'[n] \in Snapshots /\ sweep'[n].id \in Ids /\ sweep'[n].id = Waiting[s[n]]
  <2>1. s[n] \in Due
    BY <1>2
  <2>2. /\ Waiting[s[n]] \in Ids \cap ItemIds
        /\ items[Waiting[s[n]]].url \in Urls
        /\ items[Waiting[s[n]]].status \in Statuses
    BY <2>1, DueIs
  <2> QED
    BY <1>2, <2>2 DEF Snapshot, Snapshots
<1>4. Ids' = Ids
  BY DEF StartSweep, orderVars, Ids
<1>5. \E k \in Nat : sweep' \in [1..k -> Snapshots] /\ k <= Batch
  <2>1. sweep' = [n \in DOMAIN sweep' |-> sweep'[n]]
    BY DEF StartSweep
  <2> QED
    BY <1>2, <1>3, <2>1
<1>6. sweep' \in Seq(Snapshots) /\ Len(sweep') <= Batch
  <2>1. PICK k \in Nat : sweep' \in [1..k -> Snapshots] /\ k <= Batch
    BY <1>5
  <2>2. sweep' \in Seq(Snapshots)
    BY <2>1, SeqDef
  <2>3. Len(sweep') \in Nat /\ DOMAIN sweep' = 1..Len(sweep') /\ DOMAIN sweep' = 1..k
    BY <2>1, <2>2, LenProperties
  <2>4. Len(sweep') = k
    BY <2>1, <2>3
  <2> QED
    BY <2>1, <2>2, <2>4
<1>7. \A n, m \in DOMAIN sweep' : sweep'[n].id = sweep'[m].id => n = m
  <2> SUFFICES ASSUME NEW n \in DOMAIN sweep', NEW m \in DOMAIN sweep',
                      sweep'[n].id = sweep'[m].id
               PROVE  n = m
    OBVIOUS
  <2>1. Waiting[s[n]] = Waiting[s[m]] /\ s[n] \in Due /\ s[m] \in Due
    BY <1>2, <1>3
  <2>2. s[n] = s[m]
    BY <2>1, DueIs
  <2> QED
    BY <1>2, <2>2
<1> QED
  BY <1>3, <1>4, <1>6, <1>7 DEF SweepOK

LEMMA VerdictIs ==
    ASSUME NEW a, a \in Answers
    PROVE  Verdict(a) \in Statuses
  BY LinkHealthAssumption DEF Verdict, Statuses, AllAnswers

LEMMA IdsAreItems == OrderOK => Ids \subseteq ItemIds
<1> SUFFICES ASSUME OrderOK PROVE Ids \subseteq ItemIds
  OBVIOUS
<1>1. /\ \A n \in DOMAIN never : never[n] \in ItemIds
      /\ \A n \in DOMAIN looked : looked[n] \in ItemIds
  BY ListIs DEF OrderOK
<1> QED
  BY <1>1 DEF Ids, Range

LEMMA EvidenceIs ==
    ASSUME NEW st, st \in Statuses
    PROVE  Evidence[st] \in AllAnswers
  BY DEF Evidence, Statuses, AllAnswers

\* The next two keep histories in their types.
LEMMA StoreIs ==
    ASSUME RestOK, NEW i, i \in ItemIds, NEW u, u \in Urls \cup {NoUrl}
    PROVE  Store(i, u) \subseteq ItemIds \X (Urls \cup {NoUrl})
  BY DEF Store, RestOK

LEMMA HearIsTyped ==
    ASSUME RestOK, NEW i, i \in ItemIds, NEW u, u \in Urls \cup {NoUrl},
           NEW a, a \in AllAnswers
    PROVE  Hear(i, u, a) \subseteq ItemIds \X (Urls \cup {NoUrl}) \X AllAnswers
  BY DEF Hear, RestOK

LEMMA CreateKeeps ==
    ASSUME Inv, NEW i, i \in ItemIds, NEW u, u \in Urls \cup {NoUrl},
           NEW st, st \in Statuses, CreateItem(i, u, st)
    PROVE  Inv'
<1>1. /\ i \notin Ids /\ never' = Append(never, i)
      /\ looked' = looked /\ old' = old /\ shop' = shop /\ sweep' = sweep /\ answer' = answer
      /\ edit' = edit /\ edits' = edits /\ restarts' = restarts
  BY DEF CreateItem, Ids, jobVars, editVars
<1>2. List(ItemIds, never') /\ Range(never') = Range(never) \cup {i}
  <2>1. List(ItemIds, never) /\ i \notin Range(never)
    BY <1>1 DEF Inv, OrderOK, Ids
  <2> QED
    BY <1>1, <2>1, ListAppend
<1>3. Ids' = Ids \cup {i}
  BY <1>1, <1>2 DEF Ids
<1>4. OrderOK'
  BY <1>1, <1>2 DEF Inv, OrderOK, Ids
<1>5. ItemsOK'
  <2> DEFINE row == [url |-> u, status |-> st, deleted |-> FALSE]
  <2>1. row \in Rows
    BY DEF Rows
  <2>2. items' = Put(items, i, row)
    BY DEF CreateItem
  <2> HIDE DEF row
  <2>3. items' \in [DOMAIN items \cup {i} -> Rows]
    BY <2>1, <2>2 DEF Put, Inv, ItemsOK
  <2> QED
    BY <1>3, <2>3 DEF Inv, ItemsOK
<1>6. SweepOK'
  BY <1>1, <1>3 DEF Inv, SweepOK
<1>7. EditOK'
  BY <1>1, <1>3 DEF Inv, EditOK
<1>8. RestOK'
  <2>1. links' \subseteq ItemIds \X (Urls \cup {NoUrl})
    BY StoreIs DEF CreateItem, Inv
  <2>2. Evidence[st] \in AllAnswers
    BY EvidenceIs
  <2>3. heard' \subseteq ItemIds \X (Urls \cup {NoUrl}) \X AllAnswers
    BY <2>2, HearIsTyped DEF CreateItem, Inv
  <2> QED
    BY <1>1, <2>1, <2>3 DEF Inv, RestOK
<1> QED
  BY <1>4, <1>5, <1>6, <1>7, <1>8 DEF Inv

LEMMA UpdateKeeps ==
    ASSUME Inv, NEW u, u \in Urls \cup {NoUrl}, UpdateItem(u)
    PROVE  Inv'
<1>1. /\ never' = never /\ looked' = looked /\ old' = old
      /\ shop' = shop /\ sweep' = sweep /\ answer' = answer /\ restarts' = restarts
      /\ edit' = NoEdit /\ edits' = edits + 1 /\ edit # NoEdit
  BY DEF UpdateItem, orderVars, jobVars
<1>2. OrderOK' /\ Ids' = Ids
  BY <1>1 DEF Inv, OrderOK, Ids
<1>3. edit.status \in Statuses /\ edits < MaxEdits
  BY <1>1 DEF Inv, EditOK
<1>4. items' \in [DOMAIN items -> Rows]
  <2>1. items \in [DOMAIN items -> Rows]
    BY DEF Inv, ItemsOK
  <2>2. CASE Live(edit.id)
    <3>1. edit.id \in DOMAIN items
      BY <2>2 DEF Live
    <3>2. items' = [items EXCEPT ![edit.id].url = u, ![edit.id].status = edit.status]
      BY <2>2 DEF UpdateItem
    <3> QED
      BY <1>3, <2>1, <3>1, <3>2 DEF Rows
  <2>3. CASE ~ Live(edit.id)
    BY <2>1, <2>3 DEF UpdateItem
  <2> QED
    BY <2>2, <2>3
<1>5. ItemsOK'
  BY <1>2, <1>4 DEF Inv, ItemsOK
<1>6. SweepOK'
  BY <1>1, <1>2 DEF Inv, SweepOK
<1>7. EditOK'
  BY <1>1 DEF EditOK
<1>8. RestOK'
  <2>1. edits + 1 \in 0..MaxEdits
    BY <1>3, LinkHealthAssumption DEF Inv, RestOK
  <2>2. edit.id \in ItemIds
    <3>1. edit.id \in Ids
      BY <1>1 DEF Inv, EditOK
    <3> QED
      BY <3>1, IdsAreItems DEF Inv
  <2>3. links' \subseteq ItemIds \X (Urls \cup {NoUrl})
    BY <2>2, StoreIs DEF UpdateItem, Inv, RestOK
  <2>4. heard' = heard
    BY DEF UpdateItem, histVars
  <2> QED
    BY <1>1, <2>1, <2>3, <2>4 DEF Inv, RestOK
<1> QED
  BY <1>2, <1>5, <1>6, <1>7, <1>8 DEF Inv

LEMMA DeleteKeeps ==
    ASSUME Inv, NEW i, NEW claimed, claimed \in BOOLEAN, DeleteItem(i, claimed)
    PROVE  Inv'
<1>1. /\ never' = never /\ looked' = looked /\ old' = old
      /\ shop' = shop /\ sweep' = sweep /\ answer' = answer /\ restarts' = restarts
      /\ edit' = edit /\ edits' = edits
  BY DEF DeleteItem, orderVars, jobVars, editVars
<1>2. OrderOK' /\ Ids' = Ids
  BY <1>1 DEF Inv, OrderOK, Ids
<1>3. ItemsOK'
  <2>1. items \in [DOMAIN items -> Rows] /\ i \in DOMAIN items
    BY DEF Inv, ItemsOK, DeleteItem, Live
  <2>2. CASE claimed
    <3>1. items' = [items EXCEPT ![i].deleted = TRUE]
      BY <2>2 DEF DeleteItem
    <3>2. items' \in [DOMAIN items -> Rows]
      BY <2>1, <3>1 DEF Rows
    <3> QED
      BY <1>2, <3>2 DEF Inv, ItemsOK
  <2>3. CASE ~ claimed
    <3>1. items' = [j \in DOMAIN items \ {i} |-> items[j]]
      BY <2>3 DEF DeleteItem, Drop, Restrict
    <3>2. items' \in [DOMAIN items \ {i} -> Rows]
      BY <2>1, <3>1
    <3> QED
      BY <1>2, <3>2 DEF Inv, ItemsOK
  <2> QED
    BY <2>2, <2>3
<1>4. SweepOK' /\ EditOK' /\ RestOK'
  BY <1>1, <1>2 DEF Inv, SweepOK, EditOK, RestOK, DeleteItem, histVars
<1> QED
  BY <1>2, <1>3, <1>4 DEF Inv

\* A sweep goes on with the rest of its list.
LEMMA SweepGoesOn ==
    ASSUME SweepOK, sweep # <<>>, sweep' = Tail(sweep), Ids' = Ids
    PROVE  /\ SweepOK' /\ Head(sweep) = sweep[1] /\ 1 \in DOMAIN sweep
           /\ Len(sweep) \in Nat /\ DOMAIN sweep = 1..Len(sweep)
           /\ DOMAIN sweep' = 1..(Len(sweep) - 1) /\ Len(sweep') = Len(sweep) - 1
           /\ \A n \in DOMAIN sweep' : sweep'[n] = sweep[n+1] /\ n + 1 \in DOMAIN sweep
<1>1. sweep \in Seq(Snapshots) /\ Len(sweep) \in Nat /\ DOMAIN sweep = 1..Len(sweep)
  BY LenProperties DEF SweepOK
<1>2. /\ sweep' \in Seq(Snapshots) /\ Len(sweep') = Len(sweep) - 1
      /\ \A n \in 1..Len(sweep') : sweep'[n] = sweep[n+1]
  BY <1>1, HeadTailProperties
<1>3. DOMAIN sweep' = 1..(Len(sweep) - 1)
  <2>1. DOMAIN sweep' = 1..Len(sweep')
    BY <1>2, LenProperties
  <2> QED
    BY <1>2, <2>1
<1>4. 1 \in DOMAIN sweep /\ Head(sweep) = sweep[1]
  BY <1>1
<1>5. \A n \in DOMAIN sweep' : sweep'[n] = sweep[n+1] /\ n + 1 \in DOMAIN sweep /\ n \in Nat
  BY <1>1, <1>2, <1>3
<1>6. SweepOK'
  <2>1. Len(sweep') <= Batch
    BY <1>1, <1>2, LinkHealthAssumption DEF SweepOK
  <2>2. \A n \in DOMAIN sweep' : sweep'[n].id \in Ids'
    BY <1>5 DEF SweepOK
  <2>3. ASSUME NEW n \in DOMAIN sweep', NEW m \in DOMAIN sweep', sweep'[n].id = sweep'[m].id
        PROVE  n = m
    <3>1. n + 1 = m + 1 /\ n \in Nat /\ m \in Nat
      BY <1>5, <2>3 DEF SweepOK
    <3> QED
      BY ONLY <3>1
  <2> QED
    BY <1>2, <2>1, <2>2, <2>3 DEF SweepOK
<1> QED
  BY <1>1, <1>2, <1>3, <1>4, <1>5, <1>6

\* Stamping a link moves it behind all the others.
LEMMA StampKeepsOrder ==
    ASSUME OrderOK, NEW e, e \in Ids,
           never' = RemoveFirst(never, e),
           looked' = Append(RemoveFirst(looked, e), e),
           old' = IF e \in Range(SubSeq(looked, 1, old)) THEN old - 1 ELSE old
    PROVE  OrderOK' /\ Ids' = Ids
<1> DEFINE t == RemoveFirst(looked, e)
<1>1. List(ItemIds, never') /\ Range(never') = Range(never) \ {e}
  BY ListRemove DEF OrderOK
<1>2. /\ List(ItemIds, t) /\ Range(t) = Range(looked) \ {e}
      /\ e \in Range(looked) => Len(t) = Len(looked) - 1
      /\ e \notin Range(looked) => t = looked
  BY ListRemove DEF OrderOK
<1>3. e \in ItemIds
  <2>1. /\ \A n \in DOMAIN never : never[n] \in ItemIds
        /\ \A n \in DOMAIN looked : looked[n] \in ItemIds
    BY ListIs DEF OrderOK
  <2> QED
    BY <2>1 DEF Ids, Range
<1> HIDE DEF t
<1>4. /\ List(ItemIds, looked') /\ Range(looked') = Range(looked) \cup {e}
      /\ Len(looked') = Len(t) + 1
  <2>1. e \notin Range(t)
    BY <1>2
  <2>2. looked' = Append(t, e)
    BY DEF t
  <2>3. Range(t) \cup {e} = Range(looked) \cup {e}
    BY <1>2
  <2> QED
    BY <1>2, <1>3, <2>1, <2>2, <2>3, ListAppend
<1>5. Len(looked) \in Nat /\ old \in Nat /\ old <= Len(looked)
  <2>1. Len(looked) \in Nat
    BY ListIs DEF OrderOK
  <2> QED
    BY <2>1 DEF OrderOK
<1>6. old' \in 0..Len(looked')
  <2>1. Len(looked') = Len(looked) \/ Len(looked') = Len(looked) + 1
    <3>1. CASE e \in Range(looked)
      BY <1>2, <1>4, <1>5, <3>1
    <3>2. CASE e \notin Range(looked)
      BY <1>2, <1>4, <1>5, <3>2
    <3> QED
      BY <3>1, <3>2
  <2>2. CASE e \in Range(SubSeq(looked, 1, old))
    <3>1. ~ (old < 1)
      BY <2>2, ListPrefix DEF OrderOK
    <3>2. old' = old - 1
      BY <2>2
    <3> QED
      BY ONLY <1>5, <2>1, <3>1, <3>2
  <2>3. CASE e \notin Range(SubSeq(looked, 1, old))
    <3>1. old' = old
      BY <2>3
    <3> QED
      BY ONLY <1>5, <2>1, <3>1
  <2> QED
    BY <2>2, <2>3
<1>7. Range(never') \cap Range(looked') = {}
  BY <1>1, <1>4 DEF OrderOK
<1>8. Ids' = Ids
  BY <1>1, <1>4 DEF Ids
<1> QED
  BY <1>1, <1>4, <1>6, <1>7, <1>8 DEF OrderOK

LEMMA SetKeeps ==
    ASSUME Inv, SetLinkStatus
    PROVE  Inv'
<1> DEFINE e == sweep[1].id
<1>1. /\ sweep # <<>> /\ sweep' = Tail(sweep) /\ answer # "none" /\ answer' = "none"
      /\ shop' = shop /\ edit' = edit /\ edits' = edits /\ restarts' = restarts
  BY DEF SetLinkStatus, editVars
<1>2. Head(sweep) = sweep[1] /\ 1 \in DOMAIN sweep /\ sweep[1] \in Snapshots
  <2>1. sweep \in Seq(Snapshots)
    BY DEF Inv, SweepOK
  <2>2. Len(sweep) \in Nat /\ DOMAIN sweep = 1..Len(sweep) /\ sweep \in [1..Len(sweep) -> Snapshots]
    BY <2>1, LenProperties
  <2>3. 1 \in DOMAIN sweep /\ Head(sweep) = sweep[1]
    BY <1>1, <2>1, <2>2
  <2> QED
    BY <2>2, <2>3
<1>3. e \in Ids
  BY <1>2 DEF Inv, SweepOK
<1>4. /\ never' = RemoveFirst(never, e)
      /\ looked' = Append(RemoveFirst(looked, e), e)
      /\ old' = IF e \in Range(SubSeq(looked, 1, old)) THEN old - 1 ELSE old
  BY <1>2 DEF SetLinkStatus
<1>5. OrderOK' /\ Ids' = Ids
  <2> HIDE DEF e
  <2> QED
    BY <1>3, <1>4, StampKeepsOrder DEF Inv
<1>6. SweepOK'
  BY <1>1, <1>5, SweepGoesOn DEF Inv
<1>7. items' \in [DOMAIN items -> Rows]
  <2>1. PICK st : st = IF Verdict(answer) = "unknown" THEN Head(sweep).status ELSE Verdict(answer)
    OBVIOUS
  <2>2. items' = IF e \in DOMAIN items THEN [items EXCEPT ![e].status = st] ELSE items
    BY <1>2, <2>1 DEF SetLinkStatus
  <2>3. st \in Statuses
    <3>1. answer \in Answers
      BY <1>1 DEF Inv, RestOK
    <3> QED
      BY <1>2, <2>1, <3>1, VerdictIs DEF Snapshots
  <2>4. items \in [DOMAIN items -> Rows]
    BY DEF Inv, ItemsOK
  <2> HIDE DEF e
  <2> QED
    BY <2>2, <2>3, <2>4 DEF Rows
<1>8. ItemsOK'
  BY <1>5, <1>7 DEF Inv, ItemsOK
<1>9. EditOK' /\ RestOK'
  BY <1>1, <1>5 DEF Inv, EditOK, RestOK, SetLinkStatus, histVars
<1> QED
  BY <1>5, <1>6, <1>8, <1>9 DEF Inv

LEMMA InvNext == Inv /\ [Next]_vars => Inv'
<1> SUFFICES ASSUME Inv, [Next]_vars PROVE Inv'
  OBVIOUS
<1>1. CASE StartSweep
  <2>1. UNCHANGED <<items, orderVars, shop, answer, editVars, restarts, histVars>>
    BY <1>1 DEF StartSweep
  <2>2. OrderOK' /\ ItemsOK' /\ EditOK' /\ RestOK'
    BY <2>1 DEF Inv, OrderOK, ItemsOK, EditOK, RestOK, Ids, orderVars, editVars, histVars
  <2>3. SweepOK'
    BY <1>1, StartedIsOK DEF Inv
  <2> QED
    BY <2>2, <2>3 DEF Inv
<1>2. CASE Fetch
  <2>1. UNCHANGED <<items, orderVars, shop, sweep, editVars, restarts, links>>
    BY <1>2 DEF Fetch
  <2>2. OrderOK' /\ ItemsOK' /\ SweepOK' /\ EditOK'
    BY <2>1 DEF Inv, OrderOK, ItemsOK, SweepOK, EditOK, Ids, orderVars, editVars
  <2>3. Head(sweep) \in Snapshots /\ answer' = shop[Head(sweep).url]
    <3>1. sweep \in Seq(Snapshots) /\ sweep # <<>>
      BY <1>2 DEF Inv, SweepOK, Fetch
    <3> QED
      BY <1>2, <3>1, HeadTailProperties DEF Fetch
  <2>4. RestOK'
    <3>1. answer' \in Answers /\ answer' \in AllAnswers
      BY <2>1, <2>3, LinkHealthAssumption DEF Inv, RestOK, Snapshots
    <3>2. Head(sweep).id \in ItemIds /\ Head(sweep).url \in Urls
      BY <2>3 DEF Snapshots
    <3>3. heard' \subseteq ItemIds \X (Urls \cup {NoUrl}) \X AllAnswers
      <4>1. PICK a : a = answer'
        OBVIOUS
      <4>2. heard' = Hear(Head(sweep).id, Head(sweep).url, a) /\ a \in AllAnswers
        BY <1>2, <3>1, <4>1 DEF Fetch
      <4> QED
        BY <3>2, <4>2, HearIsTyped DEF Inv
    <3> QED
      BY <2>1, <3>1, <3>3 DEF Inv, RestOK, editVars
  <2> QED
    BY <2>2, <2>4 DEF Inv
<1>3. CASE SetLinkStatus
  BY <1>3, SetKeeps
<1>4. CASE \E i \in ItemIds, p \in Posted : CreateItem(i, p[1], p[2])
  <2>1. PICK i \in ItemIds, p \in Posted : CreateItem(i, p[1], p[2])
    BY <1>4
  <2>2. p[1] \in Urls \cup {NoUrl} /\ p[2] \in Statuses
    BY LinkHealthAssumption
  <2> QED
    BY <2>1, <2>2, CreateKeeps
<1>5. CASE \E i \in ItemIds : ReadForEdit(i)
  <2>1. PICK i \in ItemIds : ReadForEdit(i)
    BY <1>5
  <2>2. UNCHANGED <<items, orderVars, shop, jobVars, edits, restarts, histVars>>
    BY <2>1 DEF ReadForEdit
  <2>3. OrderOK' /\ ItemsOK' /\ SweepOK' /\ RestOK' /\ Ids' = Ids
    BY <2>2 DEF Inv, OrderOK, ItemsOK, SweepOK, RestOK, Ids, orderVars, jobVars, histVars
  <2>4. edit' \in [id: Ids, url: Urls \cup {NoUrl}, status: Statuses]
    <3>1. i \in DOMAIN items /\ edit' = Snapshot(i)
      BY <2>1 DEF ReadForEdit, Live
    <3>2. items[i] \in Rows /\ i \in Ids
      BY <3>1 DEF Inv, ItemsOK
    <3> QED
      BY <3>1, <3>2 DEF Snapshot, Rows
  <2>5. EditOK'
    BY <2>1, <2>2, <2>3, <2>4 DEF EditOK, ReadForEdit
  <2> QED
    BY <2>3, <2>5 DEF Inv
<1>6. CASE \E u \in Urls \cup {NoUrl} : UpdateItem(u)
  BY <1>6, UpdateKeeps
<1>7. CASE \E i \in ItemIds, claimed \in BOOLEAN : DeleteItem(i, claimed)
  BY <1>7, DeleteKeeps
<1>8. CASE Restart
  <2>1. /\ UNCHANGED <<items, orderVars, shop, edits, histVars>>
        /\ sweep' = <<>> /\ answer' = "none" /\ edit' = NoEdit
        /\ restarts < MaxRestarts /\ restarts' = restarts + 1
    BY <1>8 DEF Restart
  <2>2. OrderOK' /\ ItemsOK' /\ EditOK'
    BY <2>1 DEF Inv, OrderOK, ItemsOK, EditOK, Ids, orderVars
  <2>3. SweepOK'
    <3>1. <<>> \in Seq(Snapshots) /\ Len(<<>>) = 0 /\ DOMAIN <<>> = {}
      OBVIOUS
    <3> QED
      BY <2>1, <3>1, LinkHealthAssumption DEF SweepOK
  <2>4. RestOK'
    BY <2>1, LinkHealthAssumption DEF Inv, RestOK, histVars
  <2> QED
    BY <2>2, <2>3, <2>4 DEF Inv
<1>9. CASE TimePasses
  <2>1. /\ UNCHANGED <<items, never, looked, shop, jobVars, editVars, restarts, histVars>>
        /\ old < Len(looked) /\ old' = old + 1
    BY <1>9 DEF TimePasses
  <2>2. Len(looked) \in Nat
    BY ListIs DEF Inv, OrderOK
  <2>3. OrderOK'
    BY <2>1, <2>2 DEF Inv, OrderOK
  <2>4. ItemsOK' /\ SweepOK' /\ EditOK' /\ RestOK'
    BY <2>1 DEF Inv, ItemsOK, SweepOK, EditOK, RestOK, Ids, jobVars, editVars, histVars
  <2> QED
    BY <2>3, <2>4 DEF Inv
<1>10. CASE \E u \in Urls : ShopChanges(u)
  <2>1. PICK u \in Urls, a \in Answers : shop' = [shop EXCEPT ![u] = a]
    BY <1>10 DEF ShopChanges
  <2>2. UNCHANGED <<items, orderVars, jobVars, editVars, restarts, histVars>>
    BY <1>10 DEF ShopChanges
  <2>3. OrderOK' /\ ItemsOK' /\ SweepOK' /\ EditOK'
    BY <2>2 DEF Inv, OrderOK, ItemsOK, SweepOK, EditOK, Ids, orderVars, jobVars, editVars
  <2>4. RestOK'
    BY <2>1, <2>2 DEF Inv, RestOK, jobVars, editVars, histVars
  <2> QED
    BY <2>3, <2>4 DEF Inv
<1>11. CASE UNCHANGED vars
  BY <1>11 DEF vars, orderVars, jobVars, editVars, histVars, Inv, OrderOK, ItemsOK, SweepOK, EditOK,
               RestOK, Ids
<1> QED
  BY <1>1, <1>2, <1>3, <1>4, <1>5, <1>6, <1>7, <1>8, <1>9, <1>10, <1>11
     DEF Next, Job, Owner

LEMMA Invariant == Spec => []Inv
  BY InvInit, InvNext, PTL DEF Spec

LEMMA TypesFromInv == Inv => TypeOK
<1> SUFFICES ASSUME Inv PROVE TypeOK
  OBVIOUS
<1>1. List(ItemIds, never \o looked) /\ Range(never \o looked) = Ids
  <2>1. List(ItemIds, never) /\ List(ItemIds, looked) /\ Range(never) \cap Range(looked) = {}
    BY DEF Inv, OrderOK
  <2>2. Joins(ItemIds, never, looked)
    BY <2>1, ListConcat
  <2> QED
    BY <2>2 DEF Ids, Joins
<1>2. Ids \subseteq ItemIds
  BY IdsAreItems DEF Inv
<1>3. /\ Range(never \o looked) \subseteq ItemIds
      /\ DOMAIN items \subseteq Range(never \o looked)
      /\ DOMAIN items \subseteq ItemIds
  BY <1>1, <1>2 DEF Inv, ItemsOK
<1>4. IsInjective(never \o looked)
  BY <1>1 DEF List
<1>5. items \in [DOMAIN items -> [url: Urls \cup {NoUrl}, status: Statuses, deleted: BOOLEAN]]
  BY DEF Inv, ItemsOK, Rows
<1>6. \A n \in DOMAIN sweep : sweep[n] \in [id: ItemIds, url: Urls, status: Statuses]
  <2>1. sweep \in Seq(Snapshots)
    BY DEF Inv, SweepOK
  <2>2. \A n \in DOMAIN sweep : sweep[n] \in Snapshots
    BY ONLY <2>1, LenProperties
  <2> QED
    BY ONLY <2>2 DEF Snapshots
<1>7. IsInjective([n \in DOMAIN sweep |-> sweep[n].id])
  BY DEF IsInjective, Inv, SweepOK
<1> QED
  BY <1>3, <1>4, <1>5, <1>6, <1>7 DEF TypeOK, Inv, OrderOK, SweepOK, RestOK

\* Whatever the job, the owner, a restart and the clock do in whatever order,
\* the order of the links holds every id at most once and the id of every row,
\* and a sweep is a batch of different items that all have a link.
THEOREM TypesHold == Spec => []TypeOK
  BY Invariant, TypesFromInv, PTL

-----------------------------------------------------------------------------
(* No host dominates.                                                      *)

\* The three ways a sweep changes: it starts, it goes on, it is dropped.
LEMMA StartedIsFair ==
    ASSUME Inv, StartSweep
    PROVE  NoHostDominates'
<1>1. PICK B, s : Started(B, s)
  BY SweepStarts DEF Inv
<1>2. /\ B \subseteq Nat /\ IsFiniteSet(B) /\ s = spreadByHost(B, perHostCap)
      /\ DOMAIN sweep' = DOMAIN s
      /\ \A n \in DOMAIN s : sweep'[n] = Snapshot(Waiting[s[n]])
  BY <1>1 DEF Started
<1>3. \A n \in DOMAIN s : HostOf[sweep'[n].url] = Host(s[n])
  BY <1>2 DEF Snapshot, Host
<1>4. Len(sweep') \in Nat /\ DOMAIN sweep' = 1..Len(sweep')
  <2>1. sweep' \in Seq(Snapshots)
    BY StartedIsOK DEF Inv, SweepOK
  <2> QED
    BY <2>1, LenProperties
<1>5. ASSUME NEW n \in 1..(Len(sweep') - 1),
             HostOf[sweep'[n].url] = HostOf[sweep'[n+1].url],
             NEW k \in n..Len(sweep')
      PROVE  HostOf[sweep'[k].url] = HostOf[sweep'[n].url]
  <2>1. n \in DOMAIN s /\ n + 1 \in DOMAIN s /\ k \in DOMAIN s /\ n <= k
    BY <1>2, <1>4
  <2>2. Host(s[n]) = Host(s[n+1])
    BY <1>3, <1>5, <2>1
  <2>3. TakesTurns(s)
    BY <1>2, CapIsNat, SpreadAlternates
  <2>4. Host(s[k]) = Host(s[n])
    BY <2>1, <2>2, <2>3 DEF TakesTurns
  <2> QED
    BY <1>3, <2>1, <2>4
<1>6. ASSUME NEW n \in DOMAIN sweep'
      PROVE  Cardinality({k \in DOMAIN sweep' : HostOf[sweep'[k].url] = HostOf[sweep'[n].url]})
                <= perHostCap
  <2>1. n \in DOMAIN s
    BY <1>2
  <2>2. {k \in DOMAIN sweep' : HostOf[sweep'[k].url] = HostOf[sweep'[n].url]}
           = {k \in DOMAIN s : Host(s[k]) = Host(s[n])}
    BY <1>2, <1>3, <2>1
  <2>3. Cardinality({k \in DOMAIN s : Host(s[k]) = Host(s[n])}) <= perHostCap
    BY <1>2, <2>1, CapIsNat, SpreadShares
  <2> QED
    BY <2>2, <2>3
<1> QED
  BY <1>5, <1>6 DEF NoHostDominates, SweptHost, perHostCap

LEMMA RestIsFair ==
    ASSUME SweepOK, NoHostDominates, sweep # <<>>, sweep' = Tail(sweep), Ids' = Ids
    PROVE  NoHostDominates'
<1>1. /\ Len(sweep) \in Nat /\ DOMAIN sweep = 1..Len(sweep)
      /\ DOMAIN sweep' = 1..(Len(sweep) - 1) /\ Len(sweep') = Len(sweep) - 1
      /\ \A n \in DOMAIN sweep' : sweep'[n] = sweep[n+1] /\ n + 1 \in DOMAIN sweep
  BY SweepGoesOn
<1>2. ASSUME NEW n \in 1..(Len(sweep') - 1),
             HostOf[sweep'[n].url] = HostOf[sweep'[n+1].url],
             NEW k \in n..Len(sweep')
      PROVE  HostOf[sweep'[k].url] = HostOf[sweep'[n].url]
  <2>1. n \in DOMAIN sweep' /\ n + 1 \in DOMAIN sweep' /\ k \in DOMAIN sweep'
    BY <1>1
  <2>2. n + 1 \in 1..(Len(sweep) - 1) /\ k + 1 \in (n + 1)..Len(sweep)
    BY <1>1
  <2>3. /\ sweep'[n] = sweep[n+1] /\ sweep'[n+1] = sweep[(n+1)+1]
        /\ sweep'[k] = sweep[k+1]
    BY <1>1, <2>1
  <2>4. SweptHost(n+1) = SweptHost((n+1)+1)
    BY <1>2, <2>3 DEF SweptHost
  <2>5. SweptHost(k+1) = SweptHost(n+1)
    BY <2>2, <2>4 DEF NoHostDominates
  <2> QED
    BY <2>3, <2>5 DEF SweptHost
<1>3. ASSUME NEW n \in DOMAIN sweep'
      PROVE  Cardinality({k \in DOMAIN sweep' : HostOf[sweep'[k].url] = HostOf[sweep'[n].url]})
                <= perHostCap
  <2> DEFINE D == {k \in DOMAIN sweep' : HostOf[sweep'[k].url] = HostOf[sweep'[n].url]}
             T == {k \in DOMAIN sweep : SweptHost(k) = SweptHost(n+1)}
             f == [k \in D |-> k + 1]
  <2>1. sweep'[n] = sweep[n+1] /\ n + 1 \in DOMAIN sweep
    BY <1>1
  <2>2. Cardinality(T) <= perHostCap
    BY <2>1 DEF NoHostDominates
  <2>3. IsFiniteSet(T)
    <3>1. IsFiniteSet(DOMAIN sweep)
      BY <1>1, FS_Interval
    <3> QED
      BY <3>1, FS_Subset
  <2>4. ASSUME NEW k \in D PROVE k + 1 \in T /\ k \in Nat
    <3>1. k \in DOMAIN sweep'
      OBVIOUS
    <3>2. sweep'[k] = sweep[k+1] /\ k + 1 \in DOMAIN sweep /\ k \in Nat
      BY <1>1, <3>1
    <3> QED
      BY <2>1, <3>2 DEF SweptHost
  <2>5. f \in [D -> T]
    BY <2>4
  <2>6. ASSUME NEW j \in D, NEW k \in D, f[j] = f[k] PROVE j = k
    <3>1. j + 1 = k + 1 /\ j \in Nat /\ k \in Nat
      BY <2>4, <2>6
    <3> QED
      BY ONLY <3>1
  <2> HIDE DEF f
  <2>7. f \in Injection(D, T)
    <3> HIDE DEF D, T
    <3> QED
      BY <2>5, <2>6 DEF Injection, IsInjective
  <2>8. Cardinality(D) <= Cardinality(T) /\ IsFiniteSet(D)
    <3> HIDE DEF D, T
    <3> QED
      BY <2>3, <2>7, FS_Injection
  <2>9. Cardinality(D) \in Nat /\ Cardinality(T) \in Nat
    BY <2>3, <2>8, FS_CardinalityType
  <2> HIDE DEF D, T
  <2>10. Cardinality(D) <= perHostCap
    BY <2>2, <2>8, <2>9, CapIsNat
  <2> QED
    BY <2>10 DEF D
<1> QED
  BY <1>2, <1>3 DEF NoHostDominates, SweptHost, perHostCap

LEMMA EmptyIsFair ==
    ASSUME sweep = <<>>
    PROVE  NoHostDominates
<1>1. Len(sweep) = 0 /\ DOMAIN sweep = {}
  OBVIOUS
<1>2. 1..(Len(sweep) - 1) = {}
  BY <1>1
<1> QED
  BY <1>1, <1>2 DEF NoHostDominates

\* However many links a host has, a sweep never asks it twice in a row while
\* another host still waits, and never more often than its share: the round
\* robin of spreadByHost, and what is left of it after every answer.
THEOREM HostsTakeTurns == Spec => []NoHostDominates
<1>1. Init => NoHostDominates
  BY EmptyIsFair DEF Init
<1>2. Inv /\ NoHostDominates /\ [Next]_vars => NoHostDominates'
  <2> SUFFICES ASSUME Inv, NoHostDominates, [Next]_vars PROVE NoHostDominates'
    OBVIOUS
  <2>1. CASE StartSweep
    BY <2>1, StartedIsFair
  <2>2. CASE SetLinkStatus
    <3>1. Ids' = Ids
      <4>1. sweep # <<>> /\ sweep \in Seq(Snapshots)
        BY <2>2 DEF SetLinkStatus, Inv, SweepOK
      <4>2. Head(sweep) = sweep[1] /\ 1 \in DOMAIN sweep
        BY <4>1
      <4>3. Head(sweep).id \in Ids
        BY <4>2 DEF Inv, SweepOK
      <4> QED
        BY <2>2, <4>3, StampKeepsOrder DEF SetLinkStatus, Inv
    <3>2. sweep # <<>> /\ sweep' = Tail(sweep)
      BY <2>2 DEF SetLinkStatus
    <3> QED
      BY <3>1, <3>2, RestIsFair DEF Inv
  <2>3. CASE Restart
    <3>1. sweep' = <<>>
      BY <2>3 DEF Restart
    <3>2. Len(sweep') = 0 /\ DOMAIN sweep' = {}
      BY <3>1
    <3>3. 1..(Len(sweep') - 1) = {}
      BY <3>2
    <3> QED
      BY <3>2, <3>3 DEF NoHostDominates
  <2>4. CASE sweep' = sweep
    BY <2>4 DEF NoHostDominates, SweptHost, perHostCap
  <2> QED
    BY <2>1, <2>2, <2>3, <2>4 DEF Next, Job, Owner, Fetch, CreateItem, ReadForEdit, UpdateItem,
       DeleteItem, TimePasses, ShopChanges, vars, jobVars
<1> QED
  BY <1>1, <1>2, Invariant, PTL DEF Spec

-----------------------------------------------------------------------------
(* Every status was heard.                                                 *)

Links == Urls \cup {NoUrl}

\* The status st of item i came with a form or from a shop, and about a link of i.
ToldIn(L, H, i, st) ==
    st # "unknown" =>
        \E u \in Links : <<i, u>> \in L /\ <<i, u, Evidence[st]>> \in H

Told(i, st) == ToldIn(links, heard, i, st)

ItemsTold ==
    \A i \in DOMAIN items : <<i, items[i].url>> \in links /\ Told(i, items[i].status)

\* Snapshots outlive the row, an edit and a restart, and are written back.
SweepTold ==
    \A n \in DOMAIN sweep : /\ <<sweep[n].id, sweep[n].url>> \in links
                            /\ Told(sweep[n].id, sweep[n].status)

EditTold == edit # NoEdit => Told(edit.id, edit.status)

\* What is going to be written was heard of the link in the snapshot.
AnswerTold ==
    answer # "none" =>
        /\ sweep # <<>>
        /\ answer # "nothing" => <<Head(sweep).id, Head(sweep).url, answer>> \in heard

ToldInv == ItemsTold /\ SweepTold /\ EditTold /\ AnswerTold

\* Every answer that says something is kept.
Keeps == AllAnswers \ {"nothing"} \subseteq Recorded

LEMMA VerdictEvidence ==
    ASSUME NEW a, a \in Answers, Verdict(a) # "unknown"
    PROVE  a # "nothing" /\ Evidence[Verdict(a)] = a
<1>1. a \in {"product", "gone", "nothing", "distrusted"}
  BY LinkHealthAssumption DEF AllAnswers
<1>2. CASE a = "product"
  BY <1>2 DEF Verdict, Evidence
<1>3. CASE a = "gone"
  BY <1>3 DEF Verdict, Evidence
<1>4. CASE a = "nothing"
  BY <1>4 DEF Verdict
<1>5. CASE a = "distrusted"
  BY <1>5 DEF Verdict, Evidence
<1> QED
  BY <1>1, <1>2, <1>3, <1>4, <1>5

LEMMA EvidenceSays ==
    ASSUME NEW st, st \in Statuses, st # "unknown"
    PROVE  Evidence[st] \in AllAnswers \ {"nothing"}
<1>1. st = "ok" \/ st = "suspect" \/ st = "dead"
  BY DEF Statuses
<1>2. CASE st = "ok"
  BY <1>2 DEF Evidence, AllAnswers
<1>3. CASE st = "suspect"
  BY <1>3 DEF Evidence, AllAnswers
<1>4. CASE st = "dead"
  BY <1>4 DEF Evidence, AllAnswers
<1> QED
  BY <1>1, <1>2, <1>3, <1>4

\* Both histories only grow.
LEMMA HearGrows ==
    ASSUME NEW i, NEW u, NEW a
    PROVE  heard \subseteq Hear(i, u, a) /\ (a \in Recorded => <<i, u, a>> \in Hear(i, u, a))
  BY DEF Hear

LEMMA StoreGrows ==
    ASSUME Keeps, NEW i, NEW u
    PROVE  links \subseteq Store(i, u) /\ <<i, u>> \in Store(i, u)
  BY DEF Store, Keeps, AllAnswers

\* What was told stays told.
LEMMA ToldStays ==
    ASSUME links \subseteq links', heard \subseteq heard', NEW i, NEW st, Told(i, st)
    PROVE  Told(i, st)'
  BY DEF Told, ToldIn, Links

\* Steps that leave the sweep, its answer and the edit alone.
LEMMA CarriedStays ==
    ASSUME ToldInv, links \subseteq links', heard \subseteq heard',
           sweep' = sweep, answer' = answer, edit' = edit \/ edit' = NoEdit
    PROVE  SweepTold' /\ EditTold' /\ AnswerTold'
<1>1. SweepTold'
  <2> SUFFICES ASSUME NEW n \in DOMAIN sweep
               PROVE  /\ <<sweep[n].id, sweep[n].url>> \in links'
                      /\ Told(sweep[n].id, sweep[n].status)'
    BY DEF SweepTold, Told, ToldIn, Links
  <2>1. PICK i, st : i = sweep[n].id /\ st = sweep[n].status
    OBVIOUS
  <2>2. Told(i, st) /\ <<sweep[n].id, sweep[n].url>> \in links
    BY <2>1 DEF ToldInv, SweepTold
  <2>3. Told(i, st)'
    BY <2>2, ToldStays
  <2> QED
    BY <2>1, <2>2, <2>3 DEF Told, ToldIn, Links
<1>2. EditTold'
  <2>1. CASE edit' = NoEdit
    BY <2>1 DEF EditTold
  <2>2. CASE edit' = edit /\ edit # NoEdit
    <3>1. PICK i, st : i = edit.id /\ st = edit.status
      OBVIOUS
    <3>2. Told(i, st)'
      <4>1. Told(i, st)
        BY <2>2, <3>1 DEF ToldInv, EditTold
      <4> QED
        BY <4>1, ToldStays
    <3> QED
      BY <2>2, <3>1, <3>2 DEF EditTold, Told, ToldIn, Links
  <2> QED
    BY <2>1, <2>2
<1>3. AnswerTold'
  BY DEF ToldInv, AnswerTold
<1> QED
  BY <1>1, <1>2, <1>3

LEMMA CreateTells ==
    ASSUME Inv, ToldInv, Keeps, NEW i, NEW u, u \in Links, NEW st, st \in Statuses,
           CreateItem(i, u, st)
    PROVE  ToldInv'
<1>1. /\ items' = [j \in DOMAIN items \cup {i} |->
                     IF j = i THEN [url |-> u, status |-> st, deleted |-> FALSE] ELSE items[j]]
      /\ links' = Store(i, u) /\ heard' = Hear(i, u, Evidence[st])
      /\ sweep' = sweep /\ answer' = answer /\ edit' = edit
  BY DEF CreateItem, jobVars, editVars, Put
<1>2. links \subseteq links' /\ heard \subseteq heard' /\ <<i, u>> \in links'
  BY <1>1, StoreGrows, HearGrows
<1>3. Told(i, st)'
  <2>1. CASE st = "unknown"
    BY <2>1 DEF Told, ToldIn
  <2>2. CASE st # "unknown"
    <3>1. Evidence[st] \in Recorded
      BY <2>2, EvidenceSays DEF Keeps
    <3>2. <<i, u, Evidence[st]>> \in heard'
      BY <1>1, <3>1, HearGrows
    <3> QED
      BY <1>2, <3>2 DEF Told, ToldIn, Links
  <2> QED
    BY <2>1, <2>2
<1>4. ItemsTold'
  <2> SUFFICES ASSUME NEW j \in DOMAIN items'
               PROVE  <<j, items'[j].url>> \in links' /\ ToldIn(links', heard', j, items'[j].status)
    BY DEF ItemsTold, Told, ToldIn, Links
  <2>1. CASE j = i
    <3>1. items'[j].url = u /\ items'[j].status = st
      BY <1>1, <2>1
    <3> QED
      BY <1>2, <1>3, <2>1, <3>1 DEF Told, ToldIn, Links
  <2>2. CASE j # i
    <3>1. PICK s : s = items[j].status
      OBVIOUS
    <3>2. items'[j] = items[j] /\ j \in DOMAIN items
      BY <1>1, <2>2
    <3>3. <<j, items[j].url>> \in links /\ Told(j, s)
      BY <3>1, <3>2 DEF ToldInv, ItemsTold
    <3>4. Told(j, s)'
      BY <1>2, <3>3, ToldStays
    <3> QED
      BY <1>2, <3>1, <3>2, <3>3, <3>4 DEF Told, ToldIn, Links
  <2> QED
    BY <2>1, <2>2
<1> QED
  BY <1>1, <1>2, <1>4, CarriedStays DEF ToldInv

LEMMA UpdateTells ==
    ASSUME Inv, ToldInv, Keeps, NEW u, u \in Links, UpdateItem(u)
    PROVE  ToldInv'
<1>1. /\ edit # NoEdit /\ edit' = NoEdit
      /\ heard' = heard /\ sweep' = sweep /\ answer' = answer
  BY DEF UpdateItem, jobVars, histVars
<1>2. CASE Live(edit.id)
  <2>1. PICK i, st : i = edit.id /\ st = edit.status
    OBVIOUS
  <2>2. i \in DOMAIN items /\ items[i] \in Rows
    BY <1>2, <2>1 DEF Live, Inv, ItemsOK
  <2>3. items' = [items EXCEPT ![i].url = u, ![i].status = st] /\ links' = Store(i, u)
    BY <1>2, <2>1 DEF UpdateItem
  <2>4. links \subseteq links' /\ <<i, u>> \in links'
    BY <2>3, StoreGrows
  <2>5. /\ DOMAIN items' = DOMAIN items
        /\ items'[i].url = u /\ items'[i].status = st
        /\ \A j \in DOMAIN items : j # i => items'[j] = items[j]
    BY <2>2, <2>3 DEF Rows
  <2>6. Told(i, st)'
    <3>1. Told(i, st)
      BY <1>1, <2>1 DEF ToldInv, EditTold
    <3> QED
      BY <1>1, <2>4, <3>1, ToldStays
  <2>7. ItemsTold'
    <3> SUFFICES ASSUME NEW j \in DOMAIN items
                 PROVE  <<j, items'[j].url>> \in links' /\ ToldIn(links', heard', j, items'[j].status)
      BY <2>5 DEF ItemsTold, Told, ToldIn, Links
    <3>1. CASE j = i
      BY <2>4, <2>5, <2>6, <3>1 DEF Told, ToldIn, Links
    <3>2. CASE j # i
      <4>1. PICK s : s = items[j].status
        OBVIOUS
      <4>2. <<j, items[j].url>> \in links /\ Told(j, s)
        BY <4>1 DEF ToldInv, ItemsTold
      <4>3. Told(j, s)'
        BY <1>1, <2>4, <4>2, ToldStays
      <4> QED
        BY <2>4, <2>5, <3>2, <4>1, <4>2, <4>3 DEF Told, ToldIn, Links
    <3> QED
      BY <3>1, <3>2
  <2> QED
    BY <1>1, <2>4, <2>7, CarriedStays DEF ToldInv
<1>3. CASE ~ Live(edit.id)
  <2>1. items' = items /\ links' = links
    BY <1>3 DEF UpdateItem
  <2>2. ItemsTold'
    BY <1>1, <2>1 DEF ToldInv, ItemsTold, Told, ToldIn, Links
  <2> QED
    BY <1>1, <2>1, <2>2, CarriedStays DEF ToldInv
<1> QED
  BY <1>2, <1>3

LEMMA DeleteTells ==
    ASSUME Inv, ToldInv, NEW i, NEW claimed, claimed \in BOOLEAN, DeleteItem(i, claimed)
    PROVE  ToldInv'
<1>1. /\ heard' = heard /\ links' = links
      /\ sweep' = sweep /\ answer' = answer /\ edit' = edit
  BY DEF DeleteItem, jobVars, editVars, histVars
<1>2. /\ DOMAIN items' \subseteq DOMAIN items
      /\ \A j \in DOMAIN items' : /\ items'[j].url = items[j].url
                                  /\ items'[j].status = items[j].status
  <2>1. items \in [DOMAIN items -> Rows] /\ i \in DOMAIN items
    BY DEF Inv, ItemsOK, DeleteItem, Live
  <2>2. CASE claimed
    <3>1. items' = [items EXCEPT ![i].deleted = TRUE]
      BY <2>2 DEF DeleteItem
    <3> QED
      BY <2>1, <3>1 DEF Rows
  <2>3. CASE ~ claimed
    <3>1. items' = [j \in DOMAIN items \ {i} |-> items[j]]
      BY <2>3 DEF DeleteItem, Drop, Restrict
    <3> QED
      BY <3>1
  <2> QED
    BY <2>2, <2>3
<1>3. ItemsTold'
  BY <1>1, <1>2 DEF ToldInv, ItemsTold, Told, ToldIn, Links
<1> QED
  BY <1>1, <1>3, CarriedStays DEF ToldInv

LEMMA StartTells ==
    ASSUME Inv, ToldInv, StartSweep
    PROVE  ToldInv'
<1>1. /\ items' = items /\ heard' = heard /\ links' = links
      /\ answer' = answer /\ edit' = edit /\ sweep = <<>>
  BY DEF StartSweep, editVars, histVars
<1>2. PICK B, s : Started(B, s)
  BY SweepStarts DEF Inv
<1>3. /\ B \subseteq Due
      /\ \A n \in DOMAIN sweep' : s[n] \in B /\ sweep'[n] = Snapshot(Waiting[s[n]])
  BY <1>2 DEF Started
<1>4. SweepTold'
  <2> SUFFICES ASSUME NEW n \in DOMAIN sweep'
               PROVE  /\ <<sweep'[n].id, sweep'[n].url>> \in links
                      /\ Told(sweep'[n].id, sweep'[n].status)
    BY <1>1 DEF SweepTold, Told, ToldIn, Links
  <2>1. PICK i : i = Waiting[s[n]]
    OBVIOUS
  <2>2. i \in DOMAIN items
    BY <1>3, <2>1, DueIs DEF Inv
  <2>3. /\ sweep'[n].id = i /\ sweep'[n].url = items[i].url
        /\ sweep'[n].status = items[i].status
    BY <1>3, <2>1 DEF Snapshot
  <2> QED
    BY <2>2, <2>3 DEF ToldInv, ItemsTold
<1>5. ItemsTold' /\ EditTold'
  BY <1>1 DEF ToldInv, ItemsTold, EditTold, Told, ToldIn, Links
<1>6. AnswerTold'
  BY <1>1 DEF ToldInv, AnswerTold
<1> QED
  BY <1>4, <1>5, <1>6 DEF ToldInv

LEMMA FetchTells ==
    ASSUME Inv, ToldInv, Keeps, Fetch
    PROVE  ToldInv'
<1>1. PICK i, u, a : i = Head(sweep).id /\ u = Head(sweep).url /\ a = answer'
  OBVIOUS
<1>2. /\ items' = items /\ links' = links /\ sweep' = sweep /\ edit' = edit /\ sweep # <<>>
      /\ heard' = Hear(i, u, a)
  BY <1>1 DEF Fetch, editVars
<1>3. a \in Answers
  <2>1. sweep \in Seq(Snapshots)
    BY DEF Inv, SweepOK
  <2>2. Head(sweep) \in Snapshots
    BY <1>2, <2>1, HeadTailProperties
  <2>3. u \in Urls /\ answer' = shop[u]
    BY <1>1, <2>2 DEF Snapshots, Fetch
  <2> QED
    BY <1>1, <2>3 DEF Inv, RestOK
<1>4. heard \subseteq heard' /\ (a # "nothing" => <<i, u, a>> \in heard')
  <2>1. a # "nothing" => a \in Recorded
    BY <1>3, LinkHealthAssumption DEF Keeps
  <2> QED
    BY <1>2, <2>1, HearGrows
<1>5. ItemsTold'
  <2> SUFFICES ASSUME NEW j \in DOMAIN items
               PROVE  <<j, items[j].url>> \in links /\ Told(j, items[j].status)'
    BY <1>2 DEF ItemsTold, Told, ToldIn, Links
  <2>1. PICK s : s = items[j].status
    OBVIOUS
  <2>2. <<j, items[j].url>> \in links /\ Told(j, s)
    BY <2>1 DEF ToldInv, ItemsTold
  <2>3. Told(j, s)'
    BY <1>2, <1>4, <2>2, ToldStays
  <2> QED
    BY <1>2, <2>1, <2>2, <2>3 DEF Told, ToldIn, Links
<1>6. SweepTold'
  <2> SUFFICES ASSUME NEW n \in DOMAIN sweep
               PROVE  /\ <<sweep[n].id, sweep[n].url>> \in links
                      /\ Told(sweep[n].id, sweep[n].status)'
    BY <1>2 DEF SweepTold, Told, ToldIn, Links
  <2>1. PICK j, s : j = sweep[n].id /\ s = sweep[n].status
    OBVIOUS
  <2>2. <<sweep[n].id, sweep[n].url>> \in links /\ Told(j, s)
    BY <2>1 DEF ToldInv, SweepTold
  <2>3. Told(j, s)'
    BY <1>2, <1>4, <2>2, ToldStays
  <2> QED
    BY <1>2, <2>1, <2>2, <2>3 DEF Told, ToldIn, Links
<1>7. EditTold'
  <2> SUFFICES ASSUME edit # NoEdit PROVE Told(edit.id, edit.status)'
    BY <1>2 DEF EditTold, Told, ToldIn, Links
  <2>1. PICK j, s : j = edit.id /\ s = edit.status
    OBVIOUS
  <2>2. Told(j, s)
    BY <2>1 DEF ToldInv, EditTold
  <2>3. Told(j, s)'
    BY <1>2, <1>4, <2>2, ToldStays
  <2> QED
    BY <1>2, <2>1, <2>3 DEF Told, ToldIn, Links
<1>8. AnswerTold'
  BY <1>1, <1>2, <1>4 DEF AnswerTold
<1> QED
  BY <1>5, <1>6, <1>7, <1>8 DEF ToldInv

LEMMA SetTells ==
    ASSUME Inv, ToldInv, SetLinkStatus
    PROVE  ToldInv'
<1>1. /\ sweep # <<>> /\ sweep' = Tail(sweep) /\ answer # "none" /\ answer' = "none"
      /\ heard' = heard /\ links' = links /\ edit' = edit
  BY DEF SetLinkStatus, editVars, histVars
<1>2. Ids' = Ids
  <2>1. sweep \in Seq(Snapshots)
    BY DEF Inv, SweepOK
  <2>2. Head(sweep) = sweep[1] /\ 1 \in DOMAIN sweep
    BY <1>1, <2>1
  <2>3. Head(sweep).id \in Ids
    BY <2>2 DEF Inv, SweepOK
  <2> QED
    BY <2>3, StampKeepsOrder DEF SetLinkStatus, Inv
<1>3. /\ Head(sweep) = sweep[1] /\ 1 \in DOMAIN sweep
      /\ \A n \in DOMAIN sweep' : sweep'[n] = sweep[n+1] /\ n + 1 \in DOMAIN sweep
  BY <1>1, <1>2, SweepGoesOn DEF Inv
<1>4. PICK e, u, st : /\ e = sweep[1].id /\ u = sweep[1].url
                      /\ st = IF Verdict(answer) = "unknown" THEN sweep[1].status
                                                            ELSE Verdict(answer)
  OBVIOUS
<1>5. Told(e, st)
  <2>1. CASE Verdict(answer) = "unknown"
    <3>1. st = sweep[1].status
      BY <1>4, <2>1
    <3> QED
      BY <1>3, <1>4, <3>1 DEF ToldInv, SweepTold
  <2>2. CASE Verdict(answer) # "unknown"
    <3>1. answer \in Answers
      BY <1>1 DEF Inv, RestOK
    <3>2. answer # "nothing" /\ Evidence[Verdict(answer)] = answer
      BY <2>2, <3>1, VerdictEvidence
    <3>3. <<e, u, answer>> \in heard
      BY <1>1, <1>3, <1>4, <3>2 DEF ToldInv, AnswerTold
    <3>4. <<e, u>> \in links
      BY <1>3, <1>4 DEF ToldInv, SweepTold
    <3>5. u \in Links
      <4>1. sweep \in Seq(Snapshots)
        BY DEF Inv, SweepOK
      <4>2. sweep[1] \in Snapshots
        BY <1>1, <1>3, <4>1, HeadTailProperties
      <4> QED
        BY <1>4, <4>2 DEF Snapshots, Links
    <3>6. st = Verdict(answer)
      BY <1>4, <2>2
    <3> QED
      BY <3>2, <3>3, <3>4, <3>5, <3>6 DEF Told, ToldIn
  <2> QED
    BY <2>1, <2>2
<1>6. items' = IF e \in DOMAIN items THEN [items EXCEPT ![e].status = st] ELSE items
  BY <1>3, <1>4 DEF SetLinkStatus
<1>7. /\ DOMAIN items' = DOMAIN items
      /\ \A j \in DOMAIN items : items'[j].url = items[j].url
      /\ \A j \in DOMAIN items : j # e => items'[j].status = items[j].status
      /\ e \in DOMAIN items => items'[e].status = st
  <2>1. \A j \in DOMAIN items : items[j] \in Rows
    BY DEF Inv, ItemsOK
  <2> QED
    BY <1>6, <2>1 DEF Rows
<1>8. ItemsTold'
  <2> SUFFICES ASSUME NEW j \in DOMAIN items
               PROVE  <<j, items'[j].url>> \in links /\ Told(j, items'[j].status)
    BY <1>1, <1>7 DEF ItemsTold, Told, ToldIn, Links
  <2>1. <<j, items[j].url>> \in links /\ Told(j, items[j].status)
    BY DEF ToldInv, ItemsTold
  <2>2. CASE j = e
    BY <1>5, <1>7, <2>1, <2>2
  <2>3. CASE j # e
    BY <1>7, <2>1, <2>3
  <2> QED
    BY <2>2, <2>3
<1>9. SweepTold'
  <2> SUFFICES ASSUME NEW n \in DOMAIN sweep'
               PROVE  /\ <<sweep'[n].id, sweep'[n].url>> \in links
                      /\ Told(sweep'[n].id, sweep'[n].status)
    BY <1>1 DEF SweepTold, Told, ToldIn, Links
  <2>1. sweep'[n] = sweep[n+1] /\ n + 1 \in DOMAIN sweep
    BY <1>3
  <2> QED
    BY <2>1 DEF ToldInv, SweepTold
<1>10. EditTold' /\ AnswerTold'
  BY <1>1 DEF ToldInv, EditTold, AnswerTold, Told, ToldIn, Links
<1> QED
  BY <1>8, <1>9, <1>10 DEF ToldInv

LEMMA ToldNext == Keeps => (Inv /\ ToldInv /\ [Next]_vars => ToldInv')
<1> SUFFICES ASSUME Keeps, Inv, ToldInv, [Next]_vars PROVE ToldInv'
  OBVIOUS
<1>1. CASE StartSweep
  BY <1>1, StartTells
<1>2. CASE Fetch
  BY <1>2, FetchTells
<1>3. CASE SetLinkStatus
  BY <1>3, SetTells
<1>4. CASE \E i \in ItemIds, p \in Posted : CreateItem(i, p[1], p[2])
  <2>1. PICK i \in ItemIds, p \in Posted : CreateItem(i, p[1], p[2])
    BY <1>4
  <2>2. p[1] \in Links /\ p[2] \in Statuses
    BY LinkHealthAssumption DEF Links
  <2> QED
    BY <2>1, <2>2, CreateTells
<1>5. CASE \E i \in ItemIds : ReadForEdit(i)
  <2>1. PICK i \in ItemIds : ReadForEdit(i)
    BY <1>5
  <2>2. /\ items' = items /\ sweep' = sweep /\ answer' = answer
        /\ heard' = heard /\ links' = links
        /\ i \in DOMAIN items /\ edit' = Snapshot(i)
    BY <2>1 DEF ReadForEdit, jobVars, Live, histVars
  <2>3. EditTold'
    BY <2>2 DEF EditTold, Told, ToldIn, Links, ToldInv, ItemsTold, Snapshot
  <2>4. ItemsTold' /\ SweepTold' /\ AnswerTold'
    BY <2>2 DEF ToldInv, ItemsTold, SweepTold, AnswerTold, Told, ToldIn, Links
  <2> QED
    BY <2>3, <2>4 DEF ToldInv
<1>6. CASE \E u \in Urls \cup {NoUrl} : UpdateItem(u)
  BY <1>6, UpdateTells DEF Links
<1>7. CASE \E i \in ItemIds, claimed \in BOOLEAN : DeleteItem(i, claimed)
  BY <1>7, DeleteTells
<1>8. CASE Restart
  <2>1. /\ items' = items /\ heard' = heard /\ links' = links
        /\ sweep' = <<>> /\ answer' = "none" /\ edit' = NoEdit
    BY <1>8 DEF Restart, histVars
  <2>2. DOMAIN sweep' = {}
    BY <2>1
  <2>3. SweepTold' /\ EditTold' /\ AnswerTold'
    BY <2>1, <2>2 DEF SweepTold, EditTold, AnswerTold
  <2>4. ItemsTold'
    BY <2>1 DEF ToldInv, ItemsTold, Told, ToldIn, Links
  <2> QED
    BY <2>3, <2>4 DEF ToldInv
<1>9. CASE UNCHANGED <<items, jobVars, editVars, histVars>>
  BY <1>9 DEF ToldInv, ItemsTold, SweepTold, EditTold, AnswerTold, Told, ToldIn, Links,
              jobVars, editVars, histVars
<1> QED
  BY <1>1, <1>2, <1>3, <1>4, <1>5, <1>6, <1>7, <1>8, <1>9
     DEF Next, Job, Owner, TimePasses, ShopChanges, vars

\* Whatever a form posts, an edit puts in a link's place and a restart cuts off:
\* a status other than unknown is the one this item was created with, or a shop
\* said so to the job about a link this item has had; never another item's
\* verdict, and never a refusal taken for one. Sweeps, edits and rows each carry
\* statuses across the others' writes, so the same is shown of every snapshot.
\* The histories have to be kept, which is what Recorded switches.
THEOREM StatusesWereHeard ==
    ASSUME AllAnswers \ {"nothing"} \subseteq Recorded
    PROVE  Spec => []StatusWasHeard
<1>1. Init => ToldInv
  <2> SUFFICES ASSUME Init PROVE ToldInv
    OBVIOUS
  <2>1. DOMAIN items = {} /\ sweep = <<>> /\ answer = "none" /\ edit = NoEdit
    BY DEF Init, EmptyTable
  <2>2. DOMAIN sweep = {}
    BY <2>1
  <2> QED
    BY <2>1, <2>2 DEF ToldInv, ItemsTold, SweepTold, EditTold, AnswerTold
<1>2. Inv /\ ToldInv /\ [Next]_vars => ToldInv'
  BY ToldNext DEF Keeps
<1>3. ToldInv => StatusWasHeard
  BY DEF ToldInv, ItemsTold, Told, ToldIn, Links, StatusWasHeard
<1> QED
  BY <1>1, <1>2, <1>3, Invariant, PTL DEF Spec

=============================================================================
