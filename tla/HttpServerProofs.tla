--------------------------- MODULE HttpServerProofs ---------------------------
(***************************************************************************)
(* Proofs about HttpServer, for any configurations, clients, handlers,     *)
(* numbers of sessions and threads, and any bounds.                        *)
(***************************************************************************)
EXTENDS HttpServer, SequenceTheorems, FiniteSetTheorems, WellFoundedInduction, TLAPS

-----------------------------------------------------------------------------
(* Natural numbers.                                                        *)

\* A set of natural numbers that is not empty has a least element.
LEMMA LeastNatural ==
  ASSUME NEW S, S \subseteq Nat, S # {}
  PROVE  \E n \in S : \A m \in S : n <= m
  <1>1. PICK x \in S : \A y \in S : ~ (<< y, x >> \in OpToRel(<, Nat))
    BY NatLessThanWellFounded, WFMin
  <1>2. \A y \in S : ~ (y < x)
    BY <1>1 DEF OpToRel
  <1>3. QED
    BY <1>2

\* Induction, on the set of the numbers for which something holds.
LEMMA Induction ==
  ASSUME NEW S, 0 \in S, \A n \in Nat : n \in S => n + 1 \in S
  PROVE  Nat \subseteq S
  <1>1. SUFFICES ASSUME Nat \ S # {} PROVE FALSE
    OBVIOUS
  <1>2. PICK n \in Nat \ S : \A m \in Nat \ S : n <= m
    BY <1>1, LeastNatural
  <1>3. n # 0 /\ n - 1 \in Nat
    BY <1>2
  <1>4. n - 1 \in S
    BY <1>2, <1>3
  <1>5. n \in S
    BY <1>3, <1>4
  <1>6. QED
    BY <1>2, <1>5

-----------------------------------------------------------------------------
(* Loops with a test.                                                      *)

\* What Kept has collected when it has seen the first so many elements.
Collects(f, s, P, n) ==
  /\ f[0] = << >>
  /\ \A i \in 1..n : f[i] = IF i \in P THEN Append(f[i - 1], s[i]) ELSE f[i - 1]

\* Kept is the last of these.
LEMMA KeptCollects ==
  ASSUME NEW T, NEW s \in Seq(T), NEW P
  PROVE  \E f \in [0..Len(s) -> Seq(T)] : Collects(f, s, P, Len(s)) /\ Kept(s, P) = f[Len(s)]
  <1> DEFINE L == Len(s)
             Body(f) == [n \in 0..L |-> IF n = 0 THEN << >>
                                        ELSE IF n \in P THEN Append(f[n - 1], s[n]) ELSE f[n - 1]]
             S == { n \in Nat : n <= L => \E f \in [0..n -> Seq(T)] : Collects(f, s, P, n) }
  <1>1. L \in Nat /\ \A i \in 1..L : s[i] \in T
    OBVIOUS
  <1>2. 0 \in S
    <2>1. [i \in 0..0 |-> << >>] \in [0..0 -> Seq(T)]
      OBVIOUS
    <2>2. Collects([i \in 0..0 |-> << >>], s, P, 0)
      BY DEF Collects
    <2>3. QED
      BY <2>1, <2>2
  <1>3. ASSUME NEW n \in Nat, n \in S PROVE n + 1 \in S
    <2>1. SUFFICES ASSUME n + 1 <= L
                   PROVE  \E f \in [0..(n + 1) -> Seq(T)] : Collects(f, s, P, n + 1)
      OBVIOUS
    <2>2. PICK f \in [0..n -> Seq(T)] : Collects(f, s, P, n)
      BY <1>1, <1>3, <2>1
    <2> DEFINE next == IF n + 1 \in P THEN Append(f[n], s[n + 1]) ELSE f[n]
               g == [i \in 0..(n + 1) |-> IF i = n + 1 THEN next ELSE f[i]]
    <2>3. next \in Seq(T)
      <3>1. f[n] \in Seq(T) /\ s[n + 1] \in T
        BY <1>1, <2>1
      <3>2. QED
        BY <3>1, AppendProperties
    <2>4. g \in [0..(n + 1) -> Seq(T)]
      BY <2>3
    <2>5. g[0] = << >>
      BY <2>2 DEF Collects
    <2>6. ASSUME NEW i \in 1..(n + 1)
          PROVE  g[i] = IF i \in P THEN Append(g[i - 1], s[i]) ELSE g[i - 1]
      <3>1. g[i - 1] = f[i - 1]
        OBVIOUS
      <3>2. CASE i = n + 1
        BY <3>1, <3>2
      <3>3. CASE i # n + 1
        <4>1. i \in 1..n /\ g[i] = f[i]
          BY <3>3
        <4>2. QED
          BY <2>2, <3>1, <4>1 DEF Collects
      <3>4. QED
        BY <3>2, <3>3
    <2>7. QED
      BY <2>4, <2>5, <2>6 DEF Collects
  <1>4. PICK f \in [0..L -> Seq(T)] : Collects(f, s, P, L)
    <2>1. Nat \subseteq S
      BY <1>2, <1>3, Induction
    <2>2. QED
      BY <1>1, <2>1
  <1>5. f = Body(f)
    <2>1. \A i \in 0..L : i # 0 => i \in 1..L
      BY <1>1
    <2>2. \A i \in 0..L : f[i] = Body(f)[i]
      BY <1>4, <2>1 DEF Collects
    <2>3. QED
      BY <2>2
  <1> DEFINE h == CHOOSE g : g = Body(g)
  <1>6. h = Body(h)
    BY <1>5
  <1>7. Kept(s, P) = h[L]
    BY DEF Kept
  <1> HIDE DEF h
  <1>8. Collects(h, s, P, L)
    <2>1. ASSUME NEW i \in 1..L
          PROVE  h[i] = IF i \in P THEN Append(h[i - 1], s[i]) ELSE h[i - 1]
      <3>1. i \in 0..L /\ i # 0
        BY <1>1
      <3>2. h[i] = Body(h)[i]
        BY <1>6
      <3>3. QED
        BY <3>1, <3>2
    <2>2. h[0] = << >>
      BY <1>1, <1>6
    <2>3. QED
      BY <2>1, <2>2 DEF Collects
  <1> DEFINE Q == { n \in Nat : n <= L => h[n] = f[n] }
  <1>9. Nat \subseteq Q
    <2>1. 0 \in Q
      BY <1>4, <1>8 DEF Collects
    <2>2. ASSUME NEW n \in Nat, n \in Q PROVE n + 1 \in Q
      <3>1. CASE n + 1 <= L
        <4>1. n + 1 \in 1..L /\ h[n] = f[n] /\ (n + 1) - 1 = n
          BY <1>1, <2>2, <3>1
        <4>2. h[n + 1] = f[n + 1]
          BY <1>4, <1>8, <4>1 DEF Collects
        <4>3. QED
          BY <4>2
      <3>2. QED
        BY <3>1
    <2>3. QED
      BY <2>1, <2>2, Induction
  <1>10. QED
    BY <1>1, <1>4, <1>7, <1>9

\* After n elements the kept ones are those at positions up to n.
KeptUpTo(f, s, P, n) ==
  /\ \A i \in DOMAIN f[n] : \E j \in 1..n : j \in P /\ f[n][i] = s[j]
  /\ \A j \in 1..n : j \in P => \E i \in DOMAIN f[n] : f[n][i] = s[j]

\* What is kept are the elements at the positions.
LEMMA KeptElements ==
  ASSUME NEW T, NEW s \in Seq(T), NEW P
  PROVE  /\ Kept(s, P) \in Seq(T)
         /\ \A i \in DOMAIN Kept(s, P) : \E j \in DOMAIN s : j \in P /\ Kept(s, P)[i] = s[j]
         /\ \A j \in DOMAIN s : j \in P => \E i \in DOMAIN Kept(s, P) : Kept(s, P)[i] = s[j]
  <1>1. PICK f \in [0..Len(s) -> Seq(T)] : Collects(f, s, P, Len(s)) /\ Kept(s, P) = f[Len(s)]
    BY KeptCollects
  <1>2. Len(s) \in Nat /\ DOMAIN s = 1..Len(s) /\ \A i \in 1..Len(s) : s[i] \in T
    OBVIOUS
  <1> DEFINE S == { n \in Nat : n <= Len(s) => KeptUpTo(f, s, P, n) }
  <1>3. 0 \in S
    <2>1. f[0] = << >> /\ DOMAIN << >> = {}
      BY <1>1 DEF Collects
    <2>2. KeptUpTo(f, s, P, 0)
      BY <2>1 DEF KeptUpTo
    <2>3. QED
      BY <2>2
  <1>4. ASSUME NEW n \in Nat, n \in S PROVE n + 1 \in S
    <2>1. SUFFICES ASSUME n + 1 <= Len(s) PROVE KeptUpTo(f, s, P, n + 1)
      OBVIOUS
    <2>0. n \in 0..Len(s) /\ n + 1 \in 1..Len(s)
      BY <1>2, <2>1
    <2>2. KeptUpTo(f, s, P, n) /\ f[n] \in Seq(T) /\ s[n + 1] \in T /\ n + 1 \in 1..Len(s)
      BY <1>2, <1>4, <2>0
    <2>3. f[n + 1] = IF n + 1 \in P THEN Append(f[n], s[n + 1]) ELSE f[n]
      BY <1>1, <2>2 DEF Collects
    <2>4. \A j \in 1..(n + 1) : j = n + 1 \/ j \in 1..n
      OBVIOUS
    <2>5. CASE n + 1 \notin P
      BY <2>2, <2>3, <2>4, <2>5 DEF KeptUpTo
    <2>6. CASE n + 1 \in P
      <3>1. /\ DOMAIN f[n + 1] = 1..(Len(f[n]) + 1) /\ DOMAIN f[n] = 1..Len(f[n]) /\ Len(f[n]) \in Nat
            /\ \A i \in 1..Len(f[n]) : f[n + 1][i] = f[n][i]
            /\ f[n + 1][Len(f[n]) + 1] = s[n + 1]
        BY <2>2, <2>3, <2>6, AppendProperties, LenProperties
      <3>2. \A i \in DOMAIN f[n + 1] : i = Len(f[n]) + 1 \/ i \in DOMAIN f[n]
        BY <3>1
      <3>3. \A i \in DOMAIN f[n] : i \in DOMAIN f[n + 1] /\ f[n + 1][i] = f[n][i]
        BY <3>1
      <3>4. Len(f[n]) + 1 \in DOMAIN f[n + 1]
        BY <3>1
      <3>5. ASSUME NEW i \in DOMAIN f[n + 1]
            PROVE  \E j \in 1..(n + 1) : j \in P /\ f[n + 1][i] = s[j]
        <4>1. CASE i = Len(f[n]) + 1
          BY <2>0, <2>6, <3>1, <4>1
        <4>2. CASE i \in DOMAIN f[n]
          <5>1. PICK j \in 1..n : j \in P /\ f[n][i] = s[j]
            BY <2>2, <4>2 DEF KeptUpTo
          <5>2. j \in 1..(n + 1) /\ f[n + 1][i] = f[n][i]
            BY <3>3, <4>2
          <5>3. QED
            BY <5>1, <5>2
        <4>3. QED
          BY <3>2, <4>1, <4>2
      <3>6. \A j \in 1..(n + 1) : j \in P => \E i \in DOMAIN f[n + 1] : f[n + 1][i] = s[j]
        BY <2>2, <2>4, <3>1, <3>3, <3>4 DEF KeptUpTo
      <3>7. QED
        BY <3>5, <3>6 DEF KeptUpTo
    <2>7. QED
      BY <2>5, <2>6
  <1>5. KeptUpTo(f, s, P, Len(s))
    <2>1. Nat \subseteq S
      BY <1>3, <1>4, Induction
    <2>2. QED
      BY <1>2, <2>1
  <1>6. f[Len(s)] \in Seq(T)
    BY <1>2
  <1>7. QED
    BY <1>1, <1>2, <1>5, <1>6 DEF KeptUpTo

\* Numbers that increase along a sequence.
Increasing(s) == \A a, b \in DOMAIN s : a < b => s[a] < s[b]

\* What is kept of an increasing sequence increases.
LEMMA KeptIncreases ==
  ASSUME NEW s \in Seq(Nat), Increasing(s), NEW P
  PROVE  Increasing(Kept(s, P))
  <1>1. PICK f \in [0..Len(s) -> Seq(Nat)] : Collects(f, s, P, Len(s)) /\ Kept(s, P) = f[Len(s)]
    BY KeptCollects
  <1>2. Len(s) \in Nat /\ DOMAIN s = 1..Len(s) /\ \A i \in 1..Len(s) : s[i] \in Nat
    OBVIOUS
  <1> DEFINE Bounded(n) == \A i \in DOMAIN f[n] : \E j \in 1..n : f[n][i] = s[j]
             S == { n \in Nat : n <= Len(s) => Bounded(n) /\ Increasing(f[n]) }
  <1>3. 0 \in S
    <2>1. f[0] = << >> /\ DOMAIN << >> = {}
      BY <1>1 DEF Collects
    <2>2. Bounded(0) /\ Increasing(f[0])
      BY <2>1 DEF Increasing
    <2>3. QED
      BY <2>2
  <1>4. ASSUME NEW n \in Nat, n \in S PROVE n + 1 \in S
    <2>1. SUFFICES ASSUME n + 1 <= Len(s) PROVE Bounded(n + 1) /\ Increasing(f[n + 1])
      OBVIOUS
    <2>2. /\ Bounded(n) /\ Increasing(f[n]) /\ f[n] \in Seq(Nat)
          /\ s[n + 1] \in Nat /\ n + 1 \in 1..Len(s)
      BY <1>2, <1>4, <2>1
    <2>3. f[n + 1] = IF n + 1 \in P THEN Append(f[n], s[n + 1]) ELSE f[n]
      BY <1>1, <2>2 DEF Collects
    <2>4. 1..n \subseteq 1..(n + 1) /\ n + 1 \in 1..(n + 1)
      OBVIOUS
    <2>5. CASE n + 1 \notin P
      <3>1. f[n + 1] = f[n]
        BY <2>3, <2>5
      <3>2. QED
        BY <2>2, <2>4, <3>1
    <2>6. CASE n + 1 \in P
      <3>1. /\ DOMAIN f[n + 1] = 1..(Len(f[n]) + 1) /\ DOMAIN f[n] = 1..Len(f[n]) /\ Len(f[n]) \in Nat
            /\ \A i \in 1..Len(f[n]) : f[n + 1][i] = f[n][i]
            /\ f[n + 1][Len(f[n]) + 1] = s[n + 1]
        BY <2>2, <2>3, <2>6, AppendProperties, LenProperties
      <3>2. \A i \in DOMAIN f[n + 1] : i = Len(f[n]) + 1 \/ i \in DOMAIN f[n]
        BY <3>1
      <3>3. Bounded(n + 1)
        BY <2>2, <2>4, <3>1, <3>2
      <3>4. \A j \in 1..n : s[j] < s[n + 1]
        <4>1. \A j \in 1..n : j \in DOMAIN s /\ n + 1 \in DOMAIN s /\ j < n + 1
          BY <1>2, <2>1
        <4>2. QED
          BY <4>1 DEF Increasing
      <3>5. \A i \in DOMAIN f[n] : f[n][i] < s[n + 1]
        BY <2>2, <3>4
      <3> HIDE DEF Bounded
      <3>6. ASSUME NEW a \in DOMAIN f[n + 1], NEW b \in DOMAIN f[n + 1], a < b
            PROVE  f[n + 1][a] < f[n + 1][b]
        <4>1. a \in DOMAIN f[n]
          BY <3>1, <3>6
        <4>2. CASE b \in DOMAIN f[n]
          BY <2>2, <3>1, <3>6, <4>1, <4>2 DEF Increasing
        <4>3. CASE b = Len(f[n]) + 1
          BY <3>1, <3>5, <4>1, <4>3
        <4>4. QED
          BY <3>2, <4>2, <4>3
      <3>7. QED
        BY <3>3, <3>6 DEF Increasing
    <2>7. QED
      BY <2>5, <2>6
  <1>5. QED
    <2>1. Nat \subseteq S
      BY <1>3, <1>4, Induction
    <2>2. QED
      BY <1>1, <1>2, <2>1

\* The last part of a sequence, from a position on.
LEMMA TailElements ==
  ASSUME NEW T, NEW s \in Seq(T), NEW k \in Nat
  PROVE  /\ SubSeq(s, k + 1, Len(s)) \in Seq(T)
         /\ Len(SubSeq(s, k + 1, Len(s))) = (IF Len(s) <= k THEN 0 ELSE Len(s) - k)
         /\ \A i \in 1..Len(SubSeq(s, k + 1, Len(s))) :
              SubSeq(s, k + 1, Len(s))[i] = s[k + i] /\ k + i \in 1..Len(s)
  <1> DEFINE t == SubSeq(s, k + 1, Len(s))
  <1>0. Len(s) \in Nat /\ DOMAIN s = 1..Len(s) /\ \A i \in 1..Len(s) : s[i] \in T
    OBVIOUS
  <1>1. k + 1 \in Int /\ Len(s) \in Int /\ \A i \in (k + 1)..Len(s) : s[i] \in T
    BY <1>0
  <1>2. /\ t \in Seq(T)
        /\ Len(t) = (IF k + 1 <= Len(s) THEN Len(s) - (k + 1) + 1 ELSE 0)
        /\ \A i \in 1..(Len(s) - (k + 1) + 1) : t[i] = s[(k + 1) + i - 1]
    BY <1>1, SubSeqProperties
  <1> HIDE DEF t
  <1>3. Len(t) = IF Len(s) <= k THEN 0 ELSE Len(s) - k
    <2>1. CASE Len(s) <= k
      <3>1. ~(k + 1 <= Len(s))
        BY <1>0, <2>1
      <3>2. Len(t) = 0
        BY <1>2, <3>1
      <3>3. QED
        BY <2>1, <3>2
    <2>2. CASE ~(Len(s) <= k)
      <3>1. k + 1 <= Len(s) /\ Len(s) - (k + 1) + 1 = Len(s) - k
        BY <1>0, <2>2
      <3>2. QED
        BY <1>2, <2>2, <3>1
    <2>3. QED
      BY <2>1, <2>2
  <1>4. ASSUME NEW i \in 1..Len(t) PROVE t[i] = s[k + i] /\ k + i \in 1..Len(s)
    <2>1. Len(s) > k /\ i \in 1..(Len(s) - k)
      <3>1. CASE Len(s) <= k
        <4>1. Len(t) = 0
          BY <1>3, <3>1
        <4>2. QED
          BY <4>1
      <3>2. CASE ~(Len(s) <= k)
        BY <1>0, <1>3, <3>2
      <3>3. QED
        BY <3>1, <3>2
    <2>2. i \in 1..(Len(s) - (k + 1) + 1) /\ (k + 1) + i - 1 = k + i /\ k + i \in 1..Len(s)
      BY <1>0, <2>1
    <2>3. QED
      BY <1>2, <2>2
  <1>5. QED
    BY <1>2, <1>3, <1>4 DEF t

\* Keeping all that follows a position is cutting there.
LEMMA KeptTail ==
  ASSUME NEW T, NEW s \in Seq(T), NEW P, NEW k \in Nat, \A i \in DOMAIN s : i \in P <=> i > k
  PROVE  Kept(s, P) = SubSeq(s, k + 1, Len(s))
  <1>1. PICK f \in [0..Len(s) -> Seq(T)] : Collects(f, s, P, Len(s)) /\ Kept(s, P) = f[Len(s)]
    BY KeptCollects
  <1>2. Len(s) \in Nat /\ DOMAIN s = 1..Len(s) /\ \A i \in 1..Len(s) : s[i] \in T
    OBVIOUS
  <1> DEFINE Rest(n) == /\ Len(f[n]) = (IF n <= k THEN 0 ELSE n - k)
                        /\ \A i \in 1..Len(f[n]) : f[n][i] = s[k + i]
             S == { n \in Nat : n <= Len(s) => Rest(n) }
  <1>3. 0 \in S
    <2>1. f[0] = << >> /\ Len(<< >>) = 0
      BY <1>1 DEF Collects
    <2>2. Rest(0)
      BY <2>1
    <2>3. QED
      BY <2>2
  <1>4. ASSUME NEW n \in Nat, n \in S PROVE n + 1 \in S
    <2>1. SUFFICES ASSUME n + 1 <= Len(s) PROVE Rest(n + 1)
      OBVIOUS
    <2>2. Rest(n) /\ f[n] \in Seq(T) /\ s[n + 1] \in T /\ n + 1 \in 1..Len(s)
      BY <1>2, <1>4, <2>1
    <2>3. f[n + 1] = IF n + 1 \in P THEN Append(f[n], s[n + 1]) ELSE f[n]
      BY <1>1, <2>2 DEF Collects
    <2>4. CASE n + 1 <= k
      <3>1. f[n + 1] = f[n] /\ n <= k
        BY <2>3, <2>4
      <3>2. QED
        BY <2>2, <2>4, <3>1
    <2>5. CASE n + 1 > k
      <3>1. f[n + 1] = Append(f[n], s[n + 1])
        BY <1>2, <2>2, <2>3, <2>5
      <3>2. /\ Len(f[n + 1]) = Len(f[n]) + 1 /\ Len(f[n]) \in Nat
            /\ \A i \in 1..Len(f[n]) : f[n + 1][i] = f[n][i]
            /\ f[n + 1][Len(f[n]) + 1] = s[n + 1]
        BY <2>2, <3>1, AppendProperties, LenProperties
      <3>3. Len(f[n]) = n - k
        BY <2>2, <2>5
      <3>4. Len(f[n + 1]) = (n + 1) - k
        BY <3>2, <3>3
      <3>5. ASSUME NEW i \in 1..Len(f[n + 1]) PROVE f[n + 1][i] = s[k + i]
        <4>1. CASE i \in 1..Len(f[n])
          BY <2>2, <3>2, <4>1
        <4>2. CASE i = Len(f[n]) + 1
          <5>1. k + i = n + 1
            BY <3>3, <4>2
          <5>2. QED
            BY <3>2, <4>2, <5>1
        <4>3. QED
          BY <3>2, <4>1, <4>2
      <3>6. QED
        BY <2>5, <3>4, <3>5
    <2>6. QED
      BY <2>4, <2>5
  <1>5. Rest(Len(s))
    <2>1. Nat \subseteq S
      BY <1>3, <1>4, Induction
    <2>2. Len(s) \in S
      BY <1>2, <2>1
    <2> HIDE DEF Rest
    <2>3. QED
      BY <1>2, <2>2
  <1> DEFINE t == SubSeq(s, k + 1, Len(s))
  <1>6. /\ t \in Seq(T) /\ Len(t) = (IF Len(s) <= k THEN 0 ELSE Len(s) - k)
        /\ \A i \in 1..Len(t) : t[i] = s[k + i]
    BY TailElements
  <1> HIDE DEF t
  <1>7. f[Len(s)] = t
    <2>1. f[Len(s)] \in Seq(T)
      BY <1>2
    <2>2. Len(f[Len(s)]) = Len(t)
      BY <1>5, <1>6
    <2>3. \A i \in 1..Len(t) : f[Len(s)][i] = t[i]
      BY <1>5, <1>6, <2>2
    <2>4. QED
      BY <1>6, <2>1, <2>2, <2>3, SeqEqual
  <1>8. QED
    BY <1>1, <1>7 DEF t

-----------------------------------------------------------------------------
(* Requests that pass every check.                                         *)

\* Where no check refuses, every check passed.
LEMMA FirstOk ==
  ASSUME NEW s, DOMAIN s \subseteq Nat, First(s) = Ok, NEW n \in DOMAIN s
  PROVE  s[n] = Ok
  <1> SUFFICES ASSUME s[n] # Ok PROVE FALSE
    OBVIOUS
  <1> DEFINE refusals == { i \in DOMAIN s : s[i] # Ok }
             least == CHOOSE i \in refusals : \A k \in refusals : i <= k
  <1>1. \E i \in refusals : \A k \in refusals : i <= k
    BY LeastNatural
  <1>2. least \in refusals
    BY <1>1
  <1>3. First(s) = s[least]
    BY DEF First
  <1>4. QED
    BY <1>2, <1>3

\* A request that reaches the handler of its method names an active session, or none, which a
\* DELETE may not.
LEMMA ServedSession ==
  ASSUME NEW r \in Requests, Status(options, sessions, r) = Ok
  PROVE  /\ r.session \in Keys
         /\ r.session \in Sessions => sessions[r.session].state = "active"
         /\ r.method = "DELETE" => r.session \in Sessions
  <1>1. ValidateServerRequest(options, sessions, r) = Ok
    <2> DEFINE s == << RouteStatus(options, r), BodyStatus(r), ValidateServerRequest(options, sessions, r),
                       AuthorizeRequest(options, r) >>
    <2>1. First(s) = Ok
      BY DEF Status
    <2>2. DOMAIN s = 1..4 /\ s[3] = ValidateServerRequest(options, sessions, r)
      OBVIOUS
    <2> HIDE DEF s
    <2>3. QED
      BY <2>1, <2>2, FirstOk
  <1>2. SessionStatus(options, sessions, r) = Ok
    <2> DEFINE s == << OriginStatus(options, r), SessionStatus(options, sessions, r), VersionStatus(sessions, r) >>
    <2>1. First(s) = Ok
      BY <1>1 DEF ValidateServerRequest
    <2>2. DOMAIN s = 1..3 /\ s[2] = SessionStatus(options, sessions, r)
      OBVIOUS
    <2> HIDE DEF s
    <2>3. QED
      BY <2>1, <2>2, FirstOk
  <1> DEFINE initialize == r.method = "POST" /\ r.body = "initialize"
             required == r.method = "DELETE" \/ options.requireSessionId
  <1>3. /\ Check(r.session # BadSession, 400) = Ok
        /\ Check(r.session = NoSession => ~required \/ initialize, 400) = Ok
        /\ Check(r.session \in Sessions => sessions[r.session].state = "active", 404) = Ok
    <2> DEFINE s == << Check(r.session # BadSession, 400),
                       Check(r.session = NoSession => ~required \/ initialize, 400),
                       Check(r.session \in Sessions => sessions[r.session].state = "active", 404) >>
    <2>1. First(s) = Ok
      BY <1>2 DEF SessionStatus
    <2>2. /\ DOMAIN s = 1..3 /\ s[1] = Check(r.session # BadSession, 400)
          /\ s[2] = Check(r.session = NoSession => ~required \/ initialize, 400)
          /\ s[3] = Check(r.session \in Sessions => sessions[r.session].state = "active", 404)
      OBVIOUS
    <2> HIDE DEF s, initialize, required
    <2>3. QED
      BY <2>1, <2>2, FirstOk
  <1>4. r.session # BadSession /\ (r.session \in Sessions => sessions[r.session].state = "active")
        /\ (r.session = NoSession => ~required \/ initialize)
    BY <1>3 DEF Check, Ok
  <1>5. r.session \in Keys /\ (r.session # NoSession => r.session \in Sessions)
    BY <1>4, HttpServerAssumption DEF Request, Keys
  <1>6. r.method = "DELETE" => r.session # NoSession
    BY <1>4
  <1>7. QED
    BY <1>4, <1>5, <1>6

-----------------------------------------------------------------------------
(* Buffers.                                                                *)

Event(M) == [ cursor : Nat, message : M ]

At(cursor, message) == [ cursor |-> cursor, message |-> message ]

\* What WithEvents appends to the events of a buffer, and what trimming is then applied to.
Added(next, messages) ==
  [n \in DOMAIN messages |-> [cursor |-> next + n - 1, message |-> messages[n]]]
Extended(events, next, messages) == events \o Added(next, messages)

\* The cursors of some events have no gap and end below the next one.
NoGap(events, next) ==
  /\ Len(events) < next
  /\ \A i \in 1..Len(events) : events[i].cursor = next - 1 - Len(events) + i

\* Trimming leaves the last events of a sequence, and of a sequence that is not empty at least one.
LEMMA TrimmedIsTail ==
  ASSUME NEW T, NEW all \in Seq(T), options.maxSseBufferedMessages \in Nat \ {0}
  PROVE  /\ Trimmed(all) \in Seq(T) /\ Len(Trimmed(all)) <= Len(all)
         /\ Len(all) > 0 => Len(Trimmed(all)) > 0
         /\ \A i \in 1..Len(Trimmed(all)) : Trimmed(all)[i] = all[Len(all) - Len(Trimmed(all)) + i]
  <1> DEFINE cap == options.maxSseBufferedMessages
             from == Len(all) - cap + 1
             tail == SubSeq(all, from, Len(all))
  <1>1. Len(all) \in Nat /\ DOMAIN all = 1..Len(all) /\ \A i \in 1..Len(all) : all[i] \in T
    OBVIOUS
  <1> HIDE DEF cap
  <1>2. cap \in Nat \ {0}
    BY DEF cap
  <1>3. CASE Len(all) <= cap
    <2>1. Trimmed(all) = all
      BY <1>3 DEF Trimmed, cap
    <2>2. QED
      BY <1>1, <2>1
  <1>4. CASE ~(Len(all) <= cap)
    <2>1. Trimmed(all) = tail
      BY <1>4 DEF Trimmed, cap
    <2>2. from \in Int /\ Len(all) \in Int /\ \A i \in from..Len(all) : all[i] \in T
      BY <1>1, <1>2, <1>4
    <2>3. /\ tail \in Seq(T)
          /\ Len(tail) = (IF from <= Len(all) THEN Len(all) - from + 1 ELSE 0)
          /\ \A i \in 1..(Len(all) - from + 1) : tail[i] = all[from + i - 1]
      BY <2>2, SubSeqProperties
    <2> HIDE DEF tail
    <2>4. from <= Len(all) /\ Len(all) - from + 1 = cap
      BY <1>1, <1>2
    <2>5. Len(tail) = cap
      BY <2>3, <2>4
    <2>6. ASSUME NEW i \in 1..cap PROVE tail[i] = all[Len(all) - cap + i]
      <3>1. from + i - 1 = Len(all) - cap + i
        BY <1>1, <1>2
      <3>2. QED
        BY <2>3, <2>4, <3>1
    <2>7. Len(tail) <= Len(all) /\ Len(tail) > 0
      BY <1>1, <1>2, <1>4, <2>5
    <2>8. tail \in Seq(T) /\ \A i \in 1..Len(tail) : tail[i] = all[Len(all) - Len(tail) + i]
      BY <2>3, <2>5, <2>6
    <2>9. QED
      BY <2>1, <2>7, <2>8
  <1>5. QED
    BY <1>3, <1>4

\* The events with those that are added.
Extends(all, M, events, next, messages) ==
  /\ all \in Seq(Event(M)) /\ Len(all) = Len(events) + Len(messages)
  /\ \A i \in 1..Len(events) : all[i] = events[i]
  /\ \A i \in 1..Len(messages) : all[Len(events) + i] = At(next + i - 1, messages[i])

\* That is what Extended gives.
LEMMA AllEvents ==
  ASSUME NEW M, NEW events \in Seq(Event(M)), NEW next \in Nat \ {0}, NEW messages \in Seq(M)
  PROVE  Extends(Extended(events, next, messages), M, events, next, messages)
  <1> DEFINE added == Added(next, messages)
             all == events \o added
  <1>1. /\ Len(messages) \in Nat /\ DOMAIN messages = 1..Len(messages)
        /\ \A i \in 1..Len(messages) : messages[i] \in M
    OBVIOUS
  <1>2. \A i \in 1..Len(messages) : At(next + i - 1, messages[i]) \in Event(M)
    BY <1>1 DEF Event, At
  <1>3. /\ added \in Seq(Event(M)) /\ Len(added) = Len(messages)
        /\ \A i \in 1..Len(messages) : added[i] = At(next + i - 1, messages[i])
    <2>1. added = [i \in 1..Len(messages) |-> At(next + i - 1, messages[i])]
      BY <1>1 DEF Added, At
    <2> HIDE DEF added
    <2>2. QED
      BY <1>1, <1>2, <2>1
  <1> HIDE DEF added
  <1>4. /\ all \in Seq(Event(M)) /\ Len(all) = Len(events) + Len(added)
        /\ \A i \in 1..(Len(events) + Len(added)) :
             all[i] = IF i <= Len(events) THEN events[i] ELSE added[i - Len(events)]
    BY <1>3, ConcatProperties
  <1> HIDE DEF all
  <1>5. Len(events) \in Nat /\ Len(all) = Len(events) + Len(messages)
    BY <1>3, <1>4
  <1>6. ASSUME NEW i \in 1..Len(events) PROVE all[i] = events[i]
    <2>1. i \in 1..(Len(events) + Len(added)) /\ i <= Len(events)
      BY <1>1, <1>3, <1>5
    <2>2. QED
      BY <1>4, <2>1
  <1>7. ASSUME NEW i \in 1..Len(messages)
        PROVE  all[Len(events) + i] = At(next + i - 1, messages[i])
    <2>1. /\ Len(events) + i \in 1..(Len(events) + Len(added)) /\ ~(Len(events) + i <= Len(events))
          /\ (Len(events) + i) - Len(events) = i
      BY <1>1, <1>3, <1>5
    <2>2. QED
      BY <1>3, <1>4, <2>1
  <1>8. all = Extended(events, next, messages)
    BY DEF all, added, Extended
  <1>9. QED
    BY <1>4, <1>5, <1>6, <1>7, <1>8 DEF Extends

\* What becomes of events when messages are added: the cursors go on, and each event is one of
\* those or one of these.
GoesOn(new, M, events, next, messages) ==
  /\ new \in Seq(Event(M))
  /\ NoGap(new, next + Len(messages))
  /\ Len(messages) > 0 \/ Len(events) > 0 => Len(new) > 0
  /\ \A i \in 1..Len(new) :
       \/ \E j \in 1..Len(events) : new[i] = events[j]
       \/ \E j \in 1..Len(messages) : new[i] = At(next + j - 1, messages[j])

\* What WithEvents makes of the events of a buffer without gaps.
LEMMA EventsAfter ==
  ASSUME NEW M, NEW events \in Seq(Event(M)), NEW next \in Nat \ {0}, NEW messages \in Seq(M),
         NoGap(events, next), options.maxSseBufferedMessages \in Nat \ {0}
  PROVE  GoesOn(Trimmed(Extended(events, next, messages)), M, events, next, messages)
  <1> DEFINE all == Extended(events, next, messages)
             new == Trimmed(all)
             Old(event) == \E j \in 1..Len(events) : event = events[j]
             New(event) == \E j \in 1..Len(messages) : event = At(next + j - 1, messages[j])
  <1> HIDE DEF new, Old, New
  <1>1. /\ all \in Seq(Event(M)) /\ Len(all) = Len(events) + Len(messages)
        /\ \A i \in 1..Len(events) : all[i] = events[i]
        /\ \A i \in 1..Len(messages) : all[Len(events) + i] = At(next + i - 1, messages[i])
    <2>1. Extends(all, M, events, next, messages)
      BY AllEvents
    <2> HIDE DEF all
    <2>2. QED
      BY <2>1 DEF Extends
  <1> HIDE DEF all
  <1>2. /\ new \in Seq(Event(M)) /\ Len(new) <= Len(all) /\ (Len(all) > 0 => Len(new) > 0)
        /\ \A i \in 1..Len(new) : new[i] = all[Len(all) - Len(new) + i]
    BY <1>1, TrimmedIsTail DEF new
  <1>3. Len(events) \in Nat /\ Len(messages) \in Nat /\ Len(new) \in Nat
    BY <1>2
  <1>4. ASSUME NEW k \in 1..Len(all)
        PROVE  all[k].cursor = next - 1 - Len(events) + k /\ (Old(all[k]) \/ New(all[k]))
    <2>1. CASE k <= Len(events)
      <3>1. k \in 1..Len(events) /\ all[k] = events[k]
        BY <1>1, <1>3, <2>1
      <3>2. events[k].cursor = next - 1 - Len(events) + k
        BY <3>1 DEF NoGap
      <3>3. QED
        BY <3>1, <3>2 DEF Old
    <2>2. CASE ~(k <= Len(events))
      <3>1. PICK j \in 1..Len(messages) : k = Len(events) + j
        <4>1. k - Len(events) \in 1..Len(messages) /\ k = Len(events) + (k - Len(events))
          BY <1>1, <1>3, <2>2
        <4>2. QED
          BY <4>1
      <3>2. all[k] = At(next + j - 1, messages[j])
        BY <1>1, <3>1
      <3>3. all[k].cursor = next + j - 1
        BY <3>2 DEF At
      <3>4. next + j - 1 = next - 1 - Len(events) + k
        BY <1>3, <3>1
      <3>5. QED
        BY <3>2, <3>3, <3>4 DEF New
    <2>3. QED
      BY <2>1, <2>2
  <1>5. ASSUME NEW i \in 1..Len(new)
        PROVE  /\ new[i].cursor = next + Len(messages) - 1 - Len(new) + i
               /\ Old(new[i]) \/ New(new[i])
    <2>1. PICK k \in 1..Len(all) : k = Len(all) - Len(new) + i
      <3>1. Len(all) \in Nat /\ Len(new) <= Len(all)
        BY <1>1, <1>2, <1>3
      <3>2. Len(all) - Len(new) + i \in 1..Len(all)
        BY <1>3, <3>1
      <3>3. QED
        BY <3>2
    <2>2. new[i] = all[k]
      BY <1>2, <2>1
    <2>3. all[k].cursor = next - 1 - Len(events) + k
      BY <1>4
    <2>4. next - 1 - Len(events) + k = next + Len(messages) - 1 - Len(new) + i
      <3>1. Len(all) = Len(events) + Len(messages)
        BY <1>1
      <3>2. QED
        BY <1>3, <2>1, <3>1
    <2>5. Old(all[k]) \/ New(all[k])
      BY <1>4
    <2>6. QED
      BY <2>2, <2>3, <2>4, <2>5
  <1>6. Len(new) < next + Len(messages) /\ (Len(messages) > 0 \/ Len(events) > 0 => Len(new) > 0)
    <2>1. Len(all) = Len(events) + Len(messages) /\ Len(new) <= Len(all) /\ (Len(all) > 0 => Len(new) > 0)
      BY <1>1, <1>2
    <2>2. Len(events) < next
      BY DEF NoGap
    <2>3. QED
      BY <1>3, <2>1, <2>2
  <1>7. NoGap(new, next + Len(messages))
    BY <1>5, <1>6 DEF NoGap
  <1>8. \A i \in 1..Len(new) :
          \/ \E j \in 1..Len(events) : new[i] = events[j]
          \/ \E j \in 1..Len(messages) : new[i] = At(next + j - 1, messages[j])
    BY <1>5 DEF Old, New
  <1>9. new = Trimmed(Extended(events, next, messages))
    BY DEF new, all
  <1>10. QED
    BY <1>2, <1>6, <1>7, <1>8, <1>9 DEF GoesOn

\* What WithEvents changes in a buffer, or in a stream.
LEMMA WithEventsExcept ==
  ASSUME NEW buffer, NEW messages
  PROVE  WithEvents(buffer, messages) =
           [buffer EXCEPT !.nextCursor = buffer.nextCursor + Len(messages),
                          !.events = Trimmed(Extended(buffer.events, buffer.nextCursor, messages))]
  BY Zenon DEF WithEvents, Added, Extended

\* What is known of a buffer: a server's record whose cursors have no gap.
GoodBuffer(buffer) ==
  buffer \in Buffer /\ buffer.nextCursor # 0 /\ NoGap(buffer.events, buffer.nextCursor)

\* A message some events hold.
Holds(events, message) == \E i \in 1..Len(events) : events[i].message = message

\* A buffer without gaps has none after WithEvents, and holds what it held and what was added.
LEMMA BufferAfter ==
  ASSUME NEW buffer, GoodBuffer(buffer), NEW messages \in Seq(1..MaxMessages),
         options.maxSseBufferedMessages \in Nat \ {0}
  PROVE  \E new : /\ new = WithEvents(buffer, messages) /\ GoodBuffer(new)
                  /\ \A n : Holds(new.events, n) => Holds(buffer.events, n) \/ n \in ToSet(messages)
  <1> DEFINE D == {"nextCursor", "events"}
             M == 1..MaxMessages
  <1>1. /\ buffer.nextCursor \in Nat \ {0} /\ buffer.events \in Seq(Event(M))
        /\ buffer = [d \in D |-> buffer[d]] /\ NoGap(buffer.events, buffer.nextCursor)
    BY DEF GoodBuffer, Buffer, Event
  <1>2. PICK events, next : events = buffer.events /\ next = buffer.nextCursor
    OBVIOUS
  <1>3. PICK new : /\ new = WithEvents(buffer, messages) /\ new = [d \in D |-> new[d]]
                   /\ new.nextCursor = next + Len(messages)
                   /\ new.events = Trimmed(Extended(events, next, messages))
    <2> DEFINE cursor == buffer.nextCursor + Len(messages)
               trimmed == Trimmed(Extended(buffer.events, buffer.nextCursor, messages))
               made == WithEvents(buffer, messages)
    <2>1. made = [buffer EXCEPT !.nextCursor = cursor, !.events = trimmed]
      BY WithEventsExcept
    <2>2. cursor = next + Len(messages) /\ trimmed = Trimmed(Extended(events, next, messages))
      BY <1>2
    <2>3. made = WithEvents(buffer, messages)
      OBVIOUS
    <2> HIDE DEF cursor, trimmed, made
    <2>4. QED
      BY <1>1, <2>1, <2>2, <2>3
  <1>4. events \in Seq(Event(M)) /\ messages \in Seq(M) /\ next \in Nat \ {0} /\ NoGap(events, next)
    BY <1>1, <1>2
  <1>5. PICK after \in Seq(Event(M)) :
          /\ after = Trimmed(Extended(events, next, messages))
          /\ NoGap(after, next + Len(messages))
          /\ \A i \in 1..Len(after) :
               \/ \E j \in 1..Len(events) : after[i] = events[j]
               \/ \E j \in 1..Len(messages) : after[i] = At(next + j - 1, messages[j])
    <2> HIDE DEF M
    <2> DEFINE trimmed == Trimmed(Extended(events, next, messages))
    <2>1. GoesOn(trimmed, M, events, next, messages)
      BY <1>4, EventsAfter
    <2>2. trimmed = Trimmed(Extended(events, next, messages))
      OBVIOUS
    <2> HIDE DEF trimmed
    <2>3. QED
      BY <2>1, <2>2 DEF GoesOn
  <1>6. new.events = after
    BY <1>3, <1>5
  <1>7. new.nextCursor \in Nat \ {0}
    BY <1>3, <1>4
  <1>8. GoodBuffer(new)
    <2>1. new \in Buffer
      BY <1>3, <1>5, <1>6, <1>7 DEF Buffer, Event
    <2>2. QED
      BY <1>3, <1>5, <1>6, <1>7, <2>1 DEF GoodBuffer
  <1>9. ASSUME NEW n, Holds(new.events, n) PROVE Holds(buffer.events, n) \/ n \in ToSet(messages)
    <2>1. PICK i \in 1..Len(after) : after[i].message = n
      BY <1>6, <1>9 DEF Holds
    <2>2. CASE \E j \in 1..Len(events) : after[i] = events[j]
      BY <1>2, <2>1, <2>2 DEF Holds
    <2>3. ASSUME NEW j \in 1..Len(messages), after[i] = At(next + j - 1, messages[j])
          PROVE  n \in ToSet(messages)
      <3>1. n = messages[j] /\ j \in DOMAIN messages
        BY <2>1, <2>3 DEF At
      <3>2. QED
        BY <3>1 DEF ToSet
    <2>4. QED
      BY <1>5, <2>2, <2>3
  <1>10. QED
    BY <1>3, <1>8, <1>9

\* The events of a stream are the last part of its log, at the cursors that count it.
Mirrors(stream, log) ==
  /\ stream.nextCursor = Len(log) + 1
  /\ Len(stream.events) <= Len(log)
  /\ Len(log) > 0 => Len(stream.events) > 0
  /\ \A i \in 1..Len(stream.events) :
       /\ stream.events[i].cursor = Len(log) - Len(stream.events) + i
       /\ stream.events[i].message = log[stream.events[i].cursor]

\* A stream whose events are those of its log.
GoodStream(stream, log) ==
  stream \in Stream /\ log \in Seq(0..MaxMessages) /\ Mirrors(stream, log)

\* What is written to a stream is added to its log.
LEMMA StreamAfter ==
  ASSUME NEW stream, NEW log, GoodStream(stream, log), NEW messages \in Seq(0..MaxMessages),
         options.maxSseBufferedMessages \in Nat \ {0}
  PROVE  \E new : /\ new = WithEvents(stream, messages)
                  /\ GoodStream(new, log \o messages)
                  /\ \A d \in {"session", "kind", "terminated", "aged"} : new[d] = stream[d]
  <1> DEFINE D == {"session", "kind", "nextCursor", "terminated", "aged", "events"}
             M == 0..MaxMessages
             longer == log \o messages
  <1>1. /\ stream.nextCursor \in Nat /\ stream.events \in Seq(Event(M)) /\ stream = [d \in D |-> stream[d]]
        /\ log \in Seq(M) /\ Mirrors(stream, log)
    BY DEF GoodStream, Stream, Event
  <1>2. PICK events, next : events = stream.events /\ next = stream.nextCursor
    OBVIOUS
  <1>3. PICK new : /\ new = WithEvents(stream, messages) /\ new = [d \in D |-> new[d]]
                   /\ new.nextCursor = next + Len(messages)
                   /\ new.events = Trimmed(Extended(events, next, messages))
                   /\ \A d \in D \ {"nextCursor", "events"} : new[d] = stream[d]
    <2> DEFINE cursor == stream.nextCursor + Len(messages)
               trimmed == Trimmed(Extended(stream.events, stream.nextCursor, messages))
               made == WithEvents(stream, messages)
    <2>1. made = [stream EXCEPT !.nextCursor = cursor, !.events = trimmed]
      BY WithEventsExcept
    <2>2. cursor = next + Len(messages) /\ trimmed = Trimmed(Extended(events, next, messages))
      BY <1>2
    <2>3. made = WithEvents(stream, messages)
      OBVIOUS
    <2> HIDE DEF cursor, trimmed, made
    <2>4. /\ made = [d \in D |-> made[d]] /\ made.nextCursor = cursor /\ made.events = trimmed
          /\ \A d \in D \ {"nextCursor", "events"} : made[d] = stream[d]
      BY <1>1, <2>1
    <2>5. QED
      BY <2>2, <2>3, <2>4
  <1>4. /\ Len(log) \in Nat /\ Len(messages) \in Nat /\ next = Len(log) + 1 /\ Len(events) <= Len(log)
        /\ \A i \in 1..Len(events) :
             events[i].cursor = Len(log) - Len(events) + i /\ events[i].message = log[events[i].cursor]
    BY <1>1, <1>2 DEF Mirrors
  <1>5. events \in Seq(Event(M)) /\ messages \in Seq(M) /\ next \in Nat \ {0} /\ NoGap(events, next)
    <2>1. Len(events) \in Nat
      BY <1>1, <1>2
    <2>2. NoGap(events, next)
      BY <1>4, <2>1 DEF NoGap
    <2>3. QED
      BY <1>1, <1>2, <1>4, <2>2
  <1>6. PICK after \in Seq(Event(M)) :
          /\ after = Trimmed(Extended(events, next, messages))
          /\ NoGap(after, next + Len(messages))
          /\ Len(messages) > 0 \/ Len(events) > 0 => Len(after) > 0
          /\ \A i \in 1..Len(after) :
               \/ \E j \in 1..Len(events) : after[i] = events[j]
               \/ \E j \in 1..Len(messages) : after[i] = At(next + j - 1, messages[j])
    <2> HIDE DEF M
    <2> DEFINE trimmed == Trimmed(Extended(events, next, messages))
    <2>1. GoesOn(trimmed, M, events, next, messages)
      BY <1>5, EventsAfter
    <2>2. trimmed = Trimmed(Extended(events, next, messages))
      OBVIOUS
    <2> HIDE DEF trimmed
    <2>3. QED
      BY <2>1, <2>2 DEF GoesOn
  <1>7. /\ longer \in Seq(M) /\ Len(longer) = Len(log) + Len(messages)
        /\ \A i \in 1..(Len(log) + Len(messages)) :
             longer[i] = IF i <= Len(log) THEN log[i] ELSE messages[i - Len(log)]
    BY <1>1, ConcatProperties
  <1> HIDE DEF longer
  <1>8. new.events = after /\ Len(after) \in Nat
    BY <1>3, <1>6
  <1>9. ASSUME NEW i \in 1..Len(after) PROVE after[i].message = longer[after[i].cursor]
    <2>1. ASSUME NEW j \in 1..Len(events), after[i] = events[j]
          PROVE  after[i].message = longer[after[i].cursor]
      <3>1. PICK c : c = events[j].cursor
        OBVIOUS
      <3>2. c \in 1..Len(log) /\ events[j].message = log[c]
        BY <1>4, <3>1
      <3>3. c \in 1..(Len(log) + Len(messages)) /\ c <= Len(log)
        BY <1>4, <3>2
      <3>4. longer[c] = log[c]
        BY <1>7, <3>3
      <3>5. QED
        BY <2>1, <3>1, <3>2, <3>4
    <2>2. ASSUME NEW j \in 1..Len(messages), after[i] = At(next + j - 1, messages[j])
          PROVE  after[i].message = longer[after[i].cursor]
      <3>1. PICK c : c = Len(log) + j
        OBVIOUS
      <3>2. after[i].cursor = c /\ after[i].message = messages[j]
        <4>1. next + j - 1 = c
          BY <1>4, <3>1
        <4>2. QED
          BY <2>2, <4>1 DEF At
      <3>3. c \in 1..(Len(log) + Len(messages)) /\ ~(c <= Len(log)) /\ c - Len(log) = j
        BY <1>4, <3>1
      <3>4. longer[c] = messages[j]
        BY <1>7, <3>3
      <3>5. QED
        BY <3>2, <3>4
    <2>3. QED
      BY <1>6, <2>1, <2>2
  <1>10. Mirrors(new, longer)
    <2>1. new.nextCursor = Len(longer) + 1
      BY <1>3, <1>4, <1>7
    <2>2. Len(after) <= Len(longer)
      BY <1>4, <1>6, <1>7, <1>8 DEF NoGap
    <2>3. Len(longer) > 0 => Len(after) > 0
      <3>1. Len(log) > 0 => Len(events) > 0
        BY <1>1, <1>2 DEF Mirrors
      <3>2. QED
        BY <1>4, <1>5, <1>6, <1>7, <3>1
    <2>4. ASSUME NEW i \in 1..Len(after) PROVE after[i].cursor = Len(longer) - Len(after) + i
      <3>1. after[i].cursor = (next + Len(messages)) - 1 - Len(after) + i
        BY <1>6 DEF NoGap
      <3>2. QED
        BY <1>4, <1>7, <1>8, <3>1
    <2>5. QED
      BY <1>8, <1>9, <2>1, <2>2, <2>3, <2>4 DEF Mirrors
  <1>11. new \in Stream
    <2>1. new.nextCursor \in Nat
      BY <1>3, <1>4
    <2>2. new.session = stream.session /\ new.kind = stream.kind
          /\ new.terminated = stream.terminated /\ new.aged = stream.aged
      BY <1>3
    <2>3. stream \in Stream
      BY DEF GoodStream
    <2>4. QED
      BY <1>3, <1>6, <1>8, <2>1, <2>2, <2>3 DEF Stream, Event
  <1>12. \A d \in {"session", "kind", "terminated", "aged"} : new[d] = stream[d]
    BY <1>3
  <1>13. GoodStream(new, log \o messages)
    BY <1>7, <1>10, <1>11 DEF GoodStream, longer
  <1>14. QED
    BY <1>3, <1>12, <1>13

-----------------------------------------------------------------------------
(* Sequences of numbers, and the helpers of the actions.                   *)

\* Two sequences, one after the other.
LEMMA ConcatElements ==
  ASSUME NEW T, NEW s \in Seq(T), NEW t \in Seq(T)
  PROVE  /\ s \o t \in Seq(T) /\ Len(s \o t) = Len(s) + Len(t)
         /\ \A i \in DOMAIN s : i \in DOMAIN (s \o t) /\ (s \o t)[i] = s[i]
         /\ \A i \in DOMAIN t : Len(s) + i \in DOMAIN (s \o t) /\ (s \o t)[Len(s) + i] = t[i]
         /\ \A i \in DOMAIN (s \o t) : i \in DOMAIN s \/ \E j \in DOMAIN t : i = Len(s) + j
         /\ ToSet(s \o t) = ToSet(s) \cup ToSet(t)
  <1> DEFINE u == s \o t
  <1>1. /\ u \in Seq(T) /\ Len(u) = Len(s) + Len(t)
        /\ \A i \in 1..(Len(s) + Len(t)) : u[i] = IF i <= Len(s) THEN s[i] ELSE t[i - Len(s)]
    BY ConcatProperties
  <1> HIDE DEF u
  <1>2. /\ Len(s) \in Nat /\ Len(t) \in Nat /\ DOMAIN s = 1..Len(s) /\ DOMAIN t = 1..Len(t)
        /\ DOMAIN u = 1..(Len(s) + Len(t))
    BY <1>1
  <1>3. ASSUME NEW i \in DOMAIN s PROVE i \in DOMAIN u /\ u[i] = s[i]
    <2>1. i \in 1..(Len(s) + Len(t)) /\ i <= Len(s)
      BY <1>2
    <2>2. QED
      BY <1>1, <1>2, <2>1
  <1>4. ASSUME NEW i \in DOMAIN t PROVE Len(s) + i \in DOMAIN u /\ u[Len(s) + i] = t[i]
    <2>1. Len(s) + i \in 1..(Len(s) + Len(t)) /\ ~(Len(s) + i <= Len(s)) /\ (Len(s) + i) - Len(s) = i
      BY <1>2
    <2>2. QED
      BY <1>1, <1>2, <2>1
  <1>5. ASSUME NEW i \in DOMAIN u PROVE i \in DOMAIN s \/ \E j \in DOMAIN t : i = Len(s) + j
    <2>1. CASE i <= Len(s)
      BY <1>2, <2>1
    <2>2. CASE ~(i <= Len(s))
      <3>1. i - Len(s) \in DOMAIN t /\ i = Len(s) + (i - Len(s))
        BY <1>2, <2>2
      <3>2. QED
        BY <3>1
    <2>3. QED
      BY <2>1, <2>2
  <1>6. ToSet(u) = ToSet(s) \cup ToSet(t)
    <2>1. ASSUME NEW x \in ToSet(u) PROVE x \in ToSet(s) \cup ToSet(t)
      <3>1. PICK i \in DOMAIN u : x = u[i]
        BY <2>1 DEF ToSet
      <3>2. CASE i \in DOMAIN s
        BY <1>3, <3>1, <3>2 DEF ToSet
      <3>3. ASSUME NEW j \in DOMAIN t, i = Len(s) + j PROVE x \in ToSet(t)
        BY <1>4, <3>1, <3>3 DEF ToSet
      <3>4. QED
        BY <1>5, <3>2, <3>3
    <2>2. ASSUME NEW x \in ToSet(s) PROVE x \in ToSet(u)
      BY <1>3, <2>2 DEF ToSet
    <2>3. ASSUME NEW x \in ToSet(t) PROVE x \in ToSet(u)
      BY <1>4, <2>3 DEF ToSet
    <2>4. QED
      BY <2>1, <2>2, <2>3
  <1>7. QED
    BY <1>1, <1>3, <1>4, <1>5, <1>6 DEF u

\* Numbers that increase and are larger than all before them.
LEMMA IncreasingAfter ==
  ASSUME NEW s \in Seq(Nat), NEW t \in Seq(Nat), Increasing(s), Increasing(t),
         \A a \in ToSet(s), b \in ToSet(t) : a < b
  PROVE  Increasing(s \o t)
  <1> DEFINE u == s \o t
  <1>1. /\ \A i \in DOMAIN s : i \in DOMAIN u /\ u[i] = s[i]
        /\ \A i \in DOMAIN t : Len(s) + i \in DOMAIN u /\ u[Len(s) + i] = t[i]
        /\ \A i \in DOMAIN u : i \in DOMAIN s \/ \E j \in DOMAIN t : i = Len(s) + j
    BY ConcatElements
  <1> HIDE DEF u
  <1>2. Len(s) \in Nat /\ Len(t) \in Nat /\ DOMAIN s = 1..Len(s) /\ DOMAIN t = 1..Len(t)
    OBVIOUS
  <1>3. ASSUME NEW a \in DOMAIN u, NEW b \in DOMAIN u, a < b PROVE u[a] < u[b]
    <2>1. CASE a \in DOMAIN s /\ b \in DOMAIN s
      BY <1>1, <1>3, <2>1 DEF Increasing
    <2>2. ASSUME a \in DOMAIN s, NEW j \in DOMAIN t, b = Len(s) + j PROVE u[a] < u[b]
      <3>1. u[a] = s[a] /\ u[b] = t[j] /\ s[a] \in ToSet(s) /\ t[j] \in ToSet(t)
        BY <1>1, <2>2 DEF ToSet
      <3>2. QED
        BY <3>1
    <2>3. ASSUME NEW i \in DOMAIN t, a = Len(s) + i, b \in DOMAIN s PROVE FALSE
      BY <1>2, <1>3, <2>3
    <2>4. ASSUME NEW i \in DOMAIN t, a = Len(s) + i, NEW j \in DOMAIN t, b = Len(s) + j PROVE u[a] < u[b]
      <3>1. i < j
        BY <1>2, <1>3, <2>4
      <3>2. t[i] < t[j]
        BY <3>1 DEF Increasing
      <3>3. QED
        BY <1>1, <2>4, <3>2
    <2>5. QED
      BY <1>1, <2>1, <2>2, <2>3, <2>4
  <1>4. QED
    BY <1>3 DEF Increasing, u

\* The part of some messages that precedes the first too large one is a part of them.
LEMMA BeforeOversizeBounds ==
  ASSUME NEW sizes \in Seq(Sizes)
  PROVE  BeforeOversize(sizes) \in 0..Len(sizes)
  <1> DEFINE Ends(n) == n < Len(sizes) => sizes[n + 1] = "oversize"
             S == { n \in 0..Len(sizes) : Ends(n) }
  <1>1. Len(sizes) \in Nat /\ \A i \in 1..Len(sizes) : sizes[i] \in Sizes
    OBVIOUS
  <1>2. Len(sizes) \in S
    BY <1>1
  <1>3. PICK n \in S : \A m \in S : n <= m
    <2>1. S \subseteq Nat /\ S # {}
      BY <1>1, <1>2
    <2> HIDE DEF S
    <2>2. QED
      BY <2>1, LeastNatural
  <1>4. ASSUME NEW k \in 1..n PROVE sizes[k] = "fits"
    <2>1. k - 1 \in 0..Len(sizes) /\ k - 1 < n /\ k \in 1..Len(sizes) /\ (k - 1) + 1 = k
      BY <1>1, <1>3
    <2>2. k - 1 \notin S
      <3>0. n \in Nat
        BY <1>1
      <3> HIDE DEF S
      <3>1. ~(n <= k - 1)
        BY <2>1, <3>0
      <3>2. QED
        BY <1>3, <3>1
    <2>3. sizes[k] # "oversize"
      BY <2>1, <2>2
    <2>4. QED
      BY <1>1, <2>1, <2>3 DEF Sizes
  <1>5. \E m \in 0..Len(sizes) :
          /\ \A k \in 1..m : sizes[k] = "fits"
          /\ m < Len(sizes) => sizes[m + 1] = "oversize"
    BY <1>3, <1>4
  <1>6. QED
    BY <1>5 DEF BeforeOversize

\* The stream with the lowest number, if there is one.
LEMMA OldestIsOne ==
  ASSUME NEW S, S \subseteq Nat, S # {}
  PROVE  Oldest(S) \in S
  BY LeastNatural DEF Oldest

\* A response or a request goes to a stream of its session that is open, or to none.
LEMMA TargetIsCandidate ==
  ASSUME NEW key, NEW response, DOMAIN streams \subseteq Nat \ {0}
  PROVE  ChooseTargetStream(key, response) = 0 \/ ChooseTargetStream(key, response) \in Candidates(key)
  <1> DEFINE open == Candidates(key)
             first == OfKind(open, IF response THEN "post" ELSE "get")
             second == IF response THEN {} ELSE OfKind(open, "post")
  <1>1. open \subseteq Nat /\ first \subseteq open /\ second \subseteq open
    BY DEF Candidates, OfKind
  <1>2. ChooseTargetStream(key, response) =
          IF first # {} THEN Oldest(first) ELSE IF second # {} THEN Oldest(second) ELSE 0
    BY Zenon DEF ChooseTargetStream
  <1> HIDE DEF open, first, second
  <1>3. QED
    BY <1>1, <1>2, OldestIsOne DEF open

-----------------------------------------------------------------------------
(* What every message, stream, queue and buffer is at any time.            *)

Message == [ session : Keys, from : {"post", "queue"}, size : Sizes ]

TypeInv ==
  /\ options \in Options
  /\ streams \in Seq(Stream) /\ logged \in Seq(Seq(0..MaxMessages)) /\ Len(logged) = Len(streams)
  /\ pendingMessagesBySession \in [Keys -> Seq(1..MaxMessages)]
  /\ DOMAIN legacyEventsBySession = Keys
  /\ sent \in Seq(Message) /\ Len(sent) <= MaxMessages
  /\ DOMAIN worker = Workers
  /\ \A w \in Workers : worker[w] # Idle => worker[w].request.session \in Keys

\* Each stream has the last part of its log, which holds, in the order of their calls, messages
\* of its session that no DELETE erased.
StreamsInv ==
  \A i \in DOMAIN streams :
    /\ GoodStream(streams[i], logged[i]) /\ Increasing(logged[i])
    /\ \A n \in ToSet(logged[i]) \ {0} :
         n \in DOMAIN sent /\ sent[n].session = streams[i].session /\ n \notin erased

\* Each queue has, in the order of their calls, messages of the application for its session.
QueuesInv ==
  \A k \in Keys :
    /\ Increasing(pendingMessagesBySession[k])
    /\ \A n \in ToSet(pendingMessagesBySession[k]) :
         n \in DOMAIN sent /\ sent[n].session = k /\ sent[n].from = "queue" /\ n \notin erased

\* Each buffer of the legacy transport has the last answers to POSTs of its session.
BuffersInv ==
  \A k \in Keys :
    /\ GoodBuffer(legacyEventsBySession[k])
    /\ \A n : Holds(legacyEventsBySession[k].events, n) =>
         n \in DOMAIN sent /\ sent[n].session = k /\ sent[n].from = "post"

\* What a DELETE erased had been queued.
ErasedInv == \A n \in erased : n \in DOMAIN sent /\ sent[n].from = "queue"

Listed(n) == \E i \in DOMAIN logged : n \in ToSet(logged[i])
Waits(n) == \E k \in Keys : n \in ToSet(pendingMessagesBySession[k])

\* A message is on one stream at most, or in a queue, and what was queued is not lost.
PlacesInv ==
  /\ \A i, j \in DOMAIN logged : \A n \in ToSet(logged[i]) \cap ToSet(logged[j]) : n = 0 \/ i = j
  /\ \A i \in DOMAIN logged, k \in Keys : \A n \in ToSet(logged[i]) : n \notin ToSet(pendingMessagesBySession[k])
  /\ \A n \in DOMAIN sent :
       sent[n].from = "queue" /\ n \notin erased /\ sent[n].size = "fits" => Listed(n) \/ Waits(n)

ServerInv == TypeInv /\ StreamsInv /\ QueuesInv /\ BuffersInv /\ ErasedInv /\ PlacesInv

-----------------------------------------------------------------------------
(* What a step leaves as it was.                                           *)

\* Messages keep their numbers.
SentGrows == DOMAIN sent \subseteq DOMAIN sent' /\ \A n \in DOMAIN sent : sent'[n] = sent[n]

\* A stream is closed, or grows too old: what it holds stays the same.
SameEvents(new, old) ==
  /\ new \in Stream
  /\ new.session = old.session /\ new.nextCursor = old.nextCursor /\ new.events = old.events

\* Streams change their flags only.
StreamsStand ==
  /\ streams' \in Seq(Stream) /\ Len(streams') = Len(streams)
  /\ \A i \in DOMAIN streams : SameEvents(streams'[i], streams[i])

\* A stream that only changes its flags still has the last part of its log.
LEMMA GoodStreamStands ==
  ASSUME NEW old, NEW new, NEW log, GoodStream(old, log), SameEvents(new, old)
  PROVE  GoodStream(new, log) /\ new.session = old.session
  BY DEF GoodStream, SameEvents, Mirrors

\* Setting a flag of a stream changes nothing else of it.
LEMMA FlagsChange ==
  ASSUME NEW stream \in Stream, NEW flag \in BOOLEAN
  PROVE  /\ SameEvents([stream EXCEPT !.terminated = flag], stream)
         /\ SameEvents([stream EXCEPT !.aged = flag], stream)
  BY DEF Stream, SameEvents

\* The flags of a stream.
LEMMA FlagsOf ==
  ASSUME NEW stream \in Stream, NEW flag
  PROVE  /\ [stream EXCEPT !.aged = flag].session = stream.session
         /\ [stream EXCEPT !.aged = flag].terminated = stream.terminated
         /\ [stream EXCEPT !.terminated = flag].session = stream.session
         /\ [stream EXCEPT !.terminated = flag].terminated = flag
  BY DEF Stream

\* Streams and their logs are sequences of the same length.
LEMMA StreamNumbers ==
  ASSUME TypeInv
  PROVE  /\ DOMAIN streams = 1..Len(streams) /\ Len(streams) \in Nat /\ DOMAIN logged = DOMAIN streams
         /\ DOMAIN sent = 1..Len(sent) /\ Len(sent) \in Nat
         /\ \A i \in DOMAIN streams : streams[i] \in Stream /\ logged[i] \in Seq(0..MaxMessages)
  BY DEF TypeInv

\* Streams whose flags alone change.
LEMMA StreamsKept ==
  ASSUME TypeInv, StreamsInv, SentGrows, UNCHANGED << logged, erased >>, StreamsStand
  PROVE  StreamsInv'
  <1>1. DOMAIN streams' = DOMAIN streams
    BY DEF StreamsStand, TypeInv
  <1>2. ASSUME NEW i \in DOMAIN streams
        PROVE  /\ GoodStream(streams'[i], logged'[i]) /\ Increasing(logged'[i])
               /\ \A n \in ToSet(logged'[i]) \ {0} :
                    n \in DOMAIN sent' /\ sent'[n].session = streams'[i].session /\ n \notin erased'
    <2>1. /\ GoodStream(streams[i], logged[i]) /\ Increasing(logged[i])
          /\ \A n \in ToSet(logged[i]) \ {0} :
               n \in DOMAIN sent /\ sent[n].session = streams[i].session /\ n \notin erased
      BY DEF StreamsInv
    <2>2. GoodStream(streams'[i], logged[i]) /\ streams'[i].session = streams[i].session
      BY <2>1, GoodStreamStands DEF StreamsStand
    <2>3. QED
      BY <2>1, <2>2 DEF SentGrows
  <1>3. QED
    BY <1>1, <1>2 DEF StreamsInv

\* Queues that do not change.
LEMMA QueuesKept ==
  ASSUME QueuesInv, SentGrows, UNCHANGED << pendingMessagesBySession, erased >>
  PROVE  QueuesInv'
  BY DEF QueuesInv, SentGrows

\* Buffers that do not change.
LEMMA BuffersKept ==
  ASSUME BuffersInv, SentGrows, UNCHANGED legacyEventsBySession
  PROVE  BuffersInv'
  <1>1. ASSUME NEW k \in Keys, NEW n, Holds(legacyEventsBySession[k].events, n)
        PROVE  n \in DOMAIN sent' /\ sent'[n].session = k /\ sent'[n].from = "post"
    BY <1>1 DEF BuffersInv, SentGrows
  <1>2. \A k \in Keys : GoodBuffer(legacyEventsBySession[k])
    BY DEF BuffersInv
  <1>3. QED
    BY <1>1, <1>2 DEF BuffersInv

\* Erased messages stay what they were.
LEMMA ErasedKept ==
  ASSUME ErasedInv, SentGrows, UNCHANGED erased
  PROVE  ErasedInv'
  BY DEF ErasedInv, SentGrows

\* Messages that did not change their place, among new ones that were not queued.
LEMMA PlacesKept ==
  ASSUME PlacesInv, SentGrows, UNCHANGED << logged, pendingMessagesBySession, erased >>,
         \A n \in DOMAIN sent' \ DOMAIN sent : sent'[n].from = "post"
  PROVE  PlacesInv'
  <1>1. \A n : (Listed(n)' <=> Listed(n)) /\ (Waits(n)' <=> Waits(n))
    BY DEF Listed, Waits
  <1>2. ASSUME NEW n \in DOMAIN sent', sent'[n].from = "queue", n \notin erased', sent'[n].size = "fits"
        PROVE  Listed(n)' \/ Waits(n)'
    <2>1. n \in DOMAIN sent /\ sent'[n] = sent[n]
      BY <1>2 DEF SentGrows
    <2>2. QED
      BY <1>1, <1>2, <2>1 DEF PlacesInv
  <1>3. QED
    BY <1>2 DEF PlacesInv

\* The legacy transport has the message.
Stored(n) == \E k \in Keys : Holds(legacyEventsBySession[k].events, n)

\* Only what a queue had is put on a stream, if it is not new, and nothing old is queued or stored.
NothingOld ==
  /\ SentGrows /\ forgotten' = forgotten
  /\ \A n \in DOMAIN sent :
       /\ Listed(n)' => Listed(n) \/ Waits(n)
       /\ Waits(n)' => Waits(n)
       /\ Stored(n)' => Stored(n)

\* A step that neither takes nor moves a message.
Quiet ==
  /\ StreamsStand
  /\ UNCHANGED << options, pendingMessagesBySession, legacyEventsBySession, history >>
  /\ DOMAIN worker' = Workers
  /\ \A w \in Workers : worker'[w] # Idle => worker'[w].request.session \in Keys

\* It preserves what is known.
LEMMA QuietKeeps ==
  ASSUME ServerInv, Quiet
  PROVE  ServerInv' /\ NothingOld
  <1>1. SentGrows
    BY DEF SentGrows, Quiet, history
  <1>2. TypeInv'
    BY DEF ServerInv, TypeInv, Quiet, StreamsStand, history
  <1>3. StreamsInv'
    BY <1>1, StreamsKept DEF ServerInv, Quiet, history
  <1>4. QueuesInv'
    BY <1>1, QueuesKept DEF ServerInv, Quiet, history
  <1>5. BuffersInv'
    BY <1>1, BuffersKept DEF ServerInv, Quiet, history
  <1>6. ErasedInv'
    BY <1>1, ErasedKept DEF ServerInv, Quiet, history
  <1>7. PlacesInv'
    BY <1>1, PlacesKept DEF ServerInv, Quiet, history
  <1>8. NothingOld
    <2>1. UNCHANGED << logged, pendingMessagesBySession, legacyEventsBySession, forgotten >>
      BY DEF Quiet, history
    <2>2. \A n : (Listed(n)' <=> Listed(n)) /\ (Waits(n)' <=> Waits(n)) /\ (Stored(n)' <=> Stored(n))
      BY <2>1 DEF Listed, Waits, Stored
    <2>3. QED
      BY <1>1, <2>1, <2>2 DEF NothingOld
  <1>9. QED
    BY <1>2, <1>3, <1>4, <1>5, <1>6, <1>7, <1>8 DEF ServerInv

\* Streams that do not change at all.
LEMMA StreamsSame ==
  ASSUME TypeInv, UNCHANGED streams
  PROVE  StreamsStand
  BY DEF TypeInv, StreamsStand, SameEvents

-----------------------------------------------------------------------------
(* The logs of the streams grow.                                           *)

\* Streams keep their owners, their logs only grow, and what is closed stays as it is.
LogsGoOn ==
  /\ Len(streams) <= Len(streams')
  /\ \A i \in DOMAIN streams :
       /\ streams'[i].session = streams[i].session
       /\ Log!IsPrefix(logged[i], logged'[i])
       /\ streams[i].terminated => streams'[i].terminated /\ logged'[i] = logged[i]

\* A sequence is a prefix of itself.
LEMMA PrefixOfItself ==
  ASSUME NEW T, NEW s \in Seq(T)
  PROVE  Log!IsPrefix(s, s)
  BY DEF Log!IsPrefix

\* A sequence is a prefix of what is appended to it.
LEMMA PrefixOfLonger ==
  ASSUME NEW T, NEW s \in Seq(T), NEW x \in T
  PROVE  Log!IsPrefix(s, Append(s, x))
  <1>1. PICK t \in Seq(T) : t = Append(s, x)
    BY AppendProperties
  <1>2. /\ Len(s) \in Nat /\ Len(t) = Len(s) + 1 /\ \A i \in 1..Len(s) : t[i] = s[i]
    BY <1>1, AppendProperties, LenProperties
  <1>3. SubSeq(s, 1, Len(s)) = SubSeq(t, 1, Len(s))
    BY <1>2
  <1>4. QED
    BY <1>1, <1>2, <1>3 DEF Log!IsPrefix

\* Streams that only change flags, and reopen none.
LEMMA FlagsGoOn ==
  ASSUME TypeInv, TypeInv', UNCHANGED logged,
         \A i \in DOMAIN streams : streams'[i].session = streams[i].session
                                   /\ (streams[i].terminated => streams'[i].terminated)
  PROVE  LogsGoOn
  <1>1. Len(streams') = Len(streams) /\ Len(streams) \in Nat
    BY DEF TypeInv
  <1>2. \A i \in DOMAIN streams : logged[i] \in Seq(0..MaxMessages)
    BY StreamNumbers
  <1>3. \A i \in DOMAIN streams : Log!IsPrefix(logged[i], logged[i])
    BY <1>2, PrefixOfItself
  <1>4. QED
    BY <1>1, <1>3 DEF LogsGoOn

-----------------------------------------------------------------------------
(* Streams that are opened.                                                *)

\* A new stream has its priming event and then what is written to it.
LEMMA OpenedStream ==
  ASSUME NEW key \in Keys, NEW kind \in {"get", "post"}, NEW messages \in Seq(0..MaxMessages),
         options.maxSseBufferedMessages \in Nat \ {0}, MaxMessages \in Nat
  PROVE  \E new : /\ new = WithEvents(NewStream(key, kind), messages)
                  /\ GoodStream(new, << 0 >> \o messages)
                  /\ new.session = key
  <1> DEFINE M == 0..MaxMessages
  <1>0. PICK empty : empty = [ session |-> key, kind |-> kind, nextCursor |-> 1, terminated |-> FALSE,
                               aged |-> FALSE, events |-> << >> ]
    OBVIOUS
  <1>1. GoodStream(empty, << >>) /\ empty.session = key
    <2>1. empty \in Stream
      BY <1>0 DEF Stream
    <2>2. Mirrors(empty, << >>)
      BY <1>0 DEF Mirrors
    <2>3. << >> \in Seq(M)
      OBVIOUS
    <2>4. QED
      BY <1>0, <2>1, <2>2, <2>3 DEF GoodStream
  <1>2. WithEvents(empty, << 0 >>) = NewStream(key, kind)
    BY <1>0 DEF NewStream
  <1>3. PICK none, priming : none = << >> /\ priming = << 0 >>
    OBVIOUS
  <1>4. priming \in Seq(0..MaxMessages) /\ GoodStream(empty, none)
    BY <1>1, <1>3
  <1>5. PICK first : /\ first = WithEvents(empty, priming) /\ GoodStream(first, none \o priming)
                     /\ \A d \in {"session", "kind", "terminated", "aged"} : first[d] = empty[d]
    BY <1>4, StreamAfter
  <1>6. GoodStream(first, priming)
    <2>1. none \o priming = priming
      BY <1>3
    <2>2. QED
      BY <1>5, <2>1
  <1>7. PICK new : /\ new = WithEvents(first, messages) /\ GoodStream(new, priming \o messages)
                   /\ \A d \in {"session", "kind", "terminated", "aged"} : new[d] = first[d]
    BY <1>6, StreamAfter
  <1>8. new.session = key
    BY <1>1, <1>5, <1>7
  <1>9. first = NewStream(key, kind)
    BY <1>2, <1>3, <1>5
  <1>10. QED
    BY <1>3, <1>7, <1>8, <1>9

\* The streams with a new one.
LEMMA StreamsGrow ==
  ASSUME TypeInv, StreamsInv, SentGrows, UNCHANGED erased,
         NEW stream, NEW log, GoodStream(stream, log), Increasing(log),
         streams' = Append(streams, stream), logged' = Append(logged, log),
         \A n \in ToSet(log) \ {0} : n \in DOMAIN sent' /\ sent'[n].session = stream.session /\ n \notin erased
  PROVE  StreamsInv'
  <1>1. stream \in Stream /\ log \in Seq(0..MaxMessages)
    BY DEF GoodStream
  <1>2. /\ streams \in Seq(Stream) /\ logged \in Seq(Seq(0..MaxMessages)) /\ Len(logged) = Len(streams)
        /\ DOMAIN streams = 1..Len(streams) /\ Len(streams) \in Nat
    BY DEF TypeInv
  <1>3. /\ DOMAIN streams' = 1..(Len(streams) + 1)
        /\ \A i \in 1..Len(streams) : streams'[i] = streams[i] /\ logged'[i] = logged[i]
        /\ streams'[Len(streams) + 1] = stream /\ logged'[Len(streams) + 1] = log
    BY <1>1, <1>2, AppendProperties, LenProperties
  <1>4. ASSUME NEW i \in DOMAIN streams'
        PROVE  /\ GoodStream(streams'[i], logged'[i]) /\ Increasing(logged'[i])
               /\ \A n \in ToSet(logged'[i]) \ {0} :
                    n \in DOMAIN sent' /\ sent'[n].session = streams'[i].session /\ n \notin erased'
    <2>1. CASE i = Len(streams) + 1
      BY <1>3, <2>1
    <2>2. CASE i # Len(streams) + 1
      <3>1. i \in DOMAIN streams /\ streams'[i] = streams[i] /\ logged'[i] = logged[i]
        BY <1>2, <1>3, <2>2
      <3>2. QED
        BY <3>1 DEF StreamsInv, SentGrows
    <2>3. QED
      BY <2>1, <2>2
  <1>5. QED
    BY <1>4 DEF StreamsInv

\* What a stream has when a new one was added was on a stream before, or is on the new one.
LEMMA LogAppended ==
  ASSUME TypeInv, NEW log \in Seq(0..MaxMessages), logged' = Append(logged, log),
         NEW n, Listed(n)'
  PROVE  Listed(n) \/ n \in ToSet(log)
  <1>1. /\ logged \in Seq(Seq(0..MaxMessages)) /\ DOMAIN logged = 1..Len(logged) /\ Len(logged) \in Nat
    BY DEF TypeInv
  <1>2. /\ DOMAIN logged' = 1..(Len(logged) + 1)
        /\ \A i \in 1..Len(logged) : logged'[i] = logged[i]
        /\ logged'[Len(logged) + 1] = log
    BY <1>1, AppendProperties, LenProperties
  <1>3. QED
    BY <1>1, <1>2 DEF Listed

\* The places of the messages when a new stream takes some: messages that were on no stream, and
\* that no queue keeps.
LEMMA PlacesWithStream ==
  ASSUME TypeInv, PlacesInv, SentGrows, UNCHANGED erased,
         NEW log \in Seq(0..MaxMessages), logged' = Append(logged, log),
         \A n \in ToSet(log) : n = 0 \/ ~Listed(n),
         \A k \in Keys : ToSet(pendingMessagesBySession'[k]) \subseteq ToSet(pendingMessagesBySession[k]) \ ToSet(log),
         \A n \in DOMAIN sent : Waits(n) /\ sent[n].size = "fits" => Waits(n)' \/ n \in ToSet(log),
         \A n \in DOMAIN sent' \ DOMAIN sent : sent'[n].from = "post"
  PROVE  PlacesInv'
  <1>1. /\ logged \in Seq(Seq(0..MaxMessages)) /\ DOMAIN logged = 1..Len(logged) /\ Len(logged) \in Nat
    BY DEF TypeInv
  <1>2. /\ DOMAIN logged' = 1..(Len(logged) + 1)
        /\ \A i \in 1..Len(logged) : logged'[i] = logged[i]
        /\ logged'[Len(logged) + 1] = log
    BY <1>1, AppendProperties, LenProperties
  <1>3. \A i \in DOMAIN logged' : (i \in DOMAIN logged /\ logged'[i] = logged[i]) \/ (i = Len(logged) + 1 /\ logged'[i] = log)
    BY <1>1, <1>2
  <1>4. ASSUME NEW i \in DOMAIN logged', NEW j \in DOMAIN logged', NEW n \in ToSet(logged'[i]) \cap ToSet(logged'[j])
        PROVE  n = 0 \/ i = j
    BY <1>3 DEF PlacesInv, Listed
  <1>5. ASSUME NEW i \in DOMAIN logged', NEW k \in Keys, NEW n \in ToSet(logged'[i])
        PROVE  n \notin ToSet(pendingMessagesBySession'[k])
    BY <1>3 DEF PlacesInv
  <1>6. ASSUME NEW n \in DOMAIN sent', sent'[n].from = "queue", n \notin erased', sent'[n].size = "fits"
        PROVE  Listed(n)' \/ Waits(n)'
    <2>1. n \in DOMAIN sent /\ sent'[n] = sent[n]
      BY <1>6 DEF SentGrows
    <2>2. CASE Listed(n)
      BY <1>1, <1>2, <2>2 DEF Listed
    <2>3. CASE Waits(n)
      <3>1. Waits(n)' \/ n \in ToSet(log)
        BY <1>6, <2>1, <2>3
      <3>2. Len(logged) + 1 \in DOMAIN logged'
        BY <1>1, <1>2
      <3>3. QED
        BY <1>2, <3>1, <3>2 DEF Listed
    <2>4. QED
      BY <1>6, <2>1, <2>2, <2>3 DEF PlacesInv
  <1>7. QED
    BY <1>4, <1>5, <1>6 DEF PlacesInv

-----------------------------------------------------------------------------
(* Answers.                                                                *)

\* What a stream shows a client comes from the stream, which is of the client's session.
ShowsStream ==
  /\ answer.stream \in DOMAIN streams
  /\ streams[answer.stream].session = answer.session
  /\ \A n : Holds(answer.events, n) => Holds(streams[answer.stream].events, n)

\* What the legacy transport shows is the last part of the buffer of the client's session, and
\* begins right after the cursor of a client that resumes.
ShowsBuffer ==
  /\ answer.stream = 0 /\ answer.session \in Keys
  /\ LET events == legacyEventsBySession[answer.session].events
     IN  \E k \in Nat :
           /\ answer.events = SubSeq(events, k + 1, Len(events))
           /\ answer.resumed => answer.events[1].cursor = answer.after + 1

\* Every answer that shows events does one or the other.
AnswerInv ==
  /\ answer.events \in Seq(Event(0..MaxMessages)) /\ answer.stream \in Nat
  /\ answer.events # << >> => ShowsStream \/ ShowsBuffer

\* An answer without events.
LEMMA PlainAnswers ==
  ASSUME NEW key, NEW status
  PROVE  /\ NoReply.events = << >> /\ NoReply.stream = 0
         /\ Reply(key, status).events = << >> /\ Reply(key, status).stream = 0
         /\ Reply(key, status).session = key /\ Reply(key, status).status = status
  BY DEF NoReply, Reply

\* It is an answer that shows nothing.
LEMMA NothingShown ==
  ASSUME answer'.events = << >>, answer'.stream = 0
  PROVE  AnswerInv'
  BY DEF AnswerInv

\* The fields of an answer with events.
Tells(reply, key, stream, resumed, after, events) ==
  /\ reply.events = events /\ reply.stream = stream /\ reply.session = key
  /\ reply.resumed = resumed /\ reply.after = after /\ reply.status = Ok

\* An answer with events.
LEMMA EventAnswers ==
  ASSUME NEW key, NEW stream, NEW resumed, NEW after, NEW events
  PROVE  Tells(ReplyEvents(key, stream, resumed, after, events), key, stream, resumed, after, events)
  BY DEF NoReply, ReplyEvents, Tells

\* Whatever its header says.
LEMMA HeaderAnswers ==
  ASSUME NEW key, NEW stream, NEW resumed, NEW after, NEW events, NEW header
  PROVE  Tells([ReplyEvents(key, stream, resumed, after, events) EXCEPT !.header = header],
               key, stream, resumed, after, events)
  BY DEF NoReply, ReplyEvents, Tells

-----------------------------------------------------------------------------
(* A GET opens a stream.                                                   *)

\* The log of a new stream, if what it takes is in order.
LEMMA OpenedLog ==
  ASSUME MaxMessages \in Nat, NEW messages \in Seq(1..MaxMessages), Increasing(messages)
  PROVE  /\ << 0 >> \o messages \in Seq(0..MaxMessages)
         /\ Increasing(<< 0 >> \o messages)
         /\ ToSet(<< 0 >> \o messages) = {0} \cup ToSet(messages)
  <1>1. PICK priming : priming = << 0 >>
    OBVIOUS
  <1>2. /\ priming \in Seq(Nat) /\ priming \in Seq(0..MaxMessages) /\ ToSet(priming) = {0}
        /\ Increasing(priming)
    BY <1>1 DEF ToSet, Increasing
  <1>3. messages \in Seq(Nat) /\ messages \in Seq(0..MaxMessages)
    BY SeqMonotonic
  <1>4. \A a \in ToSet(priming), b \in ToSet(messages) : a < b
    <2>1. \A b \in ToSet(messages) : b \in 1..MaxMessages
      BY DEF ToSet
    <2>2. QED
      BY <1>2, <2>1
  <1>5. Increasing(priming \o messages)
    BY <1>2, <1>3, <1>4, IncreasingAfter
  <1>6. priming \o messages \in Seq(0..MaxMessages) /\ ToSet(priming \o messages) = ToSet(priming) \cup ToSet(messages)
    BY <1>2, <1>3, ConcatElements
  <1>7. QED
    BY <1>1, <1>2, <1>5, <1>6

\* What a stream takes from a queue are the messages of it that fit, in order.
LEMMA FittingMessages ==
  ASSUME MaxMessages \in Nat, NEW queued \in Seq(1..MaxMessages), Increasing(queued)
  PROVE  /\ Fitting(queued) \in Seq(1..MaxMessages) /\ Increasing(Fitting(queued))
         /\ ToSet(Fitting(queued)) \subseteq ToSet(queued)
         /\ \A n \in ToSet(queued) : sent[n].size = "fits" => n \in ToSet(Fitting(queued))
  <1> DEFINE P == { n \in DOMAIN queued : Fits(queued[n]) }
  <1>1. Fitting(queued) = Kept(queued, P)
    BY DEF Fitting
  <1>2. \A n \in DOMAIN queued : n \in P <=> sent[queued[n]].size = "fits"
    BY DEF Fits
  <1> HIDE DEF P
  <1>3. /\ Kept(queued, P) \in Seq(1..MaxMessages)
        /\ \A i \in DOMAIN Kept(queued, P) : \E j \in DOMAIN queued : j \in P /\ Kept(queued, P)[i] = queued[j]
        /\ \A j \in DOMAIN queued : j \in P => \E i \in DOMAIN Kept(queued, P) : Kept(queued, P)[i] = queued[j]
    BY KeptElements
  <1>4. queued \in Seq(Nat)
    BY SeqMonotonic
  <1>5. Increasing(Kept(queued, P))
    BY <1>4, KeptIncreases
  <1>6. ToSet(Kept(queued, P)) \subseteq ToSet(queued)
    BY <1>3 DEF ToSet
  <1>7. ASSUME NEW n \in ToSet(queued), sent[n].size = "fits" PROVE n \in ToSet(Kept(queued, P))
    BY <1>2, <1>3, <1>7 DEF ToSet
  <1>8. QED
    BY <1>1, <1>3, <1>5, <1>6, <1>7

\* The streams and their logs with one more.
LEMMA StreamAppended ==
  ASSUME TypeInv, NEW stream \in Stream, NEW log \in Seq(0..MaxMessages),
         streams' = Append(streams, stream), logged' = Append(logged, log)
  PROVE  /\ streams' \in Seq(Stream) /\ logged' \in Seq(Seq(0..MaxMessages))
         /\ Len(logged') = Len(streams') /\ Len(streams') = Len(streams) + 1
         /\ Len(streams) + 1 \in DOMAIN streams' /\ Len(streams) + 1 \in Nat
         /\ streams'[Len(streams) + 1] = stream
  <1>1. streams \in Seq(Stream) /\ logged \in Seq(Seq(0..MaxMessages)) /\ Len(logged) = Len(streams)
    BY DEF TypeInv
  <1>2. QED
    BY <1>1, AppendProperties, LenProperties

\* A stream was added to the others, and has a log.
StreamOpened ==
  /\ Len(streams') = Len(streams) + 1 /\ 0 \in ToSet(logged'[Len(streams) + 1])
  /\ \A i \in DOMAIN streams : streams'[i] = streams[i] /\ logged'[i] = logged[i]

\* The answer of the step that opened a stream shows what it holds.
NewShown ==
  /\ answer'.stream = Len(streams) + 1 /\ answer'.session = streams'[answer'.stream].session
  /\ answer'.events = streams'[answer'.stream].events

\* It is added at the end.
LEMMA StreamIsOpened ==
  ASSUME TypeInv, NEW stream \in Stream, NEW log \in Seq(0..MaxMessages), 0 \in ToSet(log),
         streams' = Append(streams, stream), logged' = Append(logged, log)
  PROVE  StreamOpened
  <1>1. streams \in Seq(Stream) /\ logged \in Seq(Seq(0..MaxMessages)) /\ Len(logged) = Len(streams)
    BY DEF TypeInv
  <1>2. /\ Len(streams') = Len(streams) + 1 /\ logged'[Len(streams) + 1] = log
        /\ \A i \in 1..Len(streams) : streams'[i] = streams[i] /\ logged'[i] = logged[i]
    BY <1>1, AppendProperties, LenProperties
  <1>3. QED
    BY <1>1, <1>2 DEF StreamOpened

\* An answer that shows a stream of the client's session.
LEMMA StreamShown ==
  ASSUME TypeInv', answer'.stream \in DOMAIN streams', answer'.events = streams'[answer'.stream].events,
         streams'[answer'.stream].session = answer'.session
  PROVE  AnswerInv'
  <1>1. streams' \in Seq(Stream)
    BY DEF TypeInv
  <1>2. streams'[answer'.stream] \in Stream /\ answer'.stream \in Nat
    BY <1>1
  <1>3. answer'.events \in Seq(Event(0..MaxMessages))
    BY <1>2 DEF Stream, Event
  <1>4. \A n : Holds(answer'.events, n) => Holds(streams'[answer'.stream].events, n)
    OBVIOUS
  <1>5. QED
    BY <1>2, <1>3, <1>4 DEF AnswerInv, ShowsStream

\* A GET that opens a stream.
LEMMA OpenStreamKeeps ==
  ASSUME ServerInv, NEW r, r.session \in Keys, OpenStream(r)
  PROVE  ServerInv' /\ AnswerInv' /\ StreamOpened /\ NewShown /\ NothingOld
  <1> DEFINE key == r.session
             queued == pendingMessagesBySession[key]
             log == << 0 >> \o Fitting(queued)
  <1>0. TypeInv /\ StreamsInv /\ QueuesInv /\ BuffersInv /\ ErasedInv /\ PlacesInv /\ MaxMessages \in Nat
    BY HttpServerAssumption DEF ServerInv
  <1>1. /\ queued \in Seq(1..MaxMessages) /\ Increasing(queued)
        /\ \A n \in ToSet(queued) : n \in DOMAIN sent /\ sent[n].session = key /\ n \notin erased
        /\ options.maxSseBufferedMessages \in Nat \ {0}
    BY <1>0 DEF TypeInv, QueuesInv, Options
  <1>2. /\ Fitting(queued) \in Seq(1..MaxMessages) /\ Increasing(Fitting(queued))
        /\ ToSet(Fitting(queued)) \subseteq ToSet(queued)
        /\ \A n \in ToSet(queued) : sent[n].size = "fits" => n \in ToSet(Fitting(queued))
    BY <1>0, <1>1, FittingMessages
  <1>3. log \in Seq(0..MaxMessages) /\ Increasing(log) /\ ToSet(log) = {0} \cup ToSet(Fitting(queued))
    BY <1>0, <1>2, OpenedLog
  <1>4. PICK stream : /\ stream = WithEvents(NewStream(key, "get"), Fitting(queued))
                      /\ GoodStream(stream, log) /\ stream.session = key
    <2>1. Fitting(queued) \in Seq(0..MaxMessages)
      BY <1>0, <1>2, SeqMonotonic
    <2>2. QED
      BY <1>0, <1>1, <2>1, OpenedStream
  <1>5. /\ streams' = Append(streams, stream) /\ logged' = Append(logged, log)
        /\ pendingMessagesBySession' = [pendingMessagesBySession EXCEPT ![key] = << >>]
        /\ answer' = ReplyEvents(key, Len(streams) + 1, FALSE, 0, stream.events)
        /\ UNCHANGED << options, sessions, legacyEventsBySession, worker, sent, erased, forgotten >>
    BY <1>4 DEF OpenStream
  <1> HIDE DEF log, key, queued
  <1>6. stream \in Stream
    BY <1>4 DEF GoodStream
  <1>7. SentGrows
    BY <1>5 DEF SentGrows
  <1>8. /\ DOMAIN pendingMessagesBySession' = Keys
        /\ \A k \in Keys : pendingMessagesBySession'[k] =
             IF k = key THEN << >> ELSE pendingMessagesBySession[k]
    BY <1>0, <1>5 DEF TypeInv
  <1>9. TypeInv'
    <2>1. streams' \in Seq(Stream) /\ logged' \in Seq(Seq(0..MaxMessages)) /\ Len(logged') = Len(streams')
      BY <1>0, <1>3, <1>5, <1>6, StreamAppended
    <2>2. pendingMessagesBySession' \in [Keys -> Seq(1..MaxMessages)]
      <3>1. << >> \in Seq(1..MaxMessages)
        OBVIOUS
      <3>2. QED
        BY <1>0, <1>5, <3>1 DEF TypeInv
    <2>3. QED
      BY <1>0, <1>5, <2>1, <2>2 DEF TypeInv
  <1>10. StreamsInv'
    <2>1. \A n \in ToSet(log) \ {0} : n \in DOMAIN sent' /\ sent'[n].session = stream.session /\ n \notin erased
      BY <1>1, <1>2, <1>3, <1>4, <1>5
    <2>2. QED
      BY <1>0, <1>3, <1>4, <1>5, <1>7, <2>1, StreamsGrow
  <1>11. QueuesInv'
    <2>1. ToSet(<< >>) = {} /\ Increasing(<< >>)
      BY DEF ToSet, Increasing
    <2>2. QED
      BY <1>0, <1>5, <1>8, <2>1 DEF QueuesInv
  <1>12. BuffersInv'
    BY <1>0, <1>5, <1>7, BuffersKept
  <1>13. ErasedInv'
    BY <1>0, <1>5, <1>7, ErasedKept
  <1>14. PlacesInv'
    <2>1. \A n \in ToSet(queued) : ~Listed(n)
      BY <1>0, <1>4 DEF PlacesInv, Listed, queued, key
    <2>2. \A n \in ToSet(log) : n = 0 \/ ~Listed(n)
      BY <1>2, <1>3, <2>1
    <2>3. ASSUME NEW k \in Keys, NEW n \in ToSet(pendingMessagesBySession'[k])
          PROVE  n \in ToSet(pendingMessagesBySession[k]) \ ToSet(log)
      <3>1. k # key /\ n \in ToSet(pendingMessagesBySession[k])
        BY <1>8, <2>3 DEF ToSet
      <3>2. n \in DOMAIN sent /\ sent[n].session = k
        BY <1>0, <3>1 DEF QueuesInv
      <3>3. n # 0
        BY <1>0, <3>2, StreamNumbers
      <3>4. n \notin ToSet(queued)
        BY <1>1, <3>1, <3>2
      <3>5. QED
        BY <1>2, <1>3, <3>1, <3>3, <3>4
    <2>4. ASSUME NEW n \in DOMAIN sent, Waits(n), sent[n].size = "fits" PROVE Waits(n)' \/ n \in ToSet(log)
      BY <1>2, <1>3, <1>8, <2>4 DEF Waits, queued
    <2>5. QED
      BY <1>0, <1>3, <1>5, <1>7, <2>2, <2>3, <2>4, PlacesWithStream
  <1>15. AnswerInv' /\ NewShown
    <2>1. answer'.stream = Len(streams) + 1 /\ answer'.events = stream.events /\ answer'.session = key
      <3>1. Tells(answer', key, Len(streams) + 1, FALSE, 0, stream.events)
        BY <1>5, EventAnswers
      <3>2. QED
        BY <3>1 DEF Tells
    <2>2. Len(streams) + 1 \in DOMAIN streams' /\ streams'[Len(streams) + 1] = stream
      BY <1>0, <1>3, <1>5, <1>6, StreamAppended
    <2>3. AnswerInv'
      BY <1>4, <1>9, <2>1, <2>2, StreamShown
    <2>4. QED
      BY <1>4, <2>1, <2>2, <2>3 DEF NewShown
  <1>16. StreamOpened
    BY <1>0, <1>3, <1>5, <1>6, StreamIsOpened
  <1>17. NothingOld
    <2>1. ASSUME NEW n \in DOMAIN sent, Listed(n)' PROVE Listed(n) \/ Waits(n)
      <3>1. n # 0 /\ (n \in ToSet(log) => n \in ToSet(queued))
        BY <1>0, <1>2, <1>3, StreamNumbers
      <3>2. Listed(n) \/ n \in ToSet(log)
        BY <1>0, <1>3, <1>5, <2>1, LogAppended
      <3>3. QED
        BY <3>1, <3>2 DEF Waits, queued, key
    <2>2. \A n : Waits(n)' => Waits(n)
      BY <1>8 DEF Waits, ToSet
    <2>3. \A n : Stored(n)' => Stored(n)
      BY <1>5 DEF Stored
    <2>4. QED
      BY <1>5, <1>7, <2>1, <2>2, <2>3 DEF NothingOld
  <1>18. QED
    BY <1>9, <1>10, <1>11, <1>12, <1>13, <1>14, <1>15, <1>16, <1>17 DEF ServerInv

-----------------------------------------------------------------------------
(* Steps that neither take nor move a message.                             *)

\* A step that changes no stream, and of the workers only what they do.
LEMMA TablesStand ==
  ASSUME TypeInv, UNCHANGED << options, streams, pendingMessagesBySession, legacyEventsBySession, history >>,
         worker' = worker \/ \E w \in Workers : \E work :
           /\ worker' = [worker EXCEPT ![w] = work]
           /\ work # Idle => work.request.session \in Keys
  PROVE  Quiet
  <1>1. StreamsStand
    BY StreamsSame
  <1>2. DOMAIN worker = Workers /\ \A w \in Workers : worker[w] # Idle => worker[w].request.session \in Keys
    BY DEF TypeInv
  <1>3. ASSUME NEW w \in Workers, NEW work, worker' = [worker EXCEPT ![w] = work],
               work # Idle => work.request.session \in Keys
        PROVE  DOMAIN worker' = Workers /\ \A v \in Workers : worker'[v] # Idle => worker'[v].request.session \in Keys
    BY <1>2, <1>3
  <1>4. DOMAIN worker' = Workers /\ \A v \in Workers : worker'[v] # Idle => worker'[v].request.session \in Keys
    BY <1>2, <1>3
  <1>5. QED
    BY <1>1, <1>4 DEF Quiet

\* Answers without a change, and calls of the application that change a session.
LEMMA QuietAnswers ==
  ASSUME ServerInv, NEW r, NEW status,
         \/ ServeMetadata(r) \/ Refuse(status) \/ ReturnResponse
         \/ \E s \in Sessions : \E x : UpsertSession(s, x) \/ SetSessionState(s, x)
  PROVE  ServerInv' /\ AnswerInv' /\ NothingOld
  <1>1. UNCHANGED << options, streams, pendingMessagesBySession, legacyEventsBySession, history, worker >>
    BY DEF ServeMetadata, Refuse, ReturnResponse, UpsertSession, SetSessionState, tables
  <1>2. Quiet
    BY <1>1, TablesStand DEF ServerInv
  <1>3. answer'.events = << >> /\ answer'.stream = 0
    BY PlainAnswers DEF ServeMetadata, Refuse, ReturnResponse, UpsertSession, SetSessionState
  <1>4. QED
    BY <1>2, <1>3, QuietKeeps, NothingShown

\* A request enters its handler, which knows the session that was validated.
LEMMA EnterHandlerKeeps ==
  ASSUME ServerInv, NEW w \in Workers, NEW r, r.session \in Keys, EnterHandler(w, r)
  PROVE  ServerInv' /\ AnswerInv' /\ NothingOld
  <1>1. PICK id, work :
          /\ worker' = [worker EXCEPT ![w] = work]
          /\ work = [ at |-> "handler", generated |-> id,
                      request |-> [ path |-> r.path, session |-> r.session, body |-> r.body ] ]
    BY DEF EnterHandler
  <1>0. work.request.session \in Keys
    BY <1>1
  <1>2. UNCHANGED << options, streams, pendingMessagesBySession, legacyEventsBySession, history >>
    BY DEF EnterHandler, tables
  <1>3. Quiet
    BY <1>0, <1>1, <1>2, TablesStand DEF ServerInv
  <1>4. answer'.events = << >> /\ answer'.stream = 0
    BY PlainAnswers DEF EnterHandler
  <1>5. QED
    BY <1>3, <1>4, QuietKeeps, NothingShown

\* A handler that throws, or judges a notification or a response.
LEMMA HandlerEndsKeeps ==
  ASSUME ServerInv, NEW w \in Workers,
         HandlerThrows(w) \/ \E accepted \in BOOLEAN : HandlerJudges(w, accepted)
  PROVE  ServerInv' /\ AnswerInv' /\ NothingOld
  <1>1. worker' = [worker EXCEPT ![w] = Idle]
    BY DEF HandlerThrows, HandlerJudges
  <1>2. UNCHANGED << options, streams, pendingMessagesBySession, legacyEventsBySession, history >>
    BY DEF HandlerThrows, HandlerJudges, tables
  <1>3. Quiet
    BY <1>1, <1>2, TablesStand DEF ServerInv
  <1>4. answer'.events = << >> /\ answer'.stream = 0
    BY PlainAnswers DEF HandlerThrows, HandlerJudges
  <1>5. QED
    BY <1>3, <1>4, QuietKeeps, NothingShown

\* One stream that is closed or grows too old.
LEMMA OneStreamStands ==
  ASSUME TypeInv, NEW n \in DOMAIN streams, NEW change, SameEvents(change, streams[n]),
         streams' = [streams EXCEPT ![n] = change]
  PROVE  StreamsStand
  <1>1. streams \in Seq(Stream) /\ change \in Stream
    BY DEF TypeInv, SameEvents
  <1>2. /\ streams' \in Seq(Stream) /\ Len(streams') = Len(streams)
        /\ \A i \in DOMAIN streams : streams'[i] = IF i = n THEN change ELSE streams[i]
    BY <1>1
  <1>3. \A i \in DOMAIN streams : SameEvents(streams[i], streams[i])
    BY <1>1 DEF SameEvents
  <1>4. QED
    BY <1>2, <1>3 DEF StreamsStand

\* Closing a stream, or letting it grow too old, moves no message.
LEMMA FlagIsQuiet ==
  ASSUME ServerInv, StreamsStand,
         UNCHANGED << options, pendingMessagesBySession, legacyEventsBySession, worker, history >>
  PROVE  Quiet
  BY DEF ServerInv, TypeInv, Quiet

\* A stream grows too old.
LEMMA StreamAgesKeeps ==
  ASSUME ServerInv, NEW n \in DOMAIN streams, StreamAges(n)
  PROVE  ServerInv' /\ AnswerInv' /\ NothingOld
  <1>1. TypeInv /\ streams[n] \in Stream
    BY StreamNumbers DEF ServerInv
  <1>2. SameEvents([streams[n] EXCEPT !.aged = TRUE], streams[n])
    BY <1>1, FlagsChange
  <1>3. streams' = [streams EXCEPT ![n] = [streams[n] EXCEPT !.aged = TRUE]]
    BY DEF StreamAges
  <1>4. StreamsStand
    BY <1>1, <1>2, <1>3, OneStreamStands
  <1>5. Quiet
    BY <1>4, FlagIsQuiet DEF StreamAges
  <1>6. answer'.events = << >> /\ answer'.stream = 0
    BY PlainAnswers DEF StreamAges
  <1>7. QED
    BY <1>5, <1>6, QuietKeeps, NothingShown

\* A GET whose cursor is refused, which closes a stream that is too old.
LEMMA RefuseResumeKeeps ==
  ASSUME ServerInv, NEW r, RefuseResume(r)
  PROVE  ServerInv' /\ AnswerInv' /\ NothingOld
  <1> DEFINE n == r.lastEventId.stream
  <1>1. TypeInv /\ \A i \in DOMAIN streams : streams[i] \in Stream
    BY StreamNumbers DEF ServerInv
  <1>2. \/ UNCHANGED streams
        \/ n \in DOMAIN streams /\ streams' = [streams EXCEPT ![n] = [streams[n] EXCEPT !.terminated = TRUE]]
    BY DEF RefuseResume
  <1>3. StreamsStand
    <2>1. CASE UNCHANGED streams
      BY <1>1, <2>1, StreamsSame
    <2>2. CASE n \in DOMAIN streams /\ streams' = [streams EXCEPT ![n] = [streams[n] EXCEPT !.terminated = TRUE]]
      <3>1. SameEvents([streams[n] EXCEPT !.terminated = TRUE], streams[n])
        BY <1>1, <2>2, FlagsChange
      <3>2. QED
        BY <1>1, <2>2, <3>1, OneStreamStands
    <2>3. QED
      BY <1>2, <2>1, <2>2
  <1>4. Quiet
    BY <1>3, FlagIsQuiet DEF RefuseResume
  <1>5. answer'.events = << >> /\ answer'.stream = 0
    BY PlainAnswers DEF RefuseResume
  <1>6. QED
    BY <1>4, <1>5, QuietKeeps, NothingShown

-----------------------------------------------------------------------------
(* A GET resumes.                                                          *)

\* A number taken modulo another is not larger than it was.
LEMMA ModuloIsSmaller ==
  ASSUME NEW a \in Nat, NEW b \in Nat \ {0}
  PROVE  a % b <= a
  OBVIOUS

\* What a cursor that is not before the window gets of a stream is all that follows it in the log.
LEMMA ReplayIsExact ==
  ASSUME NEW stream, NEW log, GoodStream(stream, log), NEW cursor \in Nat, ~OutsideWindow(stream, cursor),
         MaxMessages \in Nat
  PROVE  /\ ReplayFromCursor(stream, cursor) \in Seq(Event(0..MaxMessages))
         /\ Numbers(ReplayFromCursor(stream, cursor)) = SubSeq(log, cursor + 1, Len(log))
         /\ \A n : Holds(ReplayFromCursor(stream, cursor), n) => Holds(stream.events, n)
  <1> DEFINE M == 0..MaxMessages
             P == { n \in DOMAIN stream.events : stream.events[n].cursor > cursor }
  <1>1. PICK events, d : events = stream.events /\ d = Len(log) - Len(events)
    OBVIOUS
  <1>2. /\ events \in Seq(Event(M)) /\ log \in Seq(M)
        /\ Len(events) \in Nat /\ Len(log) \in Nat /\ DOMAIN events = 1..Len(events) /\ Len(events) <= Len(log)
        /\ Len(log) > 0 => Len(events) > 0
        /\ \A i \in 1..Len(events) : events[i].cursor = d + i /\ events[i].message = log[d + i]
    <2>1. events \in Seq(Event(M)) /\ log \in Seq(M) /\ Mirrors(stream, log)
      BY <1>1 DEF GoodStream, Stream, Event
    <2>2. \A i \in 1..Len(events) : events[i].cursor = d + i /\ events[i].message = log[d + i]
      <3>1. ASSUME NEW i \in 1..Len(events)
            PROVE  events[i].cursor = d + i /\ events[i].message = log[events[i].cursor]
        BY <1>1, <2>1 DEF Mirrors
      <3>2. QED
        BY <3>1
    <2>3. Len(events) <= Len(log) /\ (Len(log) > 0 => Len(events) > 0)
      BY <1>1, <2>1 DEF Mirrors
    <2>4. Len(events) \in Nat /\ Len(log) \in Nat /\ DOMAIN events = 1..Len(events)
      BY <2>1
    <2>5. QED
      BY <2>1, <2>2, <2>3, <2>4
  <1>3. d \in Nat /\ d <= cursor
    <2>1. d \in Nat
      BY <1>1, <1>2
    <2>2. CASE Len(events) = 0
      BY <1>1, <1>2, <2>2
    <2>3. CASE Len(events) > 0
      <3>1. events # << >> /\ events[1].cursor = d + 1
        BY <1>2, <2>3
      <3>2. ~((cursor + 1) % CursorSpan < events[1].cursor)
        BY <1>1, <3>1 DEF OutsideWindow
      <3>3. (cursor + 1) % CursorSpan <= cursor + 1 /\ (cursor + 1) % CursorSpan \in Nat
        BY HttpServerAssumption, ModuloIsSmaller
      <3>4. QED
        BY <2>1, <3>1, <3>2, <3>3
    <2>4. QED
      BY <1>2, <2>2, <2>3
  <1>4. PICK k \in Nat : k = cursor - d
    BY <1>3
  <1>5. \A i \in DOMAIN events : i \in P <=> i > k
    <2>1. ASSUME NEW i \in DOMAIN events PROVE i \in P <=> i > k
      <3>1. i \in P <=> events[i].cursor > cursor
        BY <1>1
      <3>2. events[i].cursor = d + i /\ i \in Nat
        BY <1>2
      <3>3. QED
        BY <1>3, <1>4, <3>1, <3>2
    <2>2. QED
      BY <2>1
  <1>6. ReplayFromCursor(stream, cursor) = Kept(events, P)
    BY <1>1 DEF ReplayFromCursor
  <1> HIDE DEF P
  <1>7. ReplayFromCursor(stream, cursor) = SubSeq(events, k + 1, Len(events))
    BY <1>2, <1>5, <1>6, KeptTail
  <1> DEFINE shown == SubSeq(events, k + 1, Len(events))
             rest == SubSeq(log, cursor + 1, Len(log))
  <1>8. /\ shown \in Seq(Event(M)) /\ Len(shown) = (IF Len(events) <= k THEN 0 ELSE Len(events) - k)
        /\ \A i \in 1..Len(shown) : shown[i] = events[k + i] /\ k + i \in 1..Len(events)
    BY <1>2, TailElements
  <1>9. /\ rest \in Seq(M) /\ Len(rest) = (IF Len(log) <= cursor THEN 0 ELSE Len(log) - cursor)
        /\ \A i \in 1..Len(rest) : rest[i] = log[cursor + i]
    <2>1. log \in Seq(M)
      BY <1>2
    <2>2. QED
      BY <2>1, TailElements
  <1> HIDE DEF shown, rest
  <1>10. Len(shown) = Len(rest) /\ DOMAIN shown = 1..Len(shown) /\ DOMAIN rest = 1..Len(rest)
    <2>1. Len(shown) = Len(rest)
      <3>1. CASE Len(events) <= k
        <4>1. Len(log) <= cursor
          BY <1>1, <1>2, <1>3, <1>4, <3>1
        <4>2. QED
          BY <1>8, <1>9, <3>1, <4>1
      <3>2. CASE ~(Len(events) <= k)
        <4>1. ~(Len(log) <= cursor) /\ Len(events) - k = Len(log) - cursor
          BY <1>1, <1>2, <1>3, <1>4, <3>2
        <4>2. QED
          BY <1>8, <1>9, <3>2, <4>1
      <3>3. QED
        BY <3>1, <3>2
    <2>2. QED
      BY <1>8, <1>9, <2>1
  <1>11. Numbers(shown) = rest
    <2>1. ASSUME NEW i \in 1..Len(shown) PROVE shown[i].message = rest[i]
      <3>1. shown[i] = events[k + i] /\ k + i \in 1..Len(events) /\ rest[i] = log[cursor + i]
        BY <1>8, <1>9, <1>10
      <3>2. events[k + i].message = log[d + (k + i)]
        BY <1>2, <3>1
      <3>3. d + (k + i) = cursor + i
        BY <1>3, <1>4
      <3>4. QED
        BY <3>1, <3>2, <3>3
    <2>2. Numbers(shown) = [i \in 1..Len(shown) |-> shown[i].message]
      BY <1>10 DEF Numbers
    <2>3. rest = [i \in 1..Len(rest) |-> rest[i]]
      BY <1>9
    <2>4. QED
      BY <1>10, <2>1, <2>2, <2>3
  <1>12. \A n : Holds(shown, n) => Holds(events, n)
    BY <1>8 DEF Holds
  <1>13. QED
    BY <1>1, <1>7, <1>8, <1>11, <1>12 DEF shown, rest

\* What a cursor gets of a buffer is its last part, from right after the cursor if the cursor
\* is not before the window.
LEMMA ReadIsTail ==
  ASSUME NEW buffer, GoodBuffer(buffer), NEW cursor \in Nat, MaxMessages \in Nat
  PROVE  /\ ReplayFromCursor(buffer, cursor) \in Seq(Event(0..MaxMessages))
         /\ \E k \in Nat : /\ ReplayFromCursor(buffer, cursor) = SubSeq(buffer.events, k + 1, Len(buffer.events))
                           /\ /\ ~OutsideLegacyWindow(buffer, cursor)
                              /\ ReplayFromCursor(buffer, cursor) # << >>
                              => ReplayFromCursor(buffer, cursor)[1].cursor = cursor + 1
  <1> DEFINE M == 1..MaxMessages
             P == { n \in DOMAIN buffer.events : buffer.events[n].cursor > cursor }
  <1>1. PICK events, d : events = buffer.events /\ d = buffer.nextCursor - 1 - Len(events)
    OBVIOUS
  <1>2. /\ events \in Seq(Event(M)) /\ Len(events) \in Nat /\ DOMAIN events = 1..Len(events) /\ d \in Nat
        /\ \A i \in 1..Len(events) : events[i].cursor = d + i
    <2>1. events \in Seq(Event(M)) /\ NoGap(events, buffer.nextCursor) /\ buffer.nextCursor \in Nat
      BY <1>1 DEF GoodBuffer, Buffer, Event
    <2>2. d \in Nat
      BY <1>1, <2>1 DEF NoGap
    <2>3. QED
      BY <1>1, <2>1, <2>2 DEF NoGap
  <1>3. PICK k \in Nat : (cursor < d => k = 0) /\ (cursor >= d => k = cursor - d)
    <2>1. CASE cursor < d
      BY <1>2, <2>1
    <2>2. CASE ~(cursor < d)
      <3>1. cursor - d \in Nat
        BY <1>2, <2>2
      <3>2. QED
        BY <1>2, <2>2, <3>1
    <2>3. QED
      BY <2>1, <2>2
  <1>4. \A i \in DOMAIN events : i \in P <=> i > k
    <2>1. ASSUME NEW i \in DOMAIN events PROVE i \in P <=> i > k
      <3>1. i \in P <=> events[i].cursor > cursor
        BY <1>1
      <3>2. events[i].cursor = d + i /\ i \in Nat \ {0}
        BY <1>2
      <3>3. d + i > cursor <=> i > k
        BY <1>2, <1>3, <3>2
      <3>4. QED
        BY <3>1, <3>2, <3>3
    <2>2. QED
      BY <2>1
  <1>5. ReplayFromCursor(buffer, cursor) = Kept(events, P)
    BY <1>1 DEF ReplayFromCursor
  <1> HIDE DEF P
  <1>6. ReplayFromCursor(buffer, cursor) = SubSeq(events, k + 1, Len(events))
    BY <1>2, <1>4, <1>5, KeptTail
  <1> DEFINE shown == SubSeq(events, k + 1, Len(events))
  <1>7. /\ shown \in Seq(Event(M))
        /\ \A i \in 1..Len(shown) : shown[i] = events[k + i] /\ k + i \in 1..Len(events)
    BY <1>2, TailElements
  <1> HIDE DEF shown
  <1>8. ASSUME ~OutsideLegacyWindow(buffer, cursor), shown # << >> PROVE shown[1].cursor = cursor + 1
    <2>1. 1 \in 1..Len(shown)
      BY <1>7, <1>8
    <2>2. shown[1].cursor = d + (k + 1) /\ 1 \in 1..Len(events)
      <3>1. shown[1] = events[k + 1] /\ k + 1 \in 1..Len(events)
        BY <1>7, <2>1
      <3>2. QED
        BY <1>2, <3>1
    <2>3. events # << >> /\ events[1].cursor = d + 1
      BY <1>2, <2>2
    <2>4. ~(cursor < d + 1 /\ cursor # (d + 1) - 1)
      BY <1>1, <1>8, <2>3 DEF OutsideLegacyWindow
    <2>5. QED
      BY <1>2, <1>3, <2>2, <2>4
  <1>9. shown \in Seq(Event(0..MaxMessages))
    <2>1. Event(M) \subseteq Event(0..MaxMessages)
      BY DEF Event
    <2>2. QED
      BY <1>7, <2>1, SeqMonotonic
  <1>10. QED
    BY <1>1, <1>6, <1>8, <1>9 DEF shown

\* A GET that resumes a stream of its session.
LEMMA ResumeStreamKeeps ==
  ASSUME ServerInv, NEW r \in Requests, ResumeStream(r)
  PROVE  ServerInv' /\ AnswerInv' /\ NothingOld
  <1> DEFINE n == r.lastEventId.stream
             cursor == r.lastEventId.cursor
             events == ReplayFromCursor(streams[n], cursor)
  <1>1. UNCHANGED << options, streams, pendingMessagesBySession, legacyEventsBySession, history, worker >>
    BY DEF ResumeStream, tables
  <1>2. Quiet
    BY <1>1, TablesStand DEF ServerInv
  <1>3. ServerInv' /\ NothingOld
    BY <1>2, QuietKeeps
  <1>4. /\ n \in DOMAIN streams /\ streams[n].session = r.session /\ cursor \in Nat /\ n \in Nat
        /\ GoodStream(streams[n], logged[n]) /\ MaxMessages \in Nat
    <2>1. n \in DOMAIN streams /\ streams[n].session = r.session
      BY DEF ResumeStream, Resumable
    <2>2. cursor \in Nat
      BY HttpServerAssumption DEF Request, LastEventId
    <2>3. QED
      BY <2>1, <2>2, StreamNumbers, HttpServerAssumption DEF ServerInv, StreamsInv
  <1>5. answer' = IF OutsideWindow(streams[n], cursor) THEN Reply(r.session, 409)
                  ELSE ReplyEvents(r.session, n, TRUE, cursor, events)
    BY DEF ResumeStream
  <1> HIDE DEF n, cursor, events
  <1>6. CASE OutsideWindow(streams[n], cursor)
    <2>1. answer'.events = << >> /\ answer'.stream = 0
      BY <1>5, <1>6, PlainAnswers
    <2>2. QED
      BY <1>3, <2>1, NothingShown
  <1>7. CASE ~OutsideWindow(streams[n], cursor)
    <2>1. /\ events \in Seq(Event(0..MaxMessages))
          /\ \A m : Holds(events, m) => Holds(streams[n].events, m)
      BY <1>4, <1>7, ReplayIsExact DEF events
    <2>2. Tells(answer', r.session, n, TRUE, cursor, events)
      BY <1>5, <1>7, EventAnswers
    <2>3. answer'.events = events /\ answer'.stream = n /\ answer'.session = r.session
      BY <2>2 DEF Tells
    <2>4. ShowsStream'
      BY <1>1, <1>4, <2>1, <2>3 DEF ShowsStream
    <2>5. QED
      BY <1>3, <1>4, <2>1, <2>3, <2>4 DEF AnswerInv
  <1>8. QED
    BY <1>6, <1>7

\* A GET of the legacy transport.
LEMMA ReadLegacyKeeps ==
  ASSUME ServerInv, NEW r \in Requests, r.session \in Keys, ReadLegacy(r)
  PROVE  ServerInv' /\ AnswerInv' /\ NothingOld
  <1> DEFINE key == r.session
             buffer == legacyEventsBySession[key]
             resumed == r.lastEventId.kind = "event"
             cursor == IF resumed THEN r.lastEventId.cursor ELSE 0
             events == ReplayFromCursor(buffer, cursor)
  <1>1. UNCHANGED << options, streams, pendingMessagesBySession, legacyEventsBySession, history, worker >>
    BY DEF ReadLegacy, tables
  <1>2. Quiet
    BY <1>1, TablesStand DEF ServerInv
  <1>3. ServerInv' /\ NothingOld
    BY <1>2, QuietKeeps
  <1>4. cursor \in Nat /\ GoodBuffer(buffer) /\ MaxMessages \in Nat
    <2>1. r.lastEventId.cursor \in Nat
      BY HttpServerAssumption DEF Request, LastEventId
    <2>2. QED
      BY <2>1, HttpServerAssumption DEF ServerInv, BuffersInv
  <1>5. answer' = IF r.lastEventId.kind = "malformed" THEN Reply(key, 400)
                  ELSE IF resumed /\ OutsideLegacyWindow(buffer, cursor) THEN Reply(key, 409)
                  ELSE ReplyEvents(key, 0, resumed, cursor, events)
    BY DEF ReadLegacy
  <1>6. buffer = legacyEventsBySession[key] /\ key \in Keys
    OBVIOUS
  <1> HIDE DEF key, buffer, resumed, cursor, events
  <1>7. CASE answer' \in {Reply(key, 400), Reply(key, 409)}
    <2>1. answer'.events = << >> /\ answer'.stream = 0
      BY <1>7, PlainAnswers
    <2>2. QED
      BY <1>3, <2>1, NothingShown
  <1>8. CASE answer' = ReplyEvents(key, 0, resumed, cursor, events) /\ ~(resumed /\ OutsideLegacyWindow(buffer, cursor))
    <2>1. PICK k \in Nat :
            /\ events \in Seq(Event(0..MaxMessages))
            /\ events = SubSeq(buffer.events, k + 1, Len(buffer.events))
            /\ ~OutsideLegacyWindow(buffer, cursor) /\ events # << >> => events[1].cursor = cursor + 1
      BY <1>4, ReadIsTail DEF events
    <2>2. Tells(answer', key, 0, resumed, cursor, events)
      BY <1>8, EventAnswers
    <2>3. /\ answer'.events = events /\ answer'.stream = 0 /\ answer'.session = key
          /\ answer'.resumed = resumed /\ answer'.after = cursor
      BY <2>2 DEF Tells
    <2>4. ASSUME events # << >> PROVE ShowsBuffer'
      <3>1. answer'.resumed => answer'.events[1].cursor = answer'.after + 1
        BY <1>8, <2>1, <2>3, <2>4
      <3>2. buffer.events = legacyEventsBySession'[answer'.session].events
        BY <1>1, <1>6, <2>3
      <3>3. QED
        BY <1>6, <2>1, <2>3, <3>1, <3>2 DEF ShowsBuffer
    <2>5. QED
      BY <1>3, <2>1, <2>3, <2>4 DEF AnswerInv
  <1>9. QED
    BY <1>5, <1>7, <1>8

-----------------------------------------------------------------------------
(* DELETE.                                                                 *)

\* A DELETE empties the queue and the buffer of its session and closes its streams.
LEMMA DeleteSessionKeeps ==
  ASSUME ServerInv, NEW r, r.session \in Keys, DeleteSession(r)
  PROVE  ServerInv' /\ AnswerInv'
  <1> DEFINE key == r.session
             closed(n) == [streams[n] EXCEPT !.terminated = @ \/ streams[n].session = key]
  <1>0. TypeInv /\ StreamsInv /\ QueuesInv /\ BuffersInv /\ ErasedInv /\ PlacesInv /\ key \in Keys
    BY DEF ServerInv
  <1>1. /\ streams' = [n \in DOMAIN streams |-> closed(n)]
        /\ pendingMessagesBySession' = [pendingMessagesBySession EXCEPT ![key] = << >>]
        /\ legacyEventsBySession' = [legacyEventsBySession EXCEPT ![key] = EmptyBuffer]
        /\ erased' = erased \cup ToSet(pendingMessagesBySession[key])
        /\ answer' = Reply(key, 204)
        /\ UNCHANGED << options, worker, sent, logged >>
    BY DEF DeleteSession
  <1>2. ASSUME NEW n \in DOMAIN streams PROVE SameEvents(closed(n), streams[n])
    <2>1. streams[n] \in Stream
      BY <1>0, StreamNumbers
    <2>2. (streams[n].terminated \/ streams[n].session = key) \in BOOLEAN
      BY <2>1 DEF Stream
    <2>3. QED
      BY <2>1, <2>2, FlagsChange
  <1> HIDE DEF key, closed
  <1>3. StreamsStand
    <2>1. streams \in Seq(Stream) /\ \A n \in DOMAIN streams : closed(n) \in Stream
      BY <1>0, <1>2 DEF TypeInv, SameEvents
    <2>2. /\ streams' \in Seq(Stream) /\ Len(streams') = Len(streams)
          /\ \A n \in DOMAIN streams : streams'[n] = closed(n)
      BY <1>1, <2>1
    <2>3. QED
      BY <1>2, <2>2 DEF StreamsStand
  <1>4. SentGrows
    BY <1>1 DEF SentGrows
  <1>5. /\ DOMAIN pendingMessagesBySession' = Keys
        /\ \A k \in Keys : pendingMessagesBySession'[k] =
             IF k = key THEN << >> ELSE pendingMessagesBySession[k]
        /\ ToSet(<< >>) = {} /\ Increasing(<< >>)
    BY <1>0, <1>1 DEF TypeInv, ToSet, Increasing
  <1>6. ASSUME NEW n \in erased' PROVE n \in erased \/ n \in ToSet(pendingMessagesBySession[key])
    BY <1>1, <1>6
  <1>7. TypeInv'
    <2>1. pendingMessagesBySession' \in [Keys -> Seq(1..MaxMessages)]
      <3>1. << >> \in Seq(1..MaxMessages)
        OBVIOUS
      <3>2. QED
        BY <1>0, <1>1, <3>1 DEF TypeInv
    <2>2. QED
      BY <1>0, <1>1, <1>3, <2>1 DEF TypeInv, StreamsStand
  <1>8. StreamsInv'
    <2>1. DOMAIN streams' = DOMAIN streams
      BY <1>0, <1>3 DEF StreamsStand, TypeInv
    <2>2. ASSUME NEW i \in DOMAIN streams
          PROVE  /\ GoodStream(streams'[i], logged'[i]) /\ Increasing(logged'[i])
                 /\ \A n \in ToSet(logged'[i]) \ {0} :
                      n \in DOMAIN sent' /\ sent'[n].session = streams'[i].session /\ n \notin erased'
      <3>1. GoodStream(streams'[i], logged[i]) /\ streams'[i].session = streams[i].session
        BY <1>0, <1>3, GoodStreamStands DEF StreamsStand, StreamsInv
      <3>2. \A n \in ToSet(logged[i]) : n \notin ToSet(pendingMessagesBySession[key])
        BY <1>0, StreamNumbers DEF PlacesInv
      <3>3. QED
        BY <1>0, <1>1, <1>6, <3>1, <3>2 DEF StreamsInv
    <2>3. QED
      BY <2>1, <2>2 DEF StreamsInv
  <1>9. QueuesInv'
    <2>1. ASSUME NEW k \in Keys, NEW n \in ToSet(pendingMessagesBySession'[k])
          PROVE  n \in DOMAIN sent' /\ sent'[n].session = k /\ sent'[n].from = "queue" /\ n \notin erased'
      <3>1. k # key /\ n \in ToSet(pendingMessagesBySession[k])
        BY <1>5, <2>1
      <3>2. n \in DOMAIN sent /\ sent[n].session = k /\ sent[n].from = "queue" /\ n \notin erased
        BY <1>0, <3>1 DEF QueuesInv
      <3>3. n \notin ToSet(pendingMessagesBySession[key])
        BY <1>0, <3>1, <3>2 DEF QueuesInv
      <3>4. QED
        BY <1>1, <1>6, <3>2, <3>3
    <2>2. QED
      BY <1>0, <1>5, <2>1 DEF QueuesInv
  <1>10. BuffersInv'
    <2>1. DOMAIN legacyEventsBySession = Keys
      BY <1>0 DEF TypeInv
    <2>2. \A k \in Keys : legacyEventsBySession'[k] = IF k = key THEN EmptyBuffer ELSE legacyEventsBySession[k]
      BY <1>1, <2>1
    <2>3. GoodBuffer(EmptyBuffer) /\ \A n : ~Holds(EmptyBuffer.events, n)
      BY DEF GoodBuffer, EmptyBuffer, Buffer, NoGap, Holds
    <2>4. QED
      BY <1>0, <1>1, <2>2, <2>3 DEF BuffersInv
  <1>11. ErasedInv'
    BY <1>0, <1>1, <1>6 DEF ErasedInv, QueuesInv
  <1>12. PlacesInv'
    <2>1. \A n : Listed(n)' <=> Listed(n)
      BY <1>1 DEF Listed
    <2>2. ASSUME NEW n \in DOMAIN sent', sent'[n].from = "queue", n \notin erased', sent'[n].size = "fits"
          PROVE  Listed(n)' \/ Waits(n)'
      <3>1. n \in DOMAIN sent /\ sent[n].from = "queue" /\ n \notin erased /\ sent[n].size = "fits"
            /\ n \notin ToSet(pendingMessagesBySession[key])
        BY <1>1, <2>2
      <3>2. CASE Waits(n)
        BY <1>5, <3>1, <3>2 DEF Waits
      <3>3. QED
        BY <1>0, <2>1, <3>1, <3>2 DEF PlacesInv
    <2>3. \A i \in DOMAIN logged', k \in Keys : \A n \in ToSet(logged'[i]) : n \notin ToSet(pendingMessagesBySession'[k])
      BY <1>0, <1>1, <1>5 DEF PlacesInv
    <2>4. \A i, j \in DOMAIN logged' : \A n \in ToSet(logged'[i]) \cap ToSet(logged'[j]) : n = 0 \/ i = j
      BY <1>0, <1>1 DEF PlacesInv
    <2>5. QED
      BY <2>2, <2>3, <2>4 DEF PlacesInv
  <1>13. AnswerInv'
    <2>1. answer'.events = << >> /\ answer'.stream = 0
      BY <1>1, PlainAnswers
    <2>2. QED
      BY <2>1, NothingShown
  <1>14. QED
    BY <1>7, <1>8, <1>9, <1>10, <1>11, <1>12, <1>13 DEF ServerInv

-----------------------------------------------------------------------------
(* The application hands a message over.                                   *)

\* Streams of which some were closed while a target was looked for.
WalkedLike(walked) ==
  /\ walked \in Seq(Stream) /\ Len(walked) = Len(streams)
  /\ \A i \in DOMAIN streams :
       SameEvents(walked[i], streams[i]) /\ (streams[i].terminated => walked[i].terminated)

\* The message goes to a stream, waits in the queue of its session, or is refused.
ToStream(walked, key, response, size) ==
  \E target \in Candidates(key) :
    /\ sent' = Append(sent, Handed(key, "queue", size))
    /\ streams' = [walked EXCEPT ![target] =
                     [WithEvents(walked[target], << Len(sent) + 1 >>) EXCEPT !.terminated = response]]
    /\ logged' = [logged EXCEPT ![target] = Append(logged[target], Len(sent) + 1)]
    /\ UNCHANGED pendingMessagesBySession
ToQueue(walked, key, size) ==
  /\ sent' = Append(sent, Handed(key, "queue", size))
  /\ streams' = walked
  /\ pendingMessagesBySession' =
       [pendingMessagesBySession EXCEPT ![key] = Append(pendingMessagesBySession[key], Len(sent) + 1)]
  /\ UNCHANGED logged
Refused(walked) ==
  /\ streams' = walked
  /\ UNCHANGED << sent, logged, pendingMessagesBySession >>

\* These are all the cases.
LEMMA EnqueueCases ==
  ASSUME ServerInv, NEW key, NEW response, NEW size, EnqueueServerMessage(key, response, size)
  PROVE  \E walked : /\ WalkedLike(walked)
                     /\ ToStream(walked, key, response, size) \/ ToQueue(walked, key, size) \/ Refused(walked)
  <1> DEFINE closed(n) == [streams[n] EXCEPT !.terminated = @ \/ (n \in Walked(key, response) /\ streams[n].aged)]
             target == ChooseTargetStream(key, response)
             accepted == Accepts(key, response, size)
  <1>1. TypeInv /\ DOMAIN streams \subseteq Nat \ {0}
    BY StreamNumbers DEF ServerInv
  <1>2. PICK walked : walked = [n \in DOMAIN streams |-> closed(n)]
    OBVIOUS
  <1>3. ASSUME NEW n \in DOMAIN streams
        PROVE  SameEvents(closed(n), streams[n]) /\ (streams[n].terminated => closed(n).terminated)
    <2>1. streams[n] \in Stream
      BY <1>1, StreamNumbers
    <2>2. PICK flag \in BOOLEAN :
            flag = (streams[n].terminated \/ (n \in Walked(key, response) /\ streams[n].aged))
      BY <2>1 DEF Stream
    <2>3. closed(n) = [streams[n] EXCEPT !.terminated = flag]
      BY <2>2
    <2>4. /\ SameEvents([streams[n] EXCEPT !.terminated = flag], streams[n])
          /\ [streams[n] EXCEPT !.terminated = flag].terminated = flag
      BY <2>1, FlagsChange, FlagsOf
    <2> HIDE DEF closed
    <2>5. SameEvents(closed(n), streams[n]) /\ closed(n).terminated = flag
      BY <2>3, <2>4
    <2>6. QED
      BY <2>2, <2>5
  <1>4. /\ sent' = IF accepted THEN Append(sent, Handed(key, "queue", size)) ELSE sent
        /\ IF target # 0 /\ accepted
           THEN /\ streams' = [walked EXCEPT ![target] =
                                 [WithEvents(walked[target], << Len(sent) + 1 >>) EXCEPT !.terminated = response]]
                /\ logged' = [logged EXCEPT ![target] = Append(logged[target], Len(sent) + 1)]
                /\ UNCHANGED pendingMessagesBySession
           ELSE /\ streams' = walked
                /\ pendingMessagesBySession' =
                     IF accepted
                     THEN [pendingMessagesBySession EXCEPT ![key] =
                             Append(pendingMessagesBySession[key], Len(sent) + 1)]
                     ELSE pendingMessagesBySession
                /\ UNCHANGED logged
    BY <1>2 DEF EnqueueServerMessage
  <1>5. target = 0 \/ target \in Candidates(key)
    BY <1>1, TargetIsCandidate
  <1> HIDE DEF closed, target, accepted
  <1>6. WalkedLike(walked)
    <2>1. streams \in Seq(Stream) /\ \A n \in DOMAIN streams : closed(n) \in Stream
      BY <1>1, <1>3 DEF TypeInv, SameEvents
    <2>2. /\ walked \in Seq(Stream) /\ Len(walked) = Len(streams)
          /\ \A n \in DOMAIN streams : walked[n] = closed(n)
      BY <1>2, <2>1
    <2>3. QED
      BY <1>3, <2>2 DEF WalkedLike
  <1>7. CASE target # 0 /\ accepted
    BY <1>4, <1>5, <1>6, <1>7 DEF ToStream
  <1>8. CASE ~(target # 0 /\ accepted) /\ accepted
    BY <1>4, <1>6, <1>8 DEF ToQueue
  <1>9. CASE ~accepted
    BY <1>4, <1>6, <1>9 DEF Refused
  <1>10. QED
    BY <1>7, <1>8, <1>9

\* One more message.
LEMMA SentAppended ==
  ASSUME TypeInv, NEW message \in Message, Len(sent) < MaxMessages, MaxMessages \in Nat,
         sent' = Append(sent, message)
  PROVE  /\ sent' \in Seq(Message) /\ Len(sent') <= MaxMessages
         /\ DOMAIN sent' = 1..(Len(sent) + 1) /\ sent'[Len(sent) + 1] = message
         /\ Len(sent) + 1 \in 1..MaxMessages /\ Len(sent) + 1 \in DOMAIN sent' \ DOMAIN sent
         /\ SentGrows
         /\ \A n \in DOMAIN sent' : n \in DOMAIN sent \/ n = Len(sent) + 1
  <1>1. sent \in Seq(Message) /\ Len(sent) \in Nat /\ DOMAIN sent = 1..Len(sent)
    BY DEF TypeInv
  <1>2. /\ sent' \in Seq(Message) /\ Len(sent') = Len(sent) + 1
        /\ \A n \in 1..Len(sent) : sent'[n] = sent[n]
        /\ sent'[Len(sent) + 1] = message /\ DOMAIN sent' = 1..(Len(sent) + 1)
    BY <1>1, AppendProperties, LenProperties
  <1>3. QED
    BY <1>1, <1>2 DEF SentGrows

\* A sequence of earlier numbers with the number of a new message after it.
LEMMA NumberAppended ==
  ASSUME MaxMessages \in Nat, NEW s \in Seq(0..MaxMessages), Increasing(s), NEW number \in 0..MaxMessages,
         \A n \in ToSet(s) : n < number
  PROVE  /\ Append(s, number) = s \o << number >> /\ Append(s, number) \in Seq(0..MaxMessages)
         /\ Increasing(Append(s, number)) /\ ToSet(Append(s, number)) = ToSet(s) \cup {number}
  <1>1. PICK last : last = << number >>
    OBVIOUS
  <1>2. /\ last \in Seq(0..MaxMessages) /\ last \in Seq(Nat) /\ Increasing(last) /\ ToSet(last) = {number}
    BY <1>1 DEF Increasing, ToSet
  <1>3. s \in Seq(Nat)
    BY SeqMonotonic
  <1>4. Increasing(s \o last)
    BY <1>2, <1>3, IncreasingAfter
  <1>5. s \o last \in Seq(0..MaxMessages) /\ ToSet(s \o last) = ToSet(s) \cup ToSet(last)
    BY <1>2, ConcatElements
  <1>6. Append(s, number) = s \o last
    BY <1>1, AppendIsConcat
  <1>7. QED
    BY <1>1, <1>2, <1>4, <1>5, <1>6

\* What every case of a call of the application leaves alone.
EnqueueFrame ==
  /\ Len(sent) < MaxMessages
  /\ answer' = NoReply
  /\ UNCHANGED << options, sessions, legacyEventsBySession, worker, erased, forgotten >>

\* A message that goes to a stream.
LEMMA ToStreamKeeps ==
  ASSUME ServerInv, EnqueueFrame, NEW key \in Keys, NEW response \in BOOLEAN, NEW size \in Sizes,
         NEW walked, WalkedLike(walked), ToStream(walked, key, response, size)
  PROVE  ServerInv' /\ LogsGoOn /\ NothingOld
  <1> DEFINE number == Len(sent) + 1
  <1>0. /\ TypeInv /\ StreamsInv /\ QueuesInv /\ BuffersInv /\ ErasedInv /\ PlacesInv /\ MaxMessages \in Nat
        /\ options.maxSseBufferedMessages \in Nat \ {0}
        /\ UNCHANGED << options, legacyEventsBySession, worker, erased, forgotten, pendingMessagesBySession >>
    BY HttpServerAssumption DEF ServerInv, TypeInv, Options, EnqueueFrame, ToStream
  <1>1. PICK target \in Candidates(key) :
          /\ sent' = Append(sent, Handed(key, "queue", size))
          /\ streams' = [walked EXCEPT ![target] =
                           [WithEvents(walked[target], << number >>) EXCEPT !.terminated = response]]
          /\ logged' = [logged EXCEPT ![target] = Append(logged[target], number)]
    BY DEF ToStream
  <1>2. target \in DOMAIN streams /\ streams[target].session = key
    BY DEF Candidates
  <1>3. /\ sent' \in Seq(Message) /\ Len(sent') <= MaxMessages /\ SentGrows
        /\ number \in 1..MaxMessages /\ number \in DOMAIN sent' \ DOMAIN sent
        /\ sent'[number] = Handed(key, "queue", size)
        /\ \A n \in DOMAIN sent' : n \in DOMAIN sent \/ n = number
    <2>1. Handed(key, "queue", size) \in Message
      BY DEF Handed, Message
    <2>2. QED
      BY <1>0, <1>1, <2>1, SentAppended DEF EnqueueFrame
  <1>4. sent'[number].session = key /\ sent'[number].from = "queue"
    BY <1>3 DEF Handed
  <1>5. \A n \in DOMAIN sent : n < number /\ n # 0
    BY <1>0, StreamNumbers
  <1> HIDE DEF number
  <1>6. \A n : n \in DOMAIN sent => ~(n = number)
    BY <1>3
  <1>7. /\ GoodStream(walked[target], logged[target]) /\ walked[target].session = key
        /\ Increasing(logged[target])
        /\ \A n \in ToSet(logged[target]) : n = 0 \/ n \in DOMAIN sent
    <2>1. SameEvents(walked[target], streams[target]) /\ GoodStream(streams[target], logged[target])
      BY <1>0, <1>2 DEF WalkedLike, StreamsInv
    <2>2. GoodStream(walked[target], logged[target]) /\ walked[target].session = key
      BY <1>2, <2>1, GoodStreamStands
    <2>3. QED
      BY <1>0, <1>2, <2>2 DEF StreamsInv
  <1>8. PICK log : /\ log = Append(logged[target], number) /\ log = logged[target] \o << number >>
                   /\ log \in Seq(0..MaxMessages) /\ Increasing(log)
                   /\ ToSet(log) = ToSet(logged[target]) \cup {number}
    <2>1. logged[target] \in Seq(0..MaxMessages)
      BY <1>7 DEF GoodStream
    <2>2. \A n \in ToSet(logged[target]) : n < number
      BY <1>3, <1>5, <1>7
    <2>3. number \in 0..MaxMessages
      BY <1>0, <1>3
    <2>4. QED
      BY <1>0, <1>7, <2>1, <2>2, <2>3, NumberAppended
  <1>9. PICK stream : /\ stream = [WithEvents(walked[target], << number >>) EXCEPT !.terminated = response]
                      /\ GoodStream(stream, log) /\ stream.session = key
    <2>1. PICK messages : messages = << number >> /\ messages \in Seq(0..MaxMessages)
      <3>1. number \in 0..MaxMessages
        BY <1>0, <1>3
      <3>2. << number >> \in Seq(0..MaxMessages)
        BY <3>1
      <3>3. QED
        BY <3>2
    <2>0. /\ options.maxSseBufferedMessages \in Nat \ {0} /\ messages \in Seq(0..MaxMessages)
          /\ GoodStream(walked[target], logged[target])
      BY <1>0, <1>7, <2>1
    <2>2. PICK new : /\ new = WithEvents(walked[target], messages)
                     /\ GoodStream(new, logged[target] \o messages)
                     /\ \A d \in {"session", "kind", "terminated", "aged"} : new[d] = walked[target][d]
      BY <2>0, StreamAfter
    <2>3. GoodStream(new, log) /\ new.session = key /\ new \in Stream
      BY <1>7, <1>8, <2>1, <2>2 DEF GoodStream
    <2>4. SameEvents([new EXCEPT !.terminated = response], new)
      BY <2>3, FlagsChange
    <2>5. QED
      BY <2>1, <2>2, <2>3, <2>4, GoodStreamStands
  <1>10. stream \in Stream
    BY <1>9 DEF GoodStream
  <1>11. /\ streams' \in Seq(Stream) /\ Len(streams') = Len(streams) /\ DOMAIN streams' = DOMAIN streams
         /\ \A i \in DOMAIN streams : streams'[i] = IF i = target THEN stream ELSE walked[i]
    <2>1. streams' = [walked EXCEPT ![target] = stream]
      BY <1>1, <1>9
    <2>2. walked \in Seq(Stream) /\ Len(walked) = Len(streams) /\ DOMAIN walked = DOMAIN streams
      BY <1>0 DEF WalkedLike, TypeInv
    <2>3. QED
      BY <1>2, <1>10, <2>1, <2>2
  <1>12. /\ logged' \in Seq(Seq(0..MaxMessages)) /\ Len(logged') = Len(logged) /\ DOMAIN logged' = DOMAIN logged
         /\ \A i \in DOMAIN logged : logged'[i] = IF i = target THEN log ELSE logged[i]
    <2>1. logged' = [logged EXCEPT ![target] = log]
      BY <1>1, <1>8
    <2>2. logged \in Seq(Seq(0..MaxMessages)) /\ target \in DOMAIN logged
      BY <1>0, <1>2, StreamNumbers DEF TypeInv
    <2>3. QED
      BY <1>8, <2>1, <2>2
  <1>13. DOMAIN logged = DOMAIN streams
    BY <1>0, StreamNumbers
  <1>14. TypeInv'
    BY <1>0, <1>3, <1>11, <1>12 DEF TypeInv
  <1>15. number \notin erased /\ \A k \in Keys : number \notin ToSet(pendingMessagesBySession[k])
    BY <1>0, <1>3 DEF ErasedInv, QueuesInv
  <1>16. StreamsInv'
    <2>1. ASSUME NEW i \in DOMAIN streams
          PROVE  /\ GoodStream(streams'[i], logged'[i]) /\ Increasing(logged'[i])
                 /\ \A n \in ToSet(logged'[i]) \ {0} :
                      n \in DOMAIN sent' /\ sent'[n].session = streams'[i].session /\ n \notin erased'
      <3>1. CASE i = target
        <4>1. streams'[i] = stream /\ logged'[i] = log
          BY <1>11, <1>12, <1>13, <3>1
        <4>2. ASSUME NEW n \in ToSet(log) \ {0}
              PROVE  n \in DOMAIN sent' /\ sent'[n].session = key /\ n \notin erased'
          <5>1. CASE n = number
            BY <1>0, <1>3, <1>4, <1>15, <5>1
          <5>2. CASE n \in ToSet(logged[target])
            <6>1. n \in DOMAIN sent /\ sent[n].session = key /\ n \notin erased
              BY <1>0, <1>2, <4>2, <5>2 DEF StreamsInv
            <6>2. QED
              BY <1>0, <1>3, <6>1 DEF SentGrows
          <5>3. QED
            BY <1>8, <4>2, <5>1, <5>2
        <4>3. QED
          BY <1>8, <1>9, <4>1, <4>2
      <3>2. CASE i # target
        <4>1. streams'[i] = walked[i] /\ logged'[i] = logged[i]
          BY <1>11, <1>12, <1>13, <3>2
        <4>2. GoodStream(walked[i], logged[i]) /\ walked[i].session = streams[i].session
          BY <1>0, GoodStreamStands DEF WalkedLike, StreamsInv
        <4>3. QED
          BY <1>0, <1>3, <4>1, <4>2 DEF StreamsInv, SentGrows
      <3>3. QED
        BY <3>1, <3>2
    <2>2. QED
      BY <1>11, <2>1 DEF StreamsInv
  <1>17. QueuesInv'
    BY <1>0, <1>3, QueuesKept
  <1>18. BuffersInv'
    BY <1>0, <1>3, BuffersKept
  <1>19. ErasedInv'
    BY <1>0, <1>3, ErasedKept
  <1>20. PlacesInv'
    <2>1. \A i \in DOMAIN logged : \A n \in ToSet(logged[i]) : n # number
      <3>1. number # 0
        BY <1>3
      <3>2. QED
        BY <1>0, <1>6, <1>13, <3>1 DEF StreamsInv
    <2>2. ASSUME NEW i \in DOMAIN logged', NEW j \in DOMAIN logged', NEW n \in ToSet(logged'[i]) \cap ToSet(logged'[j])
          PROVE  n = 0 \/ i = j
      <3>1. i \in DOMAIN logged /\ j \in DOMAIN logged
        BY <1>12
      <3>2. CASE n = number
        <4>1. \A m \in DOMAIN logged : m = target \/ n \notin ToSet(logged'[m])
          BY <1>12, <2>1, <3>2
        <4>2. QED
          BY <2>2, <3>1, <4>1
      <3>3. CASE n # number
        <4>1. \A m \in DOMAIN logged : n \in ToSet(logged'[m]) => n \in ToSet(logged[m])
          BY <1>8, <1>12, <3>3
        <4>2. QED
          BY <1>0, <2>2, <3>1, <4>1 DEF PlacesInv
      <3>4. QED
        BY <3>2, <3>3
    <2>3. ASSUME NEW i \in DOMAIN logged', NEW k \in Keys, NEW n \in ToSet(logged'[i])
          PROVE  n \notin ToSet(pendingMessagesBySession'[k])
      <3>1. n = number \/ n \in ToSet(logged[i])
        BY <1>8, <1>12, <2>3
      <3>2. QED
        BY <1>0, <1>12, <1>15, <3>1 DEF PlacesInv
    <2>4. ASSUME NEW n \in DOMAIN sent', sent'[n].from = "queue", n \notin erased', sent'[n].size = "fits"
          PROVE  Listed(n)' \/ Waits(n)'
      <3>1. \A m \in DOMAIN logged : ToSet(logged[m]) \subseteq ToSet(logged'[m])
        BY <1>8, <1>12
      <3>2. CASE n = number
        BY <1>2, <1>8, <1>12, <1>13, <3>2 DEF Listed
      <3>3. CASE n \in DOMAIN sent
        <4>1. Listed(n) \/ Waits(n)
          BY <1>0, <1>3, <2>4, <3>3 DEF PlacesInv, SentGrows
        <4>2. QED
          BY <1>0, <1>12, <3>1, <4>1 DEF Listed, Waits
      <3>4. QED
        BY <1>3, <3>2, <3>3
    <2>5. QED
      BY <2>2, <2>3, <2>4 DEF PlacesInv
  <1>21. LogsGoOn
    <2>1. ASSUME NEW i \in DOMAIN streams
          PROVE  /\ streams'[i].session = streams[i].session
                 /\ Log!IsPrefix(logged[i], logged'[i])
                 /\ streams[i].terminated => streams'[i].terminated /\ logged'[i] = logged[i]
      <3>1. logged[i] \in Seq(0..MaxMessages)
        BY <1>0, StreamNumbers
      <3>2. CASE i = target
        <4>1. streams'[i] = stream /\ logged'[i] = Append(logged[i], number) /\ ~streams[i].terminated
          BY <1>1, <1>8, <1>11, <1>12, <1>13, <3>2 DEF Candidates
        <4>2. number \in 0..MaxMessages
          BY <1>0, <1>3
        <4>3. Log!IsPrefix(logged[i], Append(logged[i], number))
          BY <3>1, <4>2, PrefixOfLonger
        <4>4. streams'[i].session = streams[i].session
          BY <1>2, <1>9, <3>2, <4>1
        <4>5. QED
          BY <4>1, <4>3, <4>4
      <3>3. CASE i # target
        <4>1. streams'[i] = walked[i] /\ logged'[i] = logged[i]
          BY <1>11, <1>12, <1>13, <3>3
        <4>2. walked[i].session = streams[i].session /\ (streams[i].terminated => walked[i].terminated)
          BY DEF WalkedLike, SameEvents
        <4>3. QED
          BY <3>1, <4>1, <4>2, PrefixOfItself
      <3>4. QED
        BY <3>2, <3>3
    <2>2. Len(streams) \in Nat /\ Len(streams') = Len(streams)
      BY <1>0, <1>11, StreamNumbers
    <2>3. QED
      BY <2>1, <2>2 DEF LogsGoOn
  <1>22. NothingOld
    <2>1. ASSUME NEW n \in DOMAIN sent, Listed(n)' PROVE Listed(n)
      BY <1>6, <1>8, <1>12, <2>1 DEF Listed
    <2>2. \A n : (Waits(n)' => Waits(n)) /\ (Stored(n)' => Stored(n))
      BY <1>0 DEF Waits, Stored
    <2>3. QED
      BY <1>0, <1>3, <2>1, <2>2 DEF NothingOld
  <1>23. QED
    BY <1>14, <1>16, <1>17, <1>18, <1>19, <1>20, <1>21, <1>22 DEF ServerInv

\* A message that waits in the queue of its session.
LEMMA ToQueueKeeps ==
  ASSUME ServerInv, EnqueueFrame, NEW key \in Keys, NEW size \in Sizes,
         NEW walked, WalkedLike(walked), ToQueue(walked, key, size)
  PROVE  ServerInv' /\ NothingOld
  <1> DEFINE number == Len(sent) + 1
             queue == pendingMessagesBySession[key]
  <1>0. /\ TypeInv /\ StreamsInv /\ QueuesInv /\ BuffersInv /\ ErasedInv /\ PlacesInv /\ MaxMessages \in Nat
        /\ UNCHANGED << options, legacyEventsBySession, worker, erased, forgotten, logged >>
        /\ sent' = Append(sent, Handed(key, "queue", size)) /\ streams' = walked
        /\ pendingMessagesBySession' = [pendingMessagesBySession EXCEPT ![key] = Append(queue, number)]
    BY HttpServerAssumption DEF ServerInv, EnqueueFrame, ToQueue
  <1>1. StreamsStand
    BY <1>0 DEF WalkedLike, StreamsStand
  <1>3. /\ sent' \in Seq(Message) /\ Len(sent') <= MaxMessages /\ SentGrows
        /\ number \in 1..MaxMessages /\ number \in DOMAIN sent' \ DOMAIN sent
        /\ sent'[number] = Handed(key, "queue", size)
        /\ \A n \in DOMAIN sent' : n \in DOMAIN sent \/ n = number
    <2>1. Handed(key, "queue", size) \in Message
      BY DEF Handed, Message
    <2>2. QED
      BY <1>0, <2>1, SentAppended DEF EnqueueFrame
  <1>4. sent'[number].session = key /\ sent'[number].from = "queue"
    BY <1>3 DEF Handed
  <1>5. \A n \in DOMAIN sent : n < number /\ n # 0
    BY <1>0, StreamNumbers
  <1>6. queue \in Seq(1..MaxMessages) /\ Increasing(queue) /\ \A n \in ToSet(queue) : n \in DOMAIN sent
    BY <1>0 DEF TypeInv, QueuesInv
  <1> HIDE DEF number, queue
  <1>7. PICK longer : /\ longer = Append(queue, number) /\ longer \in Seq(1..MaxMessages) /\ Increasing(longer)
                      /\ ToSet(longer) = ToSet(queue) \cup {number}
    <2>1. queue \in Seq(0..MaxMessages) /\ number \in 0..MaxMessages
      <3>1. 1..MaxMessages \subseteq 0..MaxMessages
        OBVIOUS
      <3>2. queue \in Seq(0..MaxMessages)
        BY <1>6, <3>1, SeqMonotonic
      <3>3. QED
        BY <1>3, <3>1, <3>2
    <2>2. \A n \in ToSet(queue) : n < number
      BY <1>5, <1>6
    <2>3. Increasing(Append(queue, number)) /\ ToSet(Append(queue, number)) = ToSet(queue) \cup {number}
      BY <1>0, <1>6, <2>1, <2>2, NumberAppended
    <2>4. Append(queue, number) \in Seq(1..MaxMessages)
      BY <1>3, <1>6, AppendProperties
    <2>5. QED
      BY <2>3, <2>4
  <1>8. /\ DOMAIN pendingMessagesBySession' = Keys
        /\ pendingMessagesBySession' \in [Keys -> Seq(1..MaxMessages)]
        /\ \A k \in Keys : pendingMessagesBySession'[k] = IF k = key THEN longer ELSE pendingMessagesBySession[k]
    BY <1>0, <1>7 DEF TypeInv
  <1>9. TypeInv'
    BY <1>0, <1>1, <1>3, <1>8 DEF TypeInv, StreamsStand
  <1>10. StreamsInv'
    BY <1>0, <1>1, <1>3, StreamsKept
  <1>11. number \notin erased /\ \A i \in DOMAIN logged : number \notin ToSet(logged[i])
    <2>1. number # 0
      BY <1>3
    <2>2. QED
      BY <1>0, <1>3, <2>1, StreamNumbers DEF ErasedInv, StreamsInv
  <1>12. QueuesInv'
    <2>1. ASSUME NEW k \in Keys, NEW n \in ToSet(pendingMessagesBySession'[k])
          PROVE  n \in DOMAIN sent' /\ sent'[n].session = k /\ sent'[n].from = "queue" /\ n \notin erased'
      <3>1. CASE n = number /\ k = key
        BY <1>0, <1>3, <1>4, <1>11, <3>1
      <3>2. CASE n \in ToSet(pendingMessagesBySession[k])
        BY <1>0, <1>3, <3>2 DEF QueuesInv, SentGrows
      <3>3. QED
        BY <1>7, <1>8, <2>1, <3>1, <3>2 DEF queue
    <2>2. \A k \in Keys : Increasing(pendingMessagesBySession'[k])
      BY <1>0, <1>7, <1>8 DEF QueuesInv
    <2>3. QED
      BY <2>1, <2>2 DEF QueuesInv
  <1>13. BuffersInv'
    BY <1>0, <1>3, BuffersKept
  <1>14. ErasedInv'
    BY <1>0, <1>3, ErasedKept
  <1>15. PlacesInv'
    <2>1. \A i, j \in DOMAIN logged' : \A n \in ToSet(logged'[i]) \cap ToSet(logged'[j]) : n = 0 \/ i = j
      BY <1>0 DEF PlacesInv
    <2>2. ASSUME NEW i \in DOMAIN logged', NEW k \in Keys, NEW n \in ToSet(logged'[i])
          PROVE  n \notin ToSet(pendingMessagesBySession'[k])
      <3>1. n # number /\ n \notin ToSet(pendingMessagesBySession[k]) /\ n \notin ToSet(queue)
        BY <1>0, <1>11, <2>2 DEF PlacesInv, queue
      <3>2. QED
        BY <1>7, <1>8, <3>1
    <2>3. ASSUME NEW n \in DOMAIN sent', sent'[n].from = "queue", n \notin erased', sent'[n].size = "fits"
          PROVE  Listed(n)' \/ Waits(n)'
      <3>1. CASE n = number
        BY <1>7, <1>8, <3>1 DEF Waits
      <3>2. CASE n \in DOMAIN sent
        <4>1. Listed(n) \/ Waits(n)
          BY <1>0, <1>3, <2>3, <3>2 DEF PlacesInv, SentGrows
        <4>2. \A k \in Keys : ToSet(pendingMessagesBySession[k]) \subseteq ToSet(pendingMessagesBySession'[k])
          BY <1>7, <1>8 DEF queue
        <4>3. QED
          BY <1>0, <4>1, <4>2 DEF Listed, Waits
      <3>3. QED
        BY <1>3, <3>1, <3>2
    <2>4. QED
      BY <2>1, <2>2, <2>3 DEF PlacesInv
  <1>16. NothingOld
    <2>1. ASSUME NEW n \in DOMAIN sent, Waits(n)' PROVE Waits(n)
      <3>1. n # number
        BY <1>3
      <3>2. QED
        BY <1>7, <1>8, <2>1, <3>1 DEF Waits, queue
    <2>2. \A n : (Listed(n)' => Listed(n)) /\ (Stored(n)' => Stored(n))
      BY <1>0 DEF Listed, Stored
    <2>3. QED
      BY <1>0, <1>3, <2>1, <2>2 DEF NothingOld
  <1>17. QED
    BY <1>9, <1>10, <1>12, <1>13, <1>14, <1>15, <1>16 DEF ServerInv

\* enqueueServerMessage, in all its cases.
LEMMA EnqueueKeeps ==
  ASSUME ServerInv, NEW key \in Keys, NEW response \in BOOLEAN, NEW size \in Sizes,
         EnqueueServerMessage(key, response, size)
  PROVE  ServerInv' /\ AnswerInv' /\ NothingOld /\ LogsGoOn /\ answer'.stream = 0
  <1>1. EnqueueFrame
    BY DEF EnqueueServerMessage, EnqueueFrame
  <1>2. PICK walked : /\ WalkedLike(walked)
                      /\ ToStream(walked, key, response, size) \/ ToQueue(walked, key, size) \/ Refused(walked)
    BY EnqueueCases
  <1>3. ASSUME Refused(walked) PROVE ServerInv' /\ NothingOld
    <2>1. StreamsStand /\ UNCHANGED << options, pendingMessagesBySession, legacyEventsBySession, worker, history >>
      BY <1>1, <1>2, <1>3 DEF WalkedLike, StreamsStand, Refused, EnqueueFrame, history
    <2>2. QED
      BY <2>1, FlagIsQuiet, QuietKeeps
  <1>4. ServerInv' /\ NothingOld
    BY <1>1, <1>2, <1>3, ToStreamKeeps, ToQueueKeeps
  <1>5. answer'.events = << >> /\ answer'.stream = 0
    BY <1>1, PlainAnswers DEF EnqueueFrame
  <1>6. LogsGoOn
    <2>1. CASE ToStream(walked, key, response, size)
      BY <1>1, <1>2, <2>1, ToStreamKeeps
    <2>2. CASE ToQueue(walked, key, size) \/ Refused(walked)
      <3>1. streams' = walked /\ UNCHANGED logged
        BY <2>2 DEF ToQueue, Refused
      <3>2. \A i \in DOMAIN streams : walked[i].session = streams[i].session
                                      /\ (streams[i].terminated => walked[i].terminated)
        BY <1>2 DEF WalkedLike, SameEvents
      <3>3. QED
        BY <1>4, <3>1, <3>2, FlagsGoOn DEF ServerInv
    <2>3. QED
      BY <1>2, <2>1, <2>2
  <1>7. QED
    BY <1>4, <1>5, <1>6, NothingShown

-----------------------------------------------------------------------------
(* A handler answers a POST.                                               *)

\* A part at the beginning of a sequence.
LEMMA HeadElements ==
  ASSUME NEW T, NEW s \in Seq(T), NEW last \in 0..Len(s)
  PROVE  SubSeq(s, 1, last) \in Seq(T) /\ ToSet(SubSeq(s, 1, last)) \subseteq ToSet(s)
  <1> DEFINE t == SubSeq(s, 1, last)
  <1>1. Len(s) \in Nat /\ DOMAIN s = 1..Len(s) /\ \A i \in 1..Len(s) : s[i] \in T
    OBVIOUS
  <1>2. 1 \in Int /\ last \in Int /\ 1..last \subseteq 1..Len(s) /\ \A i \in 1..last : s[i] \in T
    BY <1>1
  <1>3. /\ t \in Seq(T)
        /\ Len(t) = (IF 1 <= last THEN last - 1 + 1 ELSE 0)
        /\ \A i \in 1..(last - 1 + 1) : t[i] = s[1 + i - 1]
    BY <1>2, SubSeqProperties
  <1> HIDE DEF t
  <1>4. Len(t) = last /\ \A i \in 1..last : t[i] = s[i]
    <2>1. last - 1 + 1 = last /\ (~(1 <= last) => last = 0)
      BY <1>1
    <2>2. Len(t) = last
      BY <1>3, <2>1
    <2>3. ASSUME NEW i \in 1..last PROVE t[i] = s[i]
      <3>1. 1 + i - 1 = i
        OBVIOUS
      <3>2. QED
        BY <1>3, <2>1, <3>1
    <2>4. QED
      BY <2>2, <2>3
  <1>5. ToSet(t) \subseteq ToSet(s)
    <2>1. DOMAIN t = 1..last
      BY <1>3, <1>4
    <2>2. QED
      BY <1>1, <1>2, <1>4, <2>1 DEF ToSet
  <1>6. QED
    BY <1>3, <1>5 DEF t

\* Messages of a session that a handler answered with.
Answers(messages, key) ==
  \A n \in ToSet(messages) : n \in DOMAIN sent' /\ sent'[n].session = key /\ sent'[n].from = "post"

\* What the legacy transport keeps of an answer, and what is answered.
LEMMA ReplyKeepsBuffers ==
  ASSUME TypeInv, BuffersInv, SentGrows, sent' \in Seq(Message),
         options.maxSseBufferedMessages \in Nat \ {0},
         NEW w \in Workers, worker[w].request.session \in Keys, NEW reply, NEW legacy,
         NEW messages \in Seq(1..MaxMessages), Answers(messages, worker[w].request.session),
         ReplyToPost(w, reply, legacy, messages)
  PROVE  /\ BuffersInv' /\ DOMAIN legacyEventsBySession' = Keys
         /\ answer' = reply \/ (answer'.events = << >> /\ answer'.stream = 0)
         /\ \A n : Stored(n)' => Stored(n) \/ n \in ToSet(messages)
  <1> DEFINE key == worker[w].request.session
             sizes == [n \in DOMAIN messages |-> sent'[messages[n]].size]
             last == BeforeOversize(sizes)
             part == SubSeq(messages, 1, last)
  <1>0. Len(messages) \in Nat /\ DOMAIN messages = 1..Len(messages) /\ DOMAIN legacyEventsBySession = Keys
    BY DEF TypeInv
  <1>1. CASE answer' = reply /\ UNCHANGED legacyEventsBySession
    BY <1>0, <1>1, BuffersKept DEF Stored
  <1>2. CASE /\ legacyEventsBySession' = [legacyEventsBySession EXCEPT ![key] = WithEvents(legacyEventsBySession[key], part)]
             /\ answer' = IF last = Len(messages) THEN [Reply(key, 202) EXCEPT !.header = reply.header]
                          ELSE Reply(key, 400)
    <2>1. sizes \in Seq(Sizes) /\ Len(sizes) = Len(messages)
      <3>1. ASSUME NEW n \in 1..Len(messages) PROVE sent'[messages[n]].size \in Sizes
        <4>1. messages[n] \in DOMAIN sent'
          BY <1>0 DEF Answers, ToSet
        <4>2. sent'[messages[n]] \in Message
          BY <4>1
        <4>3. QED
          BY <4>2 DEF Message
      <3>2. sizes = [n \in 1..Len(messages) |-> sent'[messages[n]].size]
        BY <1>0
      <3>3. QED
        BY <1>0, <3>1, <3>2
    <2> HIDE DEF sizes
    <2>2. last \in 0..Len(messages)
      BY <2>1, BeforeOversizeBounds
    <2> HIDE DEF last
    <2>3. part \in Seq(1..MaxMessages) /\ ToSet(part) \subseteq ToSet(messages)
      BY <2>2, HeadElements
    <2> HIDE DEF part
    <2>4. GoodBuffer(legacyEventsBySession[key])
      BY DEF BuffersInv
    <2>5. PICK new : /\ new = WithEvents(legacyEventsBySession[key], part) /\ GoodBuffer(new)
                     /\ \A n : Holds(new.events, n) => Holds(legacyEventsBySession[key].events, n) \/ n \in ToSet(part)
      BY <2>3, <2>4, BufferAfter
    <2> HIDE DEF key
    <2>6. key \in Keys /\ Answers(messages, key)
      BY DEF key
    <2>7. /\ \A k \in Keys : legacyEventsBySession'[k] = IF k = key THEN new ELSE legacyEventsBySession[k]
          /\ DOMAIN legacyEventsBySession' = Keys
      BY <1>0, <1>2, <2>5
    <2>8. ASSUME NEW k \in Keys
          PROVE  /\ GoodBuffer(legacyEventsBySession'[k])
                 /\ \A n : Holds(legacyEventsBySession'[k].events, n) =>
                      n \in DOMAIN sent' /\ sent'[n].session = k /\ sent'[n].from = "post"
      <3>1. CASE k = key
        <4>1. legacyEventsBySession'[k] = new
          BY <2>7, <3>1
        <4>2. ASSUME NEW n, Holds(new.events, n)
              PROVE  n \in DOMAIN sent' /\ sent'[n].session = k /\ sent'[n].from = "post"
          <5>1. Holds(legacyEventsBySession[k].events, n) \/ n \in ToSet(part)
            BY <2>5, <3>1, <4>2
          <5>2. CASE Holds(legacyEventsBySession[k].events, n)
            BY <5>2 DEF BuffersInv, SentGrows
          <5>3. CASE n \in ToSet(part)
            BY <2>3, <2>6, <3>1, <5>3 DEF Answers
          <5>4. QED
            BY <5>1, <5>2, <5>3
        <4>3. QED
          BY <2>5, <4>1, <4>2
      <3>2. CASE k # key
        BY <2>7, <3>2 DEF BuffersInv, SentGrows
      <3>3. QED
        BY <3>1, <3>2
    <2>9. answer'.events = << >> /\ answer'.stream = 0
      BY <1>2 DEF Reply, NoReply
    <2>10. \A n : Stored(n)' => Stored(n) \/ n \in ToSet(messages)
      BY <2>3, <2>5, <2>7 DEF Stored
    <2>11. QED
      BY <2>7, <2>8, <2>9, <2>10 DEF BuffersInv
  <1>3. QED
    BY <1>1, <1>2 DEF ReplyToPost

\* The worker of a request that is in its handler becomes idle.
LEMMA WorkerEnds ==
  ASSUME TypeInv, NEW w \in Workers, worker' = [worker EXCEPT ![w] = Idle]
  PROVE  /\ DOMAIN worker' = Workers
         /\ \A v \in Workers : worker'[v] # Idle => worker'[v].request.session \in Keys
  BY DEF TypeInv

\* A handler whose answer is not a stream.
LEMMA HandlerAnswersKeeps ==
  ASSUME ServerInv, NEW w \in Workers, NEW result \in HandlerResults, HandlerAnswers(w, result)
  PROVE  ServerInv' /\ AnswerInv' /\ NothingOld
  <1> DEFINE r == worker[w].request
             answered == result.response # "none"
             legacy == Legacy(options, r)
             kept == IF answered /\ legacy THEN << Len(sent) + 1 >> ELSE << >>
             message == Handed(r.session, "post", result.size)
             reply == [Reply(r.session, IF answered THEN Ok ELSE 500) EXCEPT !.header = HeaderOf(w, result)]
  <1>0. /\ TypeInv /\ StreamsInv /\ QueuesInv /\ BuffersInv /\ ErasedInv /\ PlacesInv /\ MaxMessages \in Nat
        /\ options.maxSseBufferedMessages \in Nat \ {0} /\ r.session \in Keys
    BY HttpServerAssumption DEF ServerInv, TypeInv, Options, HandlerAnswers, InHandler
  <1>1. /\ legacy => Len(sent) < MaxMessages
        /\ sent' = IF kept # << >> THEN Append(sent, message) ELSE sent
        /\ ReplyToPost(w, reply, legacy, kept)
        /\ worker' = [worker EXCEPT ![w] = Idle]
        /\ UNCHANGED << options, streams, pendingMessagesBySession, logged, erased, forgotten >>
    BY DEF HandlerAnswers
  <1>2. message \in Message /\ message.session = r.session /\ message.from = "post"
    <2>1. result.size \in Sizes
      BY HttpServerAssumption DEF HandlerResult
    <2>2. QED
      BY <1>0, <2>1 DEF Handed, Message
  <1>3. reply.events = << >> /\ reply.stream = 0
    BY DEF Reply, NoReply
  <1> HIDE DEF message, reply, legacy, answered
  <1>4. /\ sent' \in Seq(Message) /\ Len(sent') <= MaxMessages /\ SentGrows
        /\ kept \in Seq(1..MaxMessages) /\ Answers(kept, r.session)
        /\ \A n \in ToSet(kept) : n \notin DOMAIN sent
        /\ \A n \in DOMAIN sent' \ DOMAIN sent : sent'[n].from = "post"
    <2>1. CASE answered /\ legacy
      <3>1. kept = << Len(sent) + 1 >> /\ kept # << >>
        BY <2>1
      <3>2. sent' = Append(sent, message) /\ Len(sent) < MaxMessages
        BY <1>1, <2>1, <3>1
      <3>3. /\ sent' \in Seq(Message) /\ Len(sent') <= MaxMessages /\ SentGrows
            /\ sent'[Len(sent) + 1] = message
            /\ Len(sent) + 1 \in 1..MaxMessages /\ Len(sent) + 1 \in DOMAIN sent' \ DOMAIN sent
            /\ \A n \in DOMAIN sent' : n \in DOMAIN sent \/ n = Len(sent) + 1
        BY <1>0, <1>2, <3>2, SentAppended
      <3>4. kept \in Seq(1..MaxMessages) /\ ToSet(kept) = {Len(sent) + 1}
        <4>1. PICK number \in 1..MaxMessages : number = Len(sent) + 1
          BY <3>3
        <4>2. << number >> \in Seq(1..MaxMessages) /\ ToSet(<< number >>) = {number}
          BY DEF ToSet
        <4> HIDE DEF kept
        <4>3. QED
          BY <3>1, <4>1, <4>2
      <3> HIDE DEF kept
      <3>5. QED
        BY <1>2, <3>3, <3>4 DEF Answers
    <2>2. CASE ~(answered /\ legacy)
      <3>0. ToSet(<< >>) = {} /\ << >> \in Seq(1..MaxMessages)
        BY DEF ToSet
      <3>1. kept = << >>
        BY <2>2
      <3> HIDE DEF kept
      <3>3. sent' = sent /\ ToSet(kept) = {} /\ kept \in Seq(1..MaxMessages)
        BY <1>1, <3>0, <3>1
      <3>2. QED
        BY <1>0, <3>3 DEF Answers, TypeInv, SentGrows
    <2>3. QED
      BY <2>1, <2>2
  <1> HIDE DEF kept
  <1>5. /\ BuffersInv' /\ DOMAIN legacyEventsBySession' = Keys
        /\ answer' = reply \/ (answer'.events = << >> /\ answer'.stream = 0)
        /\ \A n : Stored(n)' => Stored(n) \/ n \in ToSet(kept)
    BY <1>0, <1>1, <1>4, ReplyKeepsBuffers
  <1>6. TypeInv'
    <2>1. DOMAIN worker' = Workers /\ \A v \in Workers : worker'[v] # Idle => worker'[v].request.session \in Keys
      BY <1>0, <1>1, WorkerEnds
    <2>2. QED
      BY <1>0, <1>1, <1>4, <1>5, <2>1 DEF TypeInv
  <1>7. StreamsInv'
    BY <1>0, <1>1, <1>4, StreamsSame, StreamsKept
  <1>8. QueuesInv' /\ ErasedInv' /\ PlacesInv'
    BY <1>0, <1>1, <1>4, QueuesKept, ErasedKept, PlacesKept
  <1>9. AnswerInv'
    BY <1>3, <1>5, NothingShown
  <1>10. NothingOld
    <2>1. \A n : (Listed(n)' => Listed(n)) /\ (Waits(n)' => Waits(n))
      BY <1>1 DEF Listed, Waits
    <2>2. QED
      BY <1>1, <1>4, <1>5, <2>1 DEF NothingOld
  <1>11. QED
    BY <1>5, <1>6, <1>7, <1>8, <1>9, <1>10 DEF ServerInv

\* The messages of a handler's stream are numbered after those that came before.
LEMMA HandlerNumbers ==
  ASSUME TypeInv, MaxMessages \in Nat, NEW sizes \in Seq(Sizes), Len(sent) + Len(sizes) <= MaxMessages,
         NEW last \in 0..Len(sizes), NEW key \in Keys,
         sent' = sent \o [n \in DOMAIN sizes |-> Handed(key, "post", sizes[n])],
         NEW numbers, numbers = [n \in 1..last |-> Len(sent) + n]
  PROVE  /\ sent' \in Seq(Message) /\ Len(sent') <= MaxMessages /\ SentGrows
         /\ numbers \in Seq(1..MaxMessages) /\ Increasing(numbers) /\ Answers(numbers, key)
         /\ \A n \in ToSet(numbers) : n \notin DOMAIN sent
         /\ \A n \in DOMAIN sent' \ DOMAIN sent : sent'[n].from = "post"
  <1> DEFINE new == [n \in DOMAIN sizes |-> Handed(key, "post", sizes[n])]
  <1>1. /\ sent \in Seq(Message) /\ Len(sent) \in Nat /\ DOMAIN sent = 1..Len(sent)
        /\ Len(sizes) \in Nat /\ DOMAIN sizes = 1..Len(sizes) /\ last \in Nat /\ last <= Len(sizes)
    BY DEF TypeInv
  <1>2. /\ new \in Seq(Message) /\ Len(new) = Len(sizes) /\ DOMAIN new = 1..Len(sizes)
        /\ \A n \in DOMAIN new : new[n].session = key /\ new[n].from = "post"
    <2>1. \A n \in 1..Len(sizes) : sizes[n] \in Sizes
      BY <1>1
    <2>2. \A n \in 1..Len(sizes) : Handed(key, "post", sizes[n]) \in Message
      BY <2>1 DEF Handed, Message
    <2>3. new = [n \in 1..Len(sizes) |-> Handed(key, "post", sizes[n])]
      BY <1>1
    <2>4. new \in Seq(Message) /\ Len(new) = Len(sizes) /\ DOMAIN new = 1..Len(sizes)
      BY <1>1, <2>2, <2>3
    <2>5. QED
      BY <2>3, <2>4 DEF Handed
  <1>3. PICK s : s = sent \o new
    OBVIOUS
  <1> HIDE DEF new
  <1>4. /\ s \in Seq(Message) /\ Len(s) = Len(sent) + Len(new)
        /\ \A i \in DOMAIN sent : i \in DOMAIN s /\ s[i] = sent[i]
        /\ \A i \in DOMAIN new : Len(sent) + i \in DOMAIN s /\ s[Len(sent) + i] = new[i]
        /\ \A i \in DOMAIN s : i \in DOMAIN sent \/ \E j \in DOMAIN new : i = Len(sent) + j
    <2>1. PICK old \in Seq(Message), more \in Seq(Message) : old = sent /\ more = new
      BY <1>1, <1>2
    <2>2. s = old \o more
      BY <1>3, <2>1
    <2>3. /\ s \in Seq(Message) /\ Len(s) = Len(old) + Len(more)
          /\ \A i \in DOMAIN old : i \in DOMAIN s /\ s[i] = old[i]
          /\ \A i \in DOMAIN more : Len(old) + i \in DOMAIN s /\ s[Len(old) + i] = more[i]
          /\ \A i \in DOMAIN s : i \in DOMAIN old \/ \E j \in DOMAIN more : i = Len(old) + j
      BY ONLY <2>2, old \in Seq(Message), more \in Seq(Message), ConcatElements
    <2>4. QED
      BY <2>1, <2>3
  <1>5. sent' = s
    BY <1>3 DEF new
  <1>6. sent' \in Seq(Message) /\ Len(sent') <= MaxMessages /\ SentGrows
    <2>1. Len(s) <= MaxMessages
      BY <1>2, <1>4
    <2>2. QED
      BY <1>4, <1>5, <2>1 DEF SentGrows
  <1>7. \A n \in DOMAIN sent' \ DOMAIN sent : sent'[n].from = "post"
    BY <1>2, <1>4, <1>5
  <1>8. numbers \in Seq(1..MaxMessages) /\ DOMAIN numbers = 1..last /\ \A i \in 1..last : numbers[i] = Len(sent) + i
    <2>1. \A i \in 1..last : Len(sent) + i \in 1..MaxMessages
      BY <1>1
    <2>2. QED
      BY <1>1, <2>1
  <1>9. Increasing(numbers)
    BY <1>1, <1>8 DEF Increasing
  <1>10. ASSUME NEW n \in ToSet(numbers)
         PROVE  n \notin DOMAIN sent /\ n \in DOMAIN sent' /\ sent'[n].session = key /\ sent'[n].from = "post"
    <2>1. PICK i \in 1..last : n = Len(sent) + i
      BY <1>8, <1>10 DEF ToSet
    <2>2. i \in DOMAIN new /\ n \notin DOMAIN sent
      BY <1>1, <1>2, <2>1
    <2>3. n \in DOMAIN s /\ s[n] = new[i]
      BY <1>4, <2>1, <2>2
    <2>4. new[i].session = key /\ new[i].from = "post"
      BY <1>2, <2>2
    <2>5. QED
      BY <1>5, <2>2, <2>3, <2>4
  <1>11. QED
    BY <1>6, <1>7, <1>8, <1>9, <1>10 DEF Answers

\* The messages of the events of a stream are those of its log, without the priming event.
LEMMA MessagesOfStream ==
  ASSUME MaxMessages \in Nat, NEW stream, NEW log, GoodStream(stream, log)
  PROVE  /\ MessagesOf(stream.events) \in Seq(1..MaxMessages)
         /\ ToSet(MessagesOf(stream.events)) \subseteq ToSet(log) \ {0}
  <1> DEFINE numbers == Numbers(stream.events)
             P == { n \in DOMAIN stream.events : stream.events[n].message # 0 }
             M == 0..MaxMessages
  <1>1. /\ stream.events \in Seq(Event(M)) /\ log \in Seq(M)
        /\ \A i \in 1..Len(stream.events) : stream.events[i].message \in ToSet(log)
    <2>1. stream.events \in Seq(Event(M)) /\ log \in Seq(M) /\ Mirrors(stream, log)
      BY DEF GoodStream, Stream, Event
    <2>2. ASSUME NEW i \in 1..Len(stream.events) PROVE stream.events[i].message \in ToSet(log)
      <3>1. PICK c : c = stream.events[i].cursor
        OBVIOUS
      <3>2. /\ c = Len(log) - Len(stream.events) + i /\ stream.events[i].message = log[c]
            /\ Len(stream.events) <= Len(log)
        BY <2>1, <3>1 DEF Mirrors
      <3>3. Len(log) \in Nat /\ Len(stream.events) \in Nat /\ DOMAIN log = 1..Len(log)
        BY <2>1
      <3>4. c \in DOMAIN log
        BY <3>2, <3>3
      <3>5. QED
        BY <3>2, <3>4 DEF ToSet
    <2>3. QED
      BY <2>1, <2>2
  <1>2. /\ numbers \in Seq(M) /\ DOMAIN numbers = DOMAIN stream.events
        /\ \A i \in DOMAIN numbers : numbers[i] = stream.events[i].message /\ numbers[i] \in ToSet(log)
    <2>1. Len(stream.events) \in Nat /\ DOMAIN stream.events = 1..Len(stream.events)
      BY <1>1
    <2>2. \A i \in 1..Len(stream.events) : stream.events[i].message \in M
      <3>1. PICK events : events = stream.events
        OBVIOUS
      <3>2. \A i \in 1..Len(events) : events[i] \in Event(M)
        BY <1>1, <3>1
      <3>3. \A i \in 1..Len(events) : events[i].message \in M
        BY <3>2 DEF Event
      <3>4. QED
        BY <3>1, <3>3
    <2>3. numbers = [i \in 1..Len(stream.events) |-> stream.events[i].message]
      BY <2>1 DEF Numbers
    <2>4. QED
      BY <1>1, <2>1, <2>2, <2>3
  <1>3. \A i \in P : i \in DOMAIN stream.events => stream.events[i].message # 0
    OBVIOUS
  <1>4. MessagesOf(stream.events) = Kept(numbers, P)
    BY DEF MessagesOf
  <1> HIDE DEF numbers, P
  <1>5. /\ Kept(numbers, P) \in Seq(M)
        /\ \A i \in DOMAIN Kept(numbers, P) : \E j \in DOMAIN numbers : j \in P /\ Kept(numbers, P)[i] = numbers[j]
    <2>1. numbers \in Seq(M)
      BY <1>2
    <2> HIDE DEF M
    <2>2. QED
      BY <2>1, KeptElements
  <1>6. \A i \in DOMAIN Kept(numbers, P) : Kept(numbers, P)[i] # 0 /\ Kept(numbers, P)[i] \in ToSet(log)
    BY <1>2, <1>3, <1>5
  <1>7. Kept(numbers, P) \in Seq(1..MaxMessages)
    <2>1. PICK k : k = Kept(numbers, P)
      OBVIOUS
    <2>2. k \in Seq(M) /\ \A i \in DOMAIN k : k[i] # 0
      BY <1>5, <1>6, <2>1
    <2>3. Len(k) \in Nat /\ DOMAIN k = 1..Len(k) /\ k = [i \in 1..Len(k) |-> k[i]]
      BY <2>2
    <2>4. \A i \in 1..Len(k) : k[i] \in 1..MaxMessages
      BY <2>2, <2>3
    <2>5. k \in Seq(1..MaxMessages)
      BY <2>3, <2>4
    <2>6. QED
      BY <2>1, <2>5
  <1>8. ToSet(Kept(numbers, P)) \subseteq ToSet(log) \ {0}
    BY <1>6 DEF ToSet
  <1>9. QED
    BY <1>4, <1>7, <1>8

\* A handler whose answer is a stream.
LEMMA HandlerStreamsKeeps ==
  ASSUME ServerInv, NEW w \in Workers, NEW result \in HandlerResults, HandlerStreams(w, result)
  PROVE  ServerInv' /\ AnswerInv' /\ NothingOld /\ StreamOpened /\ (NewShown \/ answer'.stream = 0)
  <1> DEFINE r == worker[w].request
             key == StreamOwner(w)
             answered == result.response # "none"
             sizes == result.pre \o (IF answered THEN << result.size >> ELSE << >>)
             last == BeforeOversize(sizes)
             oversize == last < Len(sizes)
             numbers == [n \in 1..last |-> Len(sent) + n]
             made == WithEvents(NewStream(key, "post"), numbers)
             log == << 0 >> \o numbers
             flag == oversize \/ (answered /\ result.terminateSseAfterResponse)
             stream == [made EXCEPT !.terminated = flag]
             reply == [ReplyEvents(key, Len(streams) + 1, FALSE, 0, stream.events) EXCEPT !.header = HeaderOf(w, result)]
  <1>0. /\ TypeInv /\ StreamsInv /\ QueuesInv /\ BuffersInv /\ ErasedInv /\ PlacesInv /\ MaxMessages \in Nat
        /\ options.maxSseBufferedMessages \in Nat \ {0} /\ key \in Keys /\ r.session = key
    BY HttpServerAssumption DEF ServerInv, TypeInv, Options, HandlerStreams, InHandler, StreamOwner
  <1>1. /\ Len(sent) + Len(sizes) <= MaxMessages
        /\ sent' = sent \o [n \in DOMAIN sizes |-> Handed(key, "post", sizes[n])]
        /\ streams' = Append(streams, stream)
        /\ logged' = Append(logged, log)
        /\ \/ answer' = Reply(r.session, 400) /\ UNCHANGED legacyEventsBySession
           \/ ReplyToPost(w, reply, Legacy(options, r), MessagesOf(stream.events))
        /\ worker' = [worker EXCEPT ![w] = Idle]
        /\ UNCHANGED << options, pendingMessagesBySession, erased, forgotten >>
    BY DEF HandlerStreams
  <1>2. sizes \in Seq(Sizes) /\ last \in 0..Len(sizes)
    <2>1. result.pre \in Seq(Sizes) /\ result.size \in Sizes
      BY HttpServerAssumption DEF HandlerResult
    <2>2. PICK rest \in Seq(Sizes) : rest = IF answered THEN << result.size >> ELSE << >>
      <3>1. << result.size >> \in Seq(Sizes) /\ << >> \in Seq(Sizes)
        BY <2>1
      <3>2. QED
        BY <3>1
    <2>3. sizes = result.pre \o rest
      BY <2>2
    <2> HIDE DEF sizes
    <2>4. sizes \in Seq(Sizes)
      BY <2>1, <2>3, ConcatProperties
    <2>5. QED
      BY <2>4, BeforeOversizeBounds
  <1>3. flag \in BOOLEAN
    <2>1. result.terminateSseAfterResponse \in BOOLEAN
      BY HttpServerAssumption DEF HandlerResult
    <2>2. QED
      BY <2>1
  <1>4. reply.events = stream.events /\ reply.stream = Len(streams) + 1 /\ reply.session = key
    <2> HIDE DEF stream, key
    <2>1. Tells(reply, key, Len(streams) + 1, FALSE, 0, stream.events)
      BY HeaderAnswers
    <2> HIDE DEF reply
    <2>2. QED
      BY <2>1 DEF Tells
  <1> HIDE DEF reply, flag, oversize, answered, sizes, key
  <1>5. /\ sent' \in Seq(Message) /\ Len(sent') <= MaxMessages /\ SentGrows
        /\ numbers \in Seq(1..MaxMessages) /\ Increasing(numbers) /\ Answers(numbers, key)
        /\ \A n \in ToSet(numbers) : n \notin DOMAIN sent
        /\ \A n \in DOMAIN sent' \ DOMAIN sent : sent'[n].from = "post"
    <2> HIDE DEF last
    <2>1. PICK all : all = numbers /\ all = [n \in 1..last |-> Len(sent) + n]
      OBVIOUS
    <2> HIDE DEF numbers
    <2>2. QED
      BY <1>0, <1>1, <1>2, <2>1, HandlerNumbers
  <1> HIDE DEF last, numbers
  <1>6. log \in Seq(0..MaxMessages) /\ Increasing(log) /\ ToSet(log) = {0} \cup ToSet(numbers)
    BY <1>0, <1>5, OpenedLog
  <1>7. GoodStream(made, log) /\ made.session = key
    <2>1. numbers \in Seq(0..MaxMessages)
      <3>1. 1..MaxMessages \subseteq 0..MaxMessages
        OBVIOUS
      <3>2. QED
        BY <1>5, <3>1, SeqMonotonic
    <2>2. PICK new : new = WithEvents(NewStream(key, "post"), numbers) /\ GoodStream(new, log) /\ new.session = key
      BY <1>0, <2>1, OpenedStream
    <2> HIDE DEF log
    <2>3. QED
      BY <2>2
  <1> HIDE DEF log, made
  <1>8. GoodStream(stream, log) /\ stream.session = key /\ stream \in Stream
    <2>1. made \in Stream
      BY <1>7 DEF GoodStream
    <2>2. SameEvents(stream, made)
      BY <1>3, <2>1, FlagsChange
    <2> HIDE DEF stream
    <2>3. GoodStream(stream, log) /\ stream.session = key
      BY <1>7, <2>2, GoodStreamStands
    <2>4. QED
      BY <2>2, <2>3 DEF SameEvents
  <1> HIDE DEF stream
  <1>9. DOMAIN sent \subseteq DOMAIN sent' /\ DOMAIN sent = 1..Len(sent)
    BY <1>0, <1>5, StreamNumbers DEF SentGrows
  <1>10. /\ MessagesOf(stream.events) \in Seq(1..MaxMessages)
         /\ Answers(MessagesOf(stream.events), key)
         /\ \A n \in ToSet(MessagesOf(stream.events)) : n \notin DOMAIN sent
    <2>1. /\ MessagesOf(stream.events) \in Seq(1..MaxMessages)
          /\ ToSet(MessagesOf(stream.events)) \subseteq ToSet(log) \ {0}
      BY <1>0, <1>8, MessagesOfStream
    <2>2. QED
      BY <1>5, <1>6, <2>1 DEF Answers
  <1>11. /\ BuffersInv' /\ DOMAIN legacyEventsBySession' = Keys
         /\ answer' = reply \/ (answer'.events = << >> /\ answer'.stream = 0)
         /\ \A n \in DOMAIN sent : Stored(n)' => Stored(n)
    <2>1. CASE answer' = Reply(r.session, 400) /\ UNCHANGED legacyEventsBySession
      BY <1>0, <1>5, <2>1, BuffersKept, PlainAnswers DEF TypeInv, Stored
    <2>2. CASE ReplyToPost(w, reply, Legacy(options, r), MessagesOf(stream.events))
      <3>1. worker[w].request.session \in Keys /\ Answers(MessagesOf(stream.events), worker[w].request.session)
        BY <1>0, <1>10
      <3>2. QED
        BY <1>0, <1>5, <1>10, <2>2, <3>1, ReplyKeepsBuffers
    <2>3. QED
      BY <1>1, <2>1, <2>2
  <1>12. TypeInv'
    <2>1. DOMAIN worker' = Workers /\ \A v \in Workers : worker'[v] # Idle => worker'[v].request.session \in Keys
      BY <1>0, <1>1, WorkerEnds
    <2>2. streams' \in Seq(Stream) /\ logged' \in Seq(Seq(0..MaxMessages)) /\ Len(logged') = Len(streams')
      BY <1>0, <1>1, <1>6, <1>8, StreamAppended
    <2>3. QED
      BY <1>0, <1>1, <1>5, <1>11, <2>1, <2>2 DEF TypeInv
  <1>13. StreamsInv'
    <2>1. \A n \in ToSet(log) \ {0} : n \in DOMAIN sent' /\ sent'[n].session = stream.session /\ n \notin erased
      <3>1. \A n \in erased : n \in DOMAIN sent
        BY <1>0 DEF ErasedInv
      <3>2. QED
        BY <1>5, <1>6, <1>8, <3>1 DEF Answers
    <2>2. QED
      BY <1>0, <1>1, <1>5, <1>6, <1>8, <2>1, StreamsGrow
  <1>14. QueuesInv' /\ ErasedInv'
    BY <1>0, <1>1, <1>5, QueuesKept, ErasedKept
  <1>15. PlacesInv'
    <2>1. \A n : Listed(n) => n = 0 \/ n \in DOMAIN sent
      BY <1>0, StreamNumbers DEF Listed, StreamsInv
    <2>2. \A n \in ToSet(log) : n = 0 \/ ~Listed(n)
      BY <1>5, <1>6, <2>1
    <2>3. ASSUME NEW k \in Keys, NEW n \in ToSet(pendingMessagesBySession[k]) PROVE n \notin ToSet(log)
      <3>0. n \in DOMAIN sent
        BY <1>0 DEF QueuesInv
      <3>1. n \in DOMAIN sent /\ n # 0
        BY <1>9, <3>0
      <3>2. QED
        BY <1>5, <1>6, <3>1
    <2>4. \A k \in Keys : ToSet(pendingMessagesBySession'[k]) \subseteq ToSet(pendingMessagesBySession[k]) \ ToSet(log)
      BY <1>1, <2>3
    <2>5. \A n \in DOMAIN sent : Waits(n) /\ sent[n].size = "fits" => Waits(n)' \/ n \in ToSet(log)
      BY <1>1 DEF Waits
    <2>6. QED
      BY <1>0, <1>1, <1>5, <1>6, <2>2, <2>4, <2>5, PlacesWithStream
  <1>16. AnswerInv' /\ (NewShown \/ answer'.stream = 0)
    <2>1. CASE answer' = reply
      <3>1. Len(streams) + 1 \in DOMAIN streams' /\ streams'[Len(streams) + 1] = stream
        BY <1>0, <1>1, <1>6, <1>8, StreamAppended
      <3>2. AnswerInv'
        BY <1>4, <1>8, <1>12, <2>1, <3>1, StreamShown
      <3>3. NewShown
        BY <1>4, <1>8, <2>1, <3>1 DEF NewShown
      <3>4. QED
        BY <3>2, <3>3
    <2>2. CASE answer'.events = << >> /\ answer'.stream = 0
      BY <2>2, NothingShown
    <2>3. QED
      BY <1>11, <2>1, <2>2
  <1>17. StreamOpened
    BY <1>0, <1>1, <1>6, <1>8, StreamIsOpened
  <1>18. NothingOld
    <2>1. ASSUME NEW n \in DOMAIN sent, Listed(n)' PROVE Listed(n)
      <3>1. n \notin ToSet(log)
        BY <1>5, <1>6, <1>9
      <3>2. QED
        BY <1>0, <1>1, <1>6, <2>1, <3>1, LogAppended
    <2>2. \A n : Waits(n)' => Waits(n)
      BY <1>1 DEF Waits
    <2>3. QED
      BY <1>1, <1>5, <1>11, <2>1, <2>2 DEF NothingOld
  <1>19. QED
    BY <1>11, <1>12, <1>13, <1>14, <1>15, <1>16, <1>17, <1>18 DEF ServerInv

-----------------------------------------------------------------------------
(* The invariant.                                                          *)

KnownInv == ServerInv /\ AnswerInv

\* The server starts without streams, messages and answers.
LEMMA InitKnown ==
  ASSUME Init
  PROVE  KnownInv
  <1>1. /\ options \in Options /\ MaxMessages \in Nat /\ NoSession \in Keys
        /\ \A k \in Keys : pendingMessagesBySession[k] = << >> /\ legacyEventsBySession[k] = EmptyBuffer
        /\ pendingMessagesBySession \in [Keys -> Seq(1..MaxMessages)] /\ DOMAIN legacyEventsBySession = Keys
        /\ streams = << >> /\ logged = << >> /\ sent = << >> /\ erased = {}
        /\ \A w \in Workers : worker[w] = Idle
        /\ DOMAIN worker = Workers
    <2>1. pendingMessagesBySession \in [Keys -> Seq(1..MaxMessages)]
      <3>1. << >> \in Seq(1..MaxMessages)
        OBVIOUS
      <3>2. QED
        BY <3>1 DEF Init
    <2>2. QED
      BY <2>1, HttpServerAssumption DEF Init, Keys
  <1>2. TypeInv
    BY <1>1 DEF TypeInv
  <1>3. ToSet(<< >>) = {} /\ Increasing(<< >>) /\ DOMAIN << >> = {}
    BY DEF ToSet, Increasing
  <1>4. GoodBuffer(EmptyBuffer) /\ \A n : ~Holds(EmptyBuffer.events, n)
    BY DEF GoodBuffer, EmptyBuffer, Buffer, NoGap, Holds
  <1>5. StreamsInv /\ ErasedInv
    BY <1>1, <1>3 DEF StreamsInv, ErasedInv
  <1>6. QueuesInv
    BY <1>1, <1>3 DEF QueuesInv
  <1>7. BuffersInv
    BY <1>1, <1>4 DEF BuffersInv
  <1>8. PlacesInv
    BY <1>1, <1>3 DEF PlacesInv
  <1>9. AnswerInv
    BY DEF Init, AnswerInv, NoReply
  <1>10. QED
    BY <1>2, <1>5, <1>6, <1>7, <1>8, <1>9 DEF KnownInv, ServerInv

\* A DELETE that reached its handler.
Deletes == \E r \in Requests : Status(options, sessions, r) = Ok /\ DeleteSession(r)

\* Every step keeps what is known, and puts nothing old where it was not, or is a DELETE.
LEMMA NextKnown ==
  ASSUME KnownInv, [Next]_vars
  PROVE  KnownInv' /\ (NothingOld \/ Deletes)
  <1>0. ServerInv
    BY DEF KnownInv
  <1>1. ASSUME Serve PROVE ServerInv' /\ AnswerInv' /\ (NothingOld \/ Deletes)
    <2>1. PICK r \in Requests :
            IF IsMetadata(options, r) THEN ServeMetadata(r)
            ELSE LET status == Status(options, sessions, r)
                 IN  IF status # Ok THEN Refuse(status) ELSE Handle(r)
      BY <1>1 DEF Serve
    <2>2. CASE ServeMetadata(r) \/ \E status : Refuse(status)
      BY <1>0, <2>2, QuietAnswers
    <2>3. CASE Status(options, sessions, r) = Ok /\ Handle(r)
      <3>1. r.session \in Keys
        BY <2>3, ServedSession
      <3>2. QED
        BY <1>0, <2>3, <3>1, OpenStreamKeeps, ResumeStreamKeeps, RefuseResumeKeeps, ReadLegacyKeeps,
           DeleteSessionKeeps, EnterHandlerKeeps DEF Handle, Deletes
    <2>4. QED
      BY <2>1, <2>2, <2>3
  <1>2. ASSUME Apply PROVE ServerInv' /\ AnswerInv' /\ NothingOld
    <2>1. ASSUME NEW n \in DOMAIN streams, StreamAges(n) PROVE ServerInv' /\ AnswerInv' /\ NothingOld
      BY <1>0, <2>1, StreamAgesKeeps
    <2>2. ASSUME NEW s \in Sessions, NEW x, UpsertSession(s, x) \/ SetSessionState(s, x)
          PROVE  ServerInv' /\ AnswerInv' /\ NothingOld
      BY <1>0, <2>2, QuietAnswers
    <2>3. ASSUME NEW key \in Keys, NEW response \in BOOLEAN, NEW size \in Sizes,
                 EnqueueServerMessage(key, response, size)
          PROVE  ServerInv' /\ AnswerInv' /\ NothingOld
      BY <1>0, <2>3, EnqueueKeeps
    <2>4. QED
      BY <1>2, <2>1, <2>2, <2>3 DEF Apply
  <1>3. ASSUME NEW w \in Workers, LeaveHandler(w) PROVE ServerInv' /\ AnswerInv' /\ NothingOld
    BY <1>0, <1>3, HandlerEndsKeeps, HandlerAnswersKeeps, HandlerStreamsKeeps DEF LeaveHandler
  <1>4. ASSUME ReturnResponse PROVE ServerInv' /\ AnswerInv' /\ NothingOld
    BY <1>0, <1>4, QuietAnswers
  <1>5. ASSUME UNCHANGED vars PROVE ServerInv' /\ AnswerInv' /\ NothingOld
    <2>1. UNCHANGED << options, streams, pendingMessagesBySession, legacyEventsBySession, history, worker, answer >>
      BY <1>5 DEF vars, tables
    <2>2. ServerInv' /\ NothingOld
      BY <1>0, <2>1, TablesStand, QuietKeeps DEF ServerInv
    <2>3. AnswerInv'
      BY <2>1 DEF KnownInv, AnswerInv, ShowsStream, ShowsBuffer
    <2>4. QED
      BY <2>2, <2>3
  <1>6. QED
    BY <1>1, <1>2, <1>3, <1>4, <1>5 DEF Next, KnownInv

\* The streams, queues and buffers of the server always hold what they should.
THEOREM ServerHolds == Spec => []KnownInv
  <1>1. KnownInv /\ [Next]_vars => KnownInv'
    BY NextKnown
  <1>2. QED
    BY InitKnown, <1>1, PTL DEF Spec

-----------------------------------------------------------------------------
(* What follows from it.                                                   *)

\* The messages of an answer are those its events hold.
LEMMA ShownIsHeld ==
  ASSUME AnswerInv, NEW n \in Shown
  PROVE  n # 0 /\ Holds(answer.events, n) /\ answer.events # << >>
  <1>1. answer.events \in Seq(Event(0..MaxMessages))
    BY DEF AnswerInv
  <1>2. DOMAIN answer.events = 1..Len(answer.events)
    BY <1>1
  <1>3. PICK i \in DOMAIN answer.events : n = answer.events[i].message
    BY DEF Shown, Numbers, ToSet
  <1>4. n # 0
    BY DEF Shown
  <1>5. QED
    BY <1>2, <1>3, <1>4 DEF Holds

\* What a stream holds is in its log.
LEMMA HeldIsLogged ==
  ASSUME NEW stream, NEW log, GoodStream(stream, log), NEW n, Holds(stream.events, n)
  PROVE  n \in ToSet(log)
  <1>1. Mirrors(stream, log) /\ log \in Seq(0..MaxMessages) /\ Len(stream.events) \in Nat
    BY DEF GoodStream, Stream
  <1>2. PICK i \in 1..Len(stream.events) : stream.events[i].message = n
    BY DEF Holds
  <1>3. PICK c : c = stream.events[i].cursor
    OBVIOUS
  <1>4. c = Len(log) - Len(stream.events) + i /\ n = log[c] /\ Len(stream.events) <= Len(log)
    BY <1>1, <1>2, <1>3 DEF Mirrors
  <1>5. Len(log) \in Nat /\ DOMAIN log = 1..Len(log) /\ Len(stream.events) \in Nat
    BY <1>1
  <1>6. c \in DOMAIN log
    BY <1>4, <1>5
  <1>7. QED
    BY <1>4, <1>6 DEF ToSet

\* What is shown from the end of a buffer is in the buffer.
LEMMA HeldAtEnd ==
  ASSUME NEW events \in Seq(Event(1..MaxMessages)), NEW k \in Nat,
         NEW n, Holds(SubSeq(events, k + 1, Len(events)), n)
  PROVE  Holds(events, n)
  <1> DEFINE shown == SubSeq(events, k + 1, Len(events))
  <1>1. PICK i \in 1..Len(shown) : shown[i].message = n
    BY DEF Holds
  <1>2. shown[i] = events[k + i] /\ k + i \in 1..Len(events)
    BY <1>1, TailElements
  <1> HIDE DEF shown
  <1>3. QED
    BY <1>1, <1>2 DEF Holds

\* They are messages of the session that were not erased.
LEMMA ShownIsKnown ==
  ASSUME KnownInv, NEW n \in Shown
  PROVE  n \in DOMAIN sent /\ sent[n].session = answer.session /\ n \notin erased
  <1>0. /\ TypeInv /\ StreamsInv /\ BuffersInv /\ ErasedInv /\ AnswerInv
        /\ n # 0 /\ Holds(answer.events, n) /\ answer.events # << >>
    BY ShownIsHeld DEF KnownInv, ServerInv
  <1>1. CASE ShowsStream
    <2> DEFINE stream == streams[answer.stream]
               log == logged[answer.stream]
    <2>1. /\ GoodStream(stream, log) /\ stream.session = answer.session
          /\ \A m \in ToSet(log) \ {0} : m \in DOMAIN sent /\ sent[m].session = stream.session /\ m \notin erased
          /\ Holds(stream.events, n)
      BY <1>0, <1>1 DEF ShowsStream, StreamsInv
    <2> HIDE DEF stream, log
    <2>2. n \in ToSet(log)
      BY <2>1, HeldIsLogged
    <2>3. QED
      BY <1>0, <2>1, <2>2
  <1>2. CASE ShowsBuffer
    <2>1. n \in DOMAIN sent /\ sent[n].session = answer.session /\ sent[n].from = "post"
      <3> DEFINE buffer == legacyEventsBySession[answer.session]
      <3>1. PICK k \in Nat : answer.events = SubSeq(buffer.events, k + 1, Len(buffer.events))
        BY <1>2 DEF ShowsBuffer
      <3>2. answer.session \in Keys /\ GoodBuffer(buffer)
        BY <1>0, <1>2 DEF ShowsBuffer, BuffersInv
      <3>3. buffer.events \in Seq(Event(1..MaxMessages))
        BY <3>2 DEF GoodBuffer, Buffer, Event
      <3>4. Holds(buffer.events, n)
        BY <1>0, <3>1, <3>3, HeldAtEnd
      <3>5. QED
        BY <1>0, <3>2, <3>4 DEF BuffersInv
    <2>2. QED
      BY <1>0, <2>1 DEF ErasedInv
  <1>3. QED
    BY <1>0, <1>1, <1>2 DEF AnswerInv

\* An answer shows only messages of the session the request was validated for.
THEOREM AnswersAreOfTheSession == Spec => []AnswersStayInSession
  <1>1. KnownInv => AnswersStayInSession
    BY ShownIsKnown DEF AnswersStayInSession
  <1>2. QED
    BY <1>1, ServerHolds, PTL

\* A legacy client that resumes sees every later message, or is told that it cannot.
THEOREM LegacyReplayIsGapless == Spec => []LegacyReplayHasNoGap
  <1>1. ASSUME KnownInv PROVE LegacyReplayHasNoGap
    <2>1. SUFFICES ASSUME answer.stream = 0, answer.events # << >>
                   PROVE  /\ \A n \in 1..(Len(answer.events) - 1) :
                               answer.events[n + 1].cursor = answer.events[n].cursor + 1
                          /\ answer.resumed => answer.events[1].cursor = answer.after + 1
                          /\ Last(answer.events).cursor + 1 = legacyEventsBySession[answer.session].nextCursor
      BY DEF LegacyReplayHasNoGap
    <2> DEFINE buffer == legacyEventsBySession[answer.session]
    <2>2. TypeInv /\ BuffersInv /\ AnswerInv
      BY <1>1 DEF KnownInv, ServerInv
    <2>3. ShowsBuffer
      <3>1. 0 \notin DOMAIN streams
        BY <2>2, StreamNumbers
      <3>2. QED
        BY <2>1, <2>2, <3>1 DEF AnswerInv, ShowsStream
    <2>4. PICK k \in Nat : /\ answer.events = SubSeq(buffer.events, k + 1, Len(buffer.events))
                           /\ answer.resumed => answer.events[1].cursor = answer.after + 1
      BY <2>3 DEF ShowsBuffer
    <2>5. GoodBuffer(buffer)
      BY <2>2, <2>3 DEF ShowsBuffer, BuffersInv
    <2>6. PICK shown, events, next : shown = answer.events /\ events = buffer.events /\ next = buffer.nextCursor
      OBVIOUS
    <2>7. events \in Seq(Event(1..MaxMessages)) /\ NoGap(events, next) /\ next \in Nat
      BY <2>5, <2>6 DEF GoodBuffer, Buffer, Event
    <2>8. /\ shown \in Seq(Event(1..MaxMessages)) /\ Len(shown) = (IF Len(events) <= k THEN 0 ELSE Len(events) - k)
          /\ \A i \in 1..Len(shown) : shown[i] = events[k + i] /\ k + i \in 1..Len(events)
      <3>1. shown = SubSeq(events, k + 1, Len(events)) /\ events \in Seq(Event(1..MaxMessages))
        BY <2>4, <2>6, <2>7
      <3>2. QED
        BY <3>1, TailElements
    <2>9. shown # << >> /\ Len(events) \in Nat /\ Len(shown) \in Nat \ {0} /\ Len(shown) = Len(events) - k
      <3>1. shown # << >> /\ Len(events) \in Nat /\ Len(shown) \in Nat
        BY <2>1, <2>6, <2>7, <2>8
      <3>2. Len(shown) # 0
        BY <2>8, <3>1
      <3>3. CASE Len(events) <= k
        BY <2>8, <3>2, <3>3
      <3>4. CASE ~(Len(events) <= k)
        BY <2>8, <3>1, <3>2, <3>4
      <3>5. QED
        BY <3>3, <3>4
    <2>10. ASSUME NEW i \in 1..Len(shown) PROVE shown[i].cursor = next - 1 - Len(events) + (k + i)
      <3>1. shown[i] = events[k + i] /\ k + i \in 1..Len(events)
        BY <2>8
      <3>2. QED
        BY <2>7, <3>1 DEF NoGap
    <2>11. ASSUME NEW n \in 1..(Len(shown) - 1) PROVE shown[n + 1].cursor = shown[n].cursor + 1
      <3>1. n \in 1..Len(shown) /\ n + 1 \in 1..Len(shown) /\ n \in Nat
        BY <2>9
      <3>2. shown[n].cursor = next - 1 - Len(events) + (k + n) /\ shown[n + 1].cursor = next - 1 - Len(events) + (k + (n + 1))
        BY <2>10, <3>1
      <3>3. QED
        BY <2>7, <2>9, <3>1, <3>2
    <2>12. Last(shown).cursor + 1 = next
      <3>1. Last(shown) = shown[Len(shown)] /\ Len(shown) \in 1..Len(shown)
        BY <2>9 DEF Last
      <3>2. Last(shown).cursor = next - 1 - Len(events) + (k + Len(shown))
        BY <2>10, <3>1
      <3>3. next - 1 - Len(events) + (k + Len(shown)) = next - 1
        BY <2>7, <2>9
      <3>4. QED
        BY <2>7, <3>2, <3>3
    <2>13. QED
      BY <2>4, <2>6, <2>11, <2>12
  <1>2. QED
    BY <1>1, ServerHolds, PTL

\* A set of which no two elements differ has one at most.
LEMMA OneAtMost ==
  ASSUME NEW S, \A a, b \in S : a = b
  PROVE  Cardinality(S) \in Nat /\ Cardinality(S) <= 1 /\ (S = {} => Cardinality(S) = 0)
  <1>1. CASE S = {}
    BY <1>1, FS_EmptySet
  <1>2. CASE S # {}
    <2>1. PICK a : S = {a}
      BY <1>2
    <2>2. Cardinality({a}) = 1
      BY FS_Singleton
    <2>3. QED
      BY <1>2, <2>1, <2>2
  <1>3. QED
    BY <1>1, <1>2

\* A message the application handed over is in one place only, and in the order of the calls there.
THEOREM MessagesAreAcceptedOnce == Spec => []AcceptedOnce
  <1>1. ASSUME KnownInv PROVE AcceptedOnce
    <2>0. /\ TypeInv /\ StreamsInv /\ QueuesInv /\ ErasedInv /\ PlacesInv
          /\ DOMAIN logged = DOMAIN streams /\ DOMAIN sent = 1..Len(sent)
      BY <1>1, StreamNumbers DEF KnownInv, ServerInv
    <2>1. ASSUME NEW n \in DOMAIN sent
          PROVE  /\ Cardinality(OnStreams(n)) + Cardinality(Queued(n)) <= 1
                 /\ \A i \in OnStreams(n) : streams[i].session = sent[n].session
                 /\ Queued(n) \subseteq {sent[n].session}
                 /\ sent[n].from = "queue" /\ n \notin erased /\ sent[n].size = "fits" =>
                      OnStreams(n) # {} \/ Queued(n) # {}
                 /\ n \in erased => OnStreams(n) = {}
      <3>0. n # 0
        BY <2>0
      <3>1. \A i \in OnStreams(n) : i \in DOMAIN logged /\ n \in ToSet(logged[i])
        BY DEF OnStreams
      <3>2. \A k \in Queued(n) : k \in Keys /\ n \in ToSet(pendingMessagesBySession[k])
        BY DEF Queued
      <3>3. \A i, j \in OnStreams(n) : i = j
        BY <2>0, <3>0, <3>1 DEF PlacesInv
      <3>4. Queued(n) \subseteq {sent[n].session}
        BY <2>0, <3>2 DEF QueuesInv
      <3>5. OnStreams(n) = {} \/ Queued(n) = {}
        BY <2>0, <3>1, <3>2 DEF PlacesInv
      <3>6. Cardinality(OnStreams(n)) + Cardinality(Queued(n)) <= 1
        <4>1. /\ Cardinality(OnStreams(n)) \in Nat /\ Cardinality(OnStreams(n)) <= 1
              /\ OnStreams(n) = {} => Cardinality(OnStreams(n)) = 0
          BY <3>3, OneAtMost
        <4>2. /\ Cardinality(Queued(n)) \in Nat /\ Cardinality(Queued(n)) <= 1
              /\ Queued(n) = {} => Cardinality(Queued(n)) = 0
          BY <3>4, OneAtMost
        <4>3. QED
          BY <3>5, <4>1, <4>2
      <3>7. \A i \in OnStreams(n) : streams[i].session = sent[n].session /\ n \notin erased
        BY <2>0, <3>0, <3>1 DEF StreamsInv
      <3>8. sent[n].from = "queue" /\ n \notin erased /\ sent[n].size = "fits" => OnStreams(n) # {} \/ Queued(n) # {}
        BY <2>0 DEF PlacesInv, Listed, Waits, OnStreams, Queued
      <3>9. QED
        BY <3>4, <3>6, <3>7, <3>8
    <2>2. \A i \in DOMAIN logged : \A a, b \in DOMAIN logged[i] : a < b => logged[i][a] < logged[i][b]
      BY <2>0 DEF StreamsInv, Increasing
    <2>3. QED
      BY <2>1, <2>2 DEF AcceptedOnce
  <1>2. QED
    BY <1>1, ServerHolds, PTL
-----------------------------------------------------------------------------
(* The streams implement EventLog.                                         *)

\* The last part of a sequence is a suffix of it.
LEMMA TailIsSuffix ==
  ASSUME NEW T, NEW s \in Seq(T), NEW t \in Seq(T), Len(s) <= Len(t),
         \A i \in 1..Len(s) : s[i] = t[Len(t) - Len(s) + i]
  PROVE  Log!IsSuffix(s, t)
  <1>1. /\ Len(s) \in Nat /\ Len(t) \in Nat
    OBVIOUS
  <1> DEFINE a == [i \in 1..Len(s) |-> s[(Len(s) - i) + 1]]
             b == [i \in 1..Len(t) |-> t[(Len(t) - i) + 1]]
  <1>2. a \in Seq(T) /\ b \in Seq(T) /\ Len(a) = Len(s) /\ Len(b) = Len(t)
    BY <1>1
  <1>3. \A i \in 1..Len(s) : a[i] = b[i]
    <2>1. ASSUME NEW i \in 1..Len(s) PROVE a[i] = b[i]
      <3>1. (Len(s) - i) + 1 \in 1..Len(s) /\ i \in 1..Len(t)
        BY <1>1
      <3>2. s[(Len(s) - i) + 1] = t[Len(t) - Len(s) + ((Len(s) - i) + 1)]
        BY <3>1
      <3>3. Len(t) - Len(s) + ((Len(s) - i) + 1) = (Len(t) - i) + 1
        BY <1>1
      <3>4. QED
        BY <3>1, <3>2, <3>3
    <2>2. QED
      BY <2>1
  <1>4. Log!Reverse(s) = a /\ Log!Reverse(t) = b
    BY DEF Log!Reverse
  <1> HIDE DEF a, b
  <1>5. SubSeq(a, 1, Len(a)) = SubSeq(b, 1, Len(a))
    BY <1>1, <1>2, <1>3
  <1>6. Log!IsPrefix(a, b)
    BY <1>1, <1>2, <1>5 DEF Log!IsPrefix
  <1>7. QED
    BY <1>4, <1>6 DEF Log!IsSuffix

\* The logs of the abstract specification are those of the streams.
LEMMA LogsAreOfStreams ==
  ASSUME TypeInv
  PROVE  /\ Len(StreamLogs) = Len(streams) /\ DOMAIN StreamLogs = DOMAIN streams
         /\ \A i \in DOMAIN streams :
              /\ StreamLogs[i].owner = streams[i].session
              /\ StreamLogs[i].closed = streams[i].terminated
              /\ StreamLogs[i].messages = logged[i]
  BY StreamNumbers DEF StreamLogs

\* So they grow as those do.
LEMMA LogsGrow ==
  ASSUME TypeInv, TypeInv', LogsGoOn
  PROVE  Log!Grows
  <1>1. /\ Len(StreamLogs') = Len(streams') /\ DOMAIN StreamLogs' = DOMAIN streams'
        /\ \A i \in DOMAIN streams' :
             /\ StreamLogs'[i].owner = streams'[i].session
             /\ StreamLogs'[i].closed = streams'[i].terminated
             /\ StreamLogs'[i].messages = logged'[i]
    <2>1. DOMAIN streams' = 1..Len(streams') /\ Len(streams') \in Nat
      BY DEF TypeInv
    <2>2. QED
      BY <2>1 DEF StreamLogs
  <1>2. DOMAIN streams \subseteq DOMAIN streams'
    BY DEF TypeInv, LogsGoOn
  <1>3. QED
    BY <1>1, <1>2, LogsAreOfStreams DEF Log!Grows, LogsGoOn

\* A step that shows no stream.
LEMMA ShowsNone ==
  ASSUME TypeInv, TypeInv', LogsGoOn, answer'.stream = 0
  PROVE  Log!Next
  <1>1. StreamAnswer'.log = 0
    BY DEF StreamAnswer
  <1>2. QED
    BY <1>1, LogsGrow DEF Log!Next, Log!NoAnswer

\* A step that leaves the streams alone as well.
LEMMA LeavesStreams ==
  ASSUME TypeInv, TypeInv', UNCHANGED << streams, logged >>, answer'.stream = 0
  PROVE  Log!Next
  <1>1. LogsGoOn
    BY FlagsGoOn
  <1>2. QED
    BY <1>1, ShowsNone

\* A stream grows too old.
LEMMA StreamAgesRefines ==
  ASSUME TypeInv, TypeInv', NEW n \in DOMAIN streams, StreamAges(n)
  PROVE  Log!Next
  <1>1. /\ streams' = [streams EXCEPT ![n] = [streams[n] EXCEPT !.aged = TRUE]]
        /\ answer'.stream = 0 /\ UNCHANGED logged
    BY PlainAnswers DEF StreamAges, history
  <1>2. PICK aged : aged = [streams[n] EXCEPT !.aged = TRUE]
    OBVIOUS
  <1>3. aged.session = streams[n].session /\ aged.terminated = streams[n].terminated
    BY <1>2, FlagsOf, StreamNumbers
  <1>4. streams' = [streams EXCEPT ![n] = aged]
    BY <1>1, <1>2
  <1>5. \A i \in DOMAIN streams : streams'[i] = IF i = n THEN aged ELSE streams[i]
    BY <1>4 DEF TypeInv
  <1>6. LogsGoOn
    BY <1>1, <1>3, <1>5, FlagsGoOn
  <1>7. QED
    BY <1>1, <1>6, ShowsNone

\* A stream that a client asks for has grown too old.
LEMMA RefuseResumeRefines ==
  ASSUME TypeInv, TypeInv', NEW r, RefuseResume(r)
  PROVE  Log!Next
  <1> DEFINE n == r.lastEventId.stream
  <1>1. answer'.stream = 0 /\ UNCHANGED logged
    BY PlainAnswers DEF RefuseResume, history
  <1>2. CASE UNCHANGED streams
    BY <1>1, <1>2, LeavesStreams
  <1>3. CASE ~UNCHANGED streams
    <2>1. n \in DOMAIN streams /\ streams' = [streams EXCEPT ![n] = [streams[n] EXCEPT !.terminated = TRUE]]
      BY <1>3 DEF RefuseResume
    <2>2. PICK closed : closed = [streams[n] EXCEPT !.terminated = TRUE]
      OBVIOUS
    <2>3. closed.session = streams[n].session /\ closed.terminated
      BY <2>1, <2>2, FlagsOf, StreamNumbers
    <2>4. streams' = [streams EXCEPT ![n] = closed]
      BY <2>1, <2>2
    <2>5. \A i \in DOMAIN streams : streams'[i] = IF i = n THEN closed ELSE streams[i]
      BY <2>4 DEF TypeInv
    <2> HIDE DEF n
    <2>6. LogsGoOn
      BY <1>1, <2>3, <2>5, FlagsGoOn
    <2>7. QED
      BY <1>1, <2>6, ShowsNone
  <1>4. QED
    BY <1>2, <1>3

\* A session ends, and its streams close.
LEMMA DeleteSessionRefines ==
  ASSUME TypeInv, TypeInv', NEW r, DeleteSession(r)
  PROVE  Log!Next
  <1>1. answer'.stream = 0 /\ UNCHANGED logged
    BY PlainAnswers DEF DeleteSession
  <1>2. ASSUME NEW i \in DOMAIN streams
        PROVE  /\ streams'[i].session = streams[i].session
               /\ streams[i].terminated => streams'[i].terminated
    <2>1. PICK flag : flag = (streams[i].terminated \/ streams[i].session = r.session)
      OBVIOUS
    <2>2. streams'[i] = [streams[i] EXCEPT !.terminated = flag]
      BY <2>1 DEF DeleteSession
    <2>3. streams'[i].session = streams[i].session /\ streams'[i].terminated = flag
      BY <2>2, FlagsOf, StreamNumbers
    <2>4. QED
      BY <2>1, <2>3
  <1>3. LogsGoOn
    BY <1>1, <1>2, FlagsGoOn
  <1>4. QED
    BY <1>1, <1>3, ShowsNone

\* What a response to a POST becomes for a legacy client.
LEMMA ReplyOrPlain ==
  ASSUME NEW w, NEW reply, NEW legacy, NEW messages, ReplyToPost(w, reply, legacy, messages)
  PROVE  answer' = reply \/ answer'.stream = 0
  <1> DEFINE key == worker[w].request.session
             last == BeforeOversize([n \in DOMAIN messages |-> sent'[messages[n]].size])
             accepted == [Reply(key, 202) EXCEPT !.header = reply.header]
  <1>1. answer' = reply \/ answer' = accepted \/ answer' = Reply(key, 400)
    <2>1. ReplyToPost(w, reply, legacy, messages) =>
            answer' = reply \/ answer' = (IF last = Len(messages) THEN accepted ELSE Reply(key, 400))
      BY Zenon DEF ReplyToPost
    <2>2. QED
      BY <2>1, Zenon
  <1>2. accepted.stream = 0 /\ Reply(key, 400).stream = 0
    BY DEF Reply, NoReply
  <1>3. QED
    BY <1>1, <1>2

\* A response that is no stream.
LEMMA HandlerAnswersRefines ==
  ASSUME TypeInv, TypeInv', NEW w, NEW result, HandlerAnswers(w, result)
  PROVE  Log!Next
  <1> DEFINE reply(status) == [Reply(worker[w].request.session, status) EXCEPT !.header = HeaderOf(w, result)]
  <1>1. \A status : reply(status).stream = 0
    BY DEF Reply, NoReply
  <1>2. UNCHANGED << streams, logged >>
    BY DEF HandlerAnswers
  <1>3. \E status, legacy, messages : ReplyToPost(w, reply(status), legacy, messages)
    BY DEF HandlerAnswers
  <1> HIDE DEF reply
  <1>4. answer'.stream = 0
    BY <1>1, <1>3, ReplyOrPlain
  <1>5. QED
    BY <1>2, <1>4, LeavesStreams

\* The last part of a log, as an answer shows it.
LEMMA NumbersAreSuffix ==
  ASSUME NEW stream, NEW log, GoodStream(stream, log), 0 \in ToSet(log)
  PROVE  Log!IsSuffix(Numbers(stream.events), log) /\ Numbers(stream.events) # << >>
  <1> DEFINE M == 0..MaxMessages
             shown == Numbers(stream.events)
  <1>1. stream.events \in Seq(Event(M)) /\ log \in Seq(M) /\ Mirrors(stream, log)
    BY DEF GoodStream, Stream, Event
  <1> HIDE DEF M
  <1>2. /\ shown \in Seq(M) /\ Len(shown) = Len(stream.events) /\ Len(stream.events) \in Nat
        /\ \A i \in 1..Len(stream.events) : shown[i] = stream.events[i].message
    <2>1. PICK events : events = stream.events /\ events \in Seq(Event(M))
      BY <1>1
    <2>2. \A i \in 1..Len(events) : events[i].message \in M
      <3>1. \A i \in 1..Len(events) : events[i] \in Event(M)
        BY <2>1
      <3>2. QED
        BY <3>1 DEF Event
    <2>3. shown = [i \in 1..Len(events) |-> events[i].message] /\ Len(events) \in Nat
      BY <2>1 DEF Numbers
    <2> HIDE DEF shown
    <2>4. QED
      BY <2>1, <2>2, <2>3
  <1>3. Len(log) \in Nat /\ Len(log) > 0
    BY <1>1 DEF ToSet
  <1> HIDE DEF shown
  <1>4. Len(shown) <= Len(log) /\ shown # << >>
    BY <1>1, <1>2, <1>3 DEF Mirrors
  <1>5. ASSUME NEW i \in 1..Len(shown) PROVE shown[i] = log[Len(log) - Len(shown) + i]
    <2>1. i \in 1..Len(stream.events)
      BY <1>2
    <2>2. PICK c : c = stream.events[i].cursor
      OBVIOUS
    <2>3. c = Len(log) - Len(stream.events) + i /\ stream.events[i].message = log[c]
      BY <1>1, <2>1, <2>2 DEF Mirrors
    <2>4. shown[i] = stream.events[i].message
      BY <1>2, <2>1
    <2>5. QED
      BY <1>2, <2>3, <2>4
  <1>6. QED
    BY <1>1, <1>2, <1>4, <1>5, TailIsSuffix DEF shown

\* A step that opens a stream, and shows it or no stream at all.
LEMMA OpensRefines ==
  ASSUME ServerInv, ServerInv', StreamOpened, NewShown \/ answer'.stream = 0
  PROVE  Log!Next
  <1>0. TypeInv /\ TypeInv' /\ StreamsInv'
    BY DEF ServerInv
  <1>1. LogsGoOn
    <2>1. \A i \in DOMAIN streams : logged[i] \in Seq(0..MaxMessages)
      BY <1>0, StreamNumbers
    <2>2. \A i \in DOMAIN streams : Log!IsPrefix(logged[i], logged[i])
      BY <2>1, PrefixOfItself
    <2>3. Len(streams) <= Len(streams')
      BY <1>0, StreamNumbers DEF StreamOpened
    <2>4. QED
      BY <2>2, <2>3 DEF LogsGoOn, StreamOpened
  <1>2. CASE answer'.stream = 0
    BY <1>0, <1>1, <1>2, ShowsNone
  <1>3. CASE NewShown
    <2> DEFINE n == Len(streams) + 1
    <2>1. /\ Len(StreamLogs) = Len(streams) /\ Len(StreamLogs') = n /\ n \in DOMAIN streams'
      <3>1. Len(streams) \in Nat /\ Len(streams') \in Nat /\ DOMAIN streams' = 1..Len(streams')
        BY <1>0 DEF TypeInv
      <3>2. Len(StreamLogs) = Len(streams) /\ Len(StreamLogs') = Len(streams')
        BY <1>0, <3>1, LogsAreOfStreams DEF StreamLogs
      <3>3. QED
        BY <3>1, <3>2 DEF StreamOpened
    <2>2. StreamLogs'[n].owner = streams'[n].session /\ StreamLogs'[n].messages = logged'[n]
      BY <2>1 DEF StreamLogs
    <2>3. /\ StreamAnswer'.log = n /\ StreamAnswer'.reader = streams'[n].session
          /\ StreamAnswer'.messages = Numbers(streams'[n].events)
      BY <1>3 DEF StreamAnswer, NewShown, Numbers
    <2>4. GoodStream(streams'[n], logged'[n]) /\ 0 \in ToSet(logged'[n])
      BY <1>0, <2>1 DEF StreamsInv, StreamOpened
    <2> HIDE DEF n
    <2>5. Log!IsSuffix(Numbers(streams'[n].events), logged'[n]) /\ Numbers(streams'[n].events) # << >>
      BY <2>4, NumbersAreSuffix
    <2>6. Len(StreamLogs') = Len(StreamLogs) + 1
      BY <2>1 DEF n
    <2>7. Log!Opens
      BY <2>1, <2>2, <2>3, <2>5, <2>6 DEF Log!Opens
    <2>8. StreamLogs'[StreamAnswer'.log].owner = StreamAnswer'.reader
      BY <2>2, <2>3
    <2>9. QED
      BY <1>0, <1>1, <2>7, <2>8, LogsGrow DEF Log!Next, Log!Shows
  <1>4. QED
    BY <1>2, <1>3

\* A client that resumes a stream is shown all that follows its cursor, or no stream.
LEMMA ResumeStreamRefines ==
  ASSUME ServerInv, ServerInv', NEW r \in Requests, ResumeStream(r)
  PROVE  Log!Next
  <1> DEFINE n == r.lastEventId.stream
             cursor == r.lastEventId.cursor
             events == ReplayFromCursor(streams[n], cursor)
  <1>1. TypeInv /\ TypeInv' /\ UNCHANGED << streams, logged >>
    BY DEF ServerInv, ResumeStream, tables, history
  <1>2. /\ n \in DOMAIN streams /\ streams[n].session = r.session /\ cursor \in Nat
        /\ GoodStream(streams[n], logged[n]) /\ MaxMessages \in Nat
    BY HttpServerAssumption DEF ResumeStream, Resumable, Request, LastEventId, ServerInv, StreamsInv
  <1>3. answer' = IF OutsideWindow(streams[n], cursor) THEN Reply(r.session, 409)
                  ELSE ReplyEvents(r.session, n, TRUE, cursor, events)
    BY DEF ResumeStream
  <1> HIDE DEF n, cursor, events
  <1>4. CASE OutsideWindow(streams[n], cursor)
    BY <1>1, <1>3, <1>4, PlainAnswers, LeavesStreams
  <1>5. CASE ~OutsideWindow(streams[n], cursor)
    <2>1. Numbers(events) = SubSeq(logged[n], cursor + 1, Len(logged[n]))
      BY <1>2, <1>5, ReplayIsExact DEF events
    <2>2. Tells(answer', r.session, n, TRUE, cursor, events)
      BY <1>3, <1>5, EventAnswers
    <2>3. /\ StreamAnswer'.log = n /\ StreamAnswer'.reader = r.session /\ StreamAnswer'.after = cursor
          /\ StreamAnswer'.messages = Numbers(events)
      BY <2>2 DEF Tells, StreamAnswer, Numbers
    <2>4. /\ DOMAIN StreamLogs = DOMAIN streams /\ StreamLogs' = StreamLogs
          /\ StreamLogs[n].owner = streams[n].session /\ StreamLogs[n].messages = logged[n]
      BY <1>1, <1>2 DEF StreamLogs
    <2>5. Log!Resumes
      BY <1>2, <2>1, <2>3, <2>4 DEF Log!Resumes, Log!After
    <2>6. StreamLogs'[StreamAnswer'.log].owner = StreamAnswer'.reader
      BY <1>2, <2>3, <2>4
    <2>7. LogsGoOn
      BY <1>1, FlagsGoOn
    <2>8. QED
      BY <1>1, <2>5, <2>6, <2>7, LogsGrow DEF Log!Next, Log!Shows
  <1>6. QED
    BY <1>4, <1>5

\* A request that is served takes a step of the abstract specification.
LEMMA ServeRefines ==
  ASSUME ServerInv, ServerInv', Serve
  PROVE  Log!Next
  <1>0. TypeInv /\ TypeInv'
    BY DEF ServerInv
  <1>1. PICK r \in Requests :
          IF IsMetadata(options, r) THEN ServeMetadata(r)
          ELSE LET status == Status(options, sessions, r)
               IN  IF status # Ok THEN Refuse(status) ELSE Handle(r)
    BY DEF Serve
  <1>2. CASE ServeMetadata(r) \/ \E status : Refuse(status)
    <2>1. UNCHANGED << streams, logged >> /\ answer'.stream = 0
      BY <1>2, PlainAnswers DEF ServeMetadata, Refuse, tables, history
    <2>2. QED
      BY <1>0, <2>1, LeavesStreams
  <1>3. CASE Status(options, sessions, r) = Ok /\ Handle(r)
    <2>1. r.session \in Keys
      BY <1>3, ServedSession
    <2>2. CASE OpenStream(r)
      BY <2>1, <2>2, OpenStreamKeeps, OpensRefines
    <2>3. CASE ResumeStream(r) \/ RefuseResume(r) \/ DeleteSession(r)
      BY <1>0, <2>3, ResumeStreamRefines, RefuseResumeRefines, DeleteSessionRefines
    <2>4. CASE ReadLegacy(r)
      <3>1. UNCHANGED << streams, logged >>
        BY <2>4 DEF ReadLegacy, tables, history
      <3>2. answer'.stream = 0
        BY <2>4 DEF ReadLegacy, Reply, ReplyEvents, NoReply
      <3>3. QED
        BY <1>0, <3>1, <3>2, LeavesStreams
    <2>5. CASE \E w \in Workers : EnterHandler(w, r)
      <3>1. UNCHANGED << streams, logged >> /\ answer'.stream = 0
        BY <2>5, PlainAnswers DEF EnterHandler, tables, history
      <3>2. QED
        BY <1>0, <3>1, LeavesStreams
    <2>6. QED
      BY <1>3, <2>2, <2>3, <2>4, <2>5 DEF Handle
  <1>4. QED
    BY <1>1, <1>2, <1>3

\* So does every other step, or it is a stutter.
LEMMA NextRefines ==
  ASSUME ServerInv, ServerInv', [Next]_vars
  PROVE  [Log!Next]_(Log!vars)
  <1>0. TypeInv /\ TypeInv'
    BY DEF ServerInv
  <1>1. ASSUME NEW key \in Keys, NEW response \in BOOLEAN, NEW size \in Sizes,
               EnqueueServerMessage(key, response, size)
        PROVE  Log!Next
    BY <1>0, <1>1, EnqueueKeeps, ShowsNone
  <1>2. ASSUME NEW s \in Sessions, NEW x, UpsertSession(s, x) \/ SetSessionState(s, x) PROVE Log!Next
    <2>1. UNCHANGED << streams, logged >> /\ answer'.stream = 0
      BY <1>2, PlainAnswers DEF UpsertSession, SetSessionState, history
    <2>2. QED
      BY <1>0, <2>1, LeavesStreams
  <1>3. ASSUME Apply PROVE Log!Next
    BY <1>0, <1>1, <1>2, <1>3, StreamAgesRefines DEF Apply
  <1>4. ASSUME NEW w \in Workers, LeaveHandler(w) PROVE Log!Next
    <2>1. ASSUME HandlerThrows(w) \/ \E accepted \in BOOLEAN : HandlerJudges(w, accepted) PROVE Log!Next
      <3>1. UNCHANGED << streams, logged >> /\ answer'.stream = 0
        BY <2>1, PlainAnswers DEF HandlerThrows, HandlerJudges, tables, history
      <3>2. QED
        BY <1>0, <3>1, LeavesStreams
    <2>2. ASSUME NEW result \in HandlerResults, HandlerAnswers(w, result) \/ HandlerStreams(w, result)
          PROVE  Log!Next
      BY <1>0, <2>2, HandlerAnswersRefines, HandlerStreamsKeeps, OpensRefines
    <2>3. QED
      BY <1>4, <2>1, <2>2 DEF LeaveHandler
  <1>5. ASSUME ReturnResponse PROVE Log!Next
    <2>1. UNCHANGED << streams, logged >> /\ answer'.stream = 0
      BY <1>5, PlainAnswers DEF ReturnResponse, tables, history
    <2>2. QED
      BY <1>0, <2>1, LeavesStreams
  <1>6. ASSUME UNCHANGED vars PROVE UNCHANGED Log!vars
    <2>1. UNCHANGED << streams, logged, answer >>
      BY <1>6 DEF vars, tables, history
    <2>2. QED
      BY <2>1 DEF Log!vars, StreamLogs, StreamAnswer, Numbers
  <1>7. QED
    BY <1>3, <1>4, <1>5, <1>6, ServeRefines DEF Next

\* The bounded streams of the server implement logs that are never trimmed: a log only grows, not
\* after it is closed, and an answer shows to its owner all that follows the cursor the client
\* gave, or the last part of a stream that the step opened.
THEOREM ServerImplementsEventLog == Spec => ImplementsEventLog
  <1>1. Init => Log!Init
    <2> SUFFICES ASSUME Init PROVE Log!Init
      OBVIOUS
    <2>1. streams = << >> /\ answer = NoReply
      BY DEF Init
    <2>2. StreamLogs = << >> /\ StreamAnswer.log = 0
      BY <2>1 DEF StreamLogs, StreamAnswer, NoReply
    <2>3. QED
      BY <2>2 DEF Log!Init, Log!NoAnswer
  <1>2. KnownInv /\ KnownInv' /\ [Next]_vars => [Log!Next]_(Log!vars)
    BY NextRefines DEF KnownInv
  <1>3. QED
    BY <1>1, <1>2, ServerHolds, PTL DEF Spec, ImplementsEventLog, Log!Spec

-----------------------------------------------------------------------------
(* What a DELETE ended.                                                    *)

\* What a session had been sent when a DELETE ended it is not in a queue or a buffer, and the
\* streams that have it are closed.
ForgottenInv ==
  /\ forgotten \subseteq DOMAIN sent
  /\ \A n \in forgotten :
       /\ sent[n].session \in Sessions /\ ~Waits(n) /\ ~Stored(n)
       /\ \A i \in DOMAIN logged : n \in ToSet(logged[i]) => streams[i].terminated

\* It is shown if the application makes the session active again.
ReopenedInv ==
  \A n \in Shown : n \in forgotten => sessions[sent[n].session].state = "active"

\* Streams that are closed stay closed, with what they have.
LEMMA ClosedStays ==
  ASSUME KnownInv, KnownInv', [Next]_vars, NEW i \in DOMAIN streams, streams[i].terminated
  PROVE  i \in DOMAIN streams' /\ streams'[i].terminated /\ logged'[i] = logged[i]
  <1>0. ServerInv /\ ServerInv' /\ TypeInv /\ TypeInv'
    BY DEF KnownInv, ServerInv
  <1>1. Log!Grows \/ UNCHANGED Log!vars
    BY <1>0, NextRefines DEF Log!Next
  <1>2. /\ Len(StreamLogs) = Len(streams) /\ DOMAIN StreamLogs = DOMAIN streams
        /\ StreamLogs[i].closed = streams[i].terminated /\ StreamLogs[i].messages = logged[i]
    BY <1>0, LogsAreOfStreams
  <1>3. /\ Len(StreamLogs') = Len(streams') /\ DOMAIN StreamLogs' = DOMAIN streams'
        /\ \A k \in DOMAIN streams' :
             StreamLogs'[k].closed = streams'[k].terminated /\ StreamLogs'[k].messages = logged'[k]
    <2>1. DOMAIN streams' = 1..Len(streams') /\ Len(streams') \in Nat
      BY <1>0 DEF TypeInv
    <2>2. QED
      BY <2>1 DEF StreamLogs
  <1>4. CASE Log!Grows
    <2>1. /\ Len(StreamLogs) <= Len(StreamLogs')
          /\ StreamLogs[i].closed => StreamLogs'[i].closed /\ StreamLogs'[i].messages = StreamLogs[i].messages
      BY <1>2, <1>4 DEF Log!Grows
    <2>2. i \in DOMAIN streams'
      BY <1>0, <1>2, <1>3, <2>1 DEF TypeInv
    <2>3. QED
      BY <1>2, <1>3, <2>1, <2>2
  <1>5. CASE UNCHANGED Log!vars
    <2>1. StreamLogs' = StreamLogs
      BY <1>5 DEF Log!vars
    <2>2. QED
      BY <1>2, <1>3, <2>1
  <1>6. QED
    BY <1>1, <1>4, <1>5

\* A step that puts nothing old anywhere brings nothing back.
LEMMA NothingReturns ==
  ASSUME KnownInv, KnownInv', [Next]_vars, ForgottenInv, NothingOld
  PROVE  ForgottenInv'
  <1>0. forgotten' = forgotten /\ SentGrows /\ PlacesInv' /\ TypeInv /\ TypeInv' /\ DOMAIN sent \subseteq Nat \ {0}
    BY StreamNumbers DEF NothingOld, KnownInv, ServerInv
  <1>1. forgotten' \subseteq DOMAIN sent'
    BY <1>0 DEF ForgottenInv, SentGrows
  <1>2. ASSUME NEW n \in forgotten
        PROVE  /\ n \in DOMAIN sent /\ sent'[n].session \in Sessions
               /\ ~Waits(n) /\ ~Waits(n)' /\ ~Stored(n)'
    BY <1>0 DEF ForgottenInv, NothingOld, SentGrows
  <1>3. ASSUME NEW n \in forgotten, NEW i \in DOMAIN logged', n \in ToSet(logged'[i])
        PROVE  streams'[i].terminated
    <2>1. Listed(n)
      BY <1>2, <1>3 DEF NothingOld, Listed
    <2>2. PICK k \in DOMAIN streams : n \in ToSet(logged[k]) /\ streams[k].terminated
      BY <1>0, <2>1, StreamNumbers DEF Listed, ForgottenInv
    <2>3. k \in DOMAIN streams' /\ streams'[k].terminated /\ logged'[k] = logged[k]
      BY <2>2, ClosedStays
    <2>4. k \in DOMAIN logged' /\ n # 0
      BY <1>0, <1>2, <2>3 DEF TypeInv
    <2>5. k = i
      BY <1>0, <1>3, <2>2, <2>3, <2>4 DEF PlacesInv
    <2>6. QED
      BY <2>3, <2>5
  <1>4. QED
    BY <1>0, <1>1, <1>2, <1>3 DEF ForgottenInv

\* A DELETE ends everything its session had been sent.
LEMMA DeleteForgets ==
  ASSUME KnownInv, KnownInv', [Next]_vars, ForgottenInv, Deletes
  PROVE  ForgottenInv'
  <1>0. /\ TypeInv /\ StreamsInv /\ QueuesInv /\ BuffersInv /\ DOMAIN sent \subseteq Nat \ {0}
        /\ DOMAIN logged = DOMAIN streams
    BY StreamNumbers DEF KnownInv, ServerInv
  <1>1. PICK r \in Requests : Status(options, sessions, r) = Ok /\ DeleteSession(r)
    BY DEF Deletes
  <1>2. r.session \in Sessions /\ r.session \in Keys
    BY <1>1, ServedSession DEF DeleteSession
  <1>3. /\ forgotten' = forgotten \cup { n \in DOMAIN sent : sent[n].session = r.session }
        /\ UNCHANGED << sent, logged >>
        /\ pendingMessagesBySession' = [pendingMessagesBySession EXCEPT ![r.session] = << >>]
        /\ legacyEventsBySession' = [legacyEventsBySession EXCEPT ![r.session] = EmptyBuffer]
        /\ \A i \in DOMAIN streams :
             streams'[i] = [streams[i] EXCEPT !.terminated = streams[i].terminated \/ streams[i].session = r.session]
    BY <1>1 DEF DeleteSession
  <1>4. \A k \in Keys :
          /\ pendingMessagesBySession'[k] = IF k = r.session THEN << >> ELSE pendingMessagesBySession[k]
          /\ legacyEventsBySession'[k] = IF k = r.session THEN EmptyBuffer ELSE legacyEventsBySession[k]
    BY <1>0, <1>3 DEF TypeInv
  <1>5. ToSet(<< >>) = {} /\ \A n : ~Holds(EmptyBuffer.events, n)
    BY DEF ToSet, EmptyBuffer, Holds
  <1>6. ASSUME NEW i \in DOMAIN streams, streams[i].terminated \/ streams[i].session = r.session
        PROVE  streams'[i].terminated
    <2>1. PICK flag : flag = (streams[i].terminated \/ streams[i].session = r.session)
      OBVIOUS
    <2>2. streams[i] \in Stream /\ streams'[i] = [streams[i] EXCEPT !.terminated = flag]
      BY <1>0, <1>3, <2>1, StreamNumbers
    <2>3. streams'[i].terminated = flag
      BY <2>2, FlagsOf
    <2>4. QED
      BY <1>6, <2>1, <2>3
  <1>7. ASSUME NEW n \in forgotten'
        PROVE  /\ n \in DOMAIN sent' /\ sent'[n].session \in Sessions /\ ~Waits(n)' /\ ~Stored(n)'
               /\ \A i \in DOMAIN logged' : n \in ToSet(logged'[i]) => streams'[i].terminated
    <2>1. CASE n \in forgotten
      <3>1. n \in DOMAIN sent /\ sent[n].session \in Sessions /\ ~Waits(n) /\ ~Stored(n)
            /\ \A i \in DOMAIN logged : n \in ToSet(logged[i]) => streams[i].terminated
        BY <2>1 DEF ForgottenInv
      <3>2. ~Waits(n)' /\ ~Stored(n)'
        BY <1>4, <1>5, <3>1 DEF Waits, Stored
      <3>3. QED
        BY <1>0, <1>3, <1>6, <3>1, <3>2
    <2>2. CASE n \in DOMAIN sent /\ sent[n].session = r.session
      <3>1. ~Waits(n)'
        BY <1>0, <1>4, <1>5, <2>2 DEF Waits, QueuesInv
      <3>2. ~Stored(n)'
        BY <1>0, <1>4, <1>5, <2>2 DEF Stored, BuffersInv
      <3>3. \A i \in DOMAIN logged : n \in ToSet(logged[i]) => streams[i].session = r.session
        BY <1>0, <2>2 DEF StreamsInv
      <3>4. QED
        BY <1>0, <1>2, <1>3, <1>6, <2>2, <3>1, <3>2, <3>3
    <2>3. QED
      BY <1>3, <2>1, <2>2
  <1>8. QED
    BY <1>7 DEF ForgottenInv

\* A step shows no stream, one that it opened, or one that a client of its active session resumes.
Resuming ==
  \E r \in Requests : Status(options, sessions, r) = Ok /\ r.session \in Keys /\ ResumeStream(r)
StepShows == answer'.stream = 0 \/ (StreamOpened /\ NewShown) \/ Resuming

\* There is no other step, but a stutter.
LEMMA NextShows ==
  ASSUME ServerInv, Next
  PROVE  StepShows
  <1>1. ASSUME Serve PROVE StepShows
    <2>1. PICK r \in Requests :
            IF IsMetadata(options, r) THEN ServeMetadata(r)
            ELSE LET status == Status(options, sessions, r)
                 IN  IF status # Ok THEN Refuse(status) ELSE Handle(r)
      BY <1>1 DEF Serve
    <2>2. CASE ServeMetadata(r) \/ \E status : Refuse(status)
      BY <2>2, PlainAnswers DEF ServeMetadata, Refuse, StepShows
    <2>3. CASE Status(options, sessions, r) = Ok /\ Handle(r)
      <3>1. r.session \in Keys
        BY <2>3, ServedSession
      <3>2. CASE OpenStream(r)
        BY <3>1, <3>2, OpenStreamKeeps DEF StepShows
      <3>3. CASE ResumeStream(r)
        BY <2>3, <3>1, <3>3 DEF StepShows, Resuming
      <3>4. CASE RefuseResume(r) \/ DeleteSession(r) \/ \E w \in Workers : EnterHandler(w, r)
        BY <3>4, PlainAnswers DEF RefuseResume, DeleteSession, EnterHandler, StepShows
      <3>5. CASE ReadLegacy(r)
        BY <3>5 DEF ReadLegacy, Reply, ReplyEvents, NoReply, StepShows
      <3>6. QED
        BY <2>3, <3>2, <3>3, <3>4, <3>5 DEF Handle
    <2>4. QED
      BY <2>1, <2>2, <2>3
  <1>2. ASSUME Apply PROVE answer'.stream = 0
    <2>1. ASSUME NEW key \in Keys, NEW response \in BOOLEAN, NEW size \in Sizes,
                 EnqueueServerMessage(key, response, size)
          PROVE  answer'.stream = 0
      BY <2>1, PlainAnswers DEF EnqueueServerMessage
    <2>2. ASSUME NEW n \in DOMAIN streams, StreamAges(n) PROVE answer'.stream = 0
      BY <2>2, PlainAnswers DEF StreamAges
    <2>3. ASSUME NEW s \in Sessions, NEW x, UpsertSession(s, x) \/ SetSessionState(s, x)
          PROVE  answer'.stream = 0
      BY <2>3, PlainAnswers DEF UpsertSession, SetSessionState
    <2>4. QED
      BY <1>2, <2>1, <2>2, <2>3 DEF Apply
  <1>3. ASSUME NEW w \in Workers, LeaveHandler(w) PROVE StepShows
    <2>1. CASE HandlerThrows(w) \/ \E accepted \in BOOLEAN : HandlerJudges(w, accepted)
      BY <2>1, PlainAnswers DEF HandlerThrows, HandlerJudges, StepShows
    <2>2. ASSUME NEW result \in HandlerResults, HandlerAnswers(w, result) PROVE answer'.stream = 0
      <3> DEFINE reply(status) == [Reply(worker[w].request.session, status) EXCEPT !.header = HeaderOf(w, result)]
      <3>1. \A status : reply(status).stream = 0
        BY DEF Reply, NoReply
      <3>2. \E status, legacy, messages : ReplyToPost(w, reply(status), legacy, messages)
        BY <2>2 DEF HandlerAnswers
      <3> HIDE DEF reply
      <3>3. QED
        BY <3>1, <3>2, ReplyOrPlain
    <2>3. ASSUME NEW result \in HandlerResults, HandlerStreams(w, result) PROVE StepShows
      BY <2>3, HandlerStreamsKeeps DEF StepShows
    <2>4. QED
      BY <1>3, <2>1, <2>2, <2>3 DEF LeaveHandler, StepShows
  <1>4. ASSUME ReturnResponse PROVE answer'.stream = 0
    BY <1>4, PlainAnswers DEF ReturnResponse
  <1>5. QED
    BY <1>1, <1>2, <1>3, <1>4 DEF Next, StepShows

\* No step shows what a DELETE ended, but from a session that is active again.
LEMMA NothingReappears ==
  ASSUME KnownInv, KnownInv', [Next]_vars, ForgottenInv, ForgottenInv', ReopenedInv
  PROVE  ReopenedInv'
  <1>0. /\ ServerInv /\ TypeInv /\ TypeInv' /\ StreamsInv' /\ BuffersInv' /\ AnswerInv' /\ PlacesInv'
        /\ DOMAIN logged' = DOMAIN streams' /\ DOMAIN streams' = 1..Len(streams') /\ Len(streams') \in Nat
        /\ DOMAIN logged = DOMAIN streams /\ DOMAIN streams = 1..Len(streams) /\ Len(streams) \in Nat
    <2>1. /\ ServerInv /\ TypeInv /\ TypeInv' /\ StreamsInv' /\ BuffersInv' /\ AnswerInv' /\ PlacesInv'
      BY DEF KnownInv, ServerInv
    <2>2. QED
      BY <2>1 DEF TypeInv
  <1>1. CASE UNCHANGED vars
    BY <1>1 DEF vars, tables, history, ReopenedInv, Shown, Numbers
  <1>2. CASE Next
    <2> SUFFICES ASSUME NEW n \in Shown', n \in forgotten'
                 PROVE  sessions'[sent'[n].session].state = "active"
      BY DEF ReopenedInv
    <2>1. n # 0 /\ Holds(answer'.events, n) /\ answer'.events # << >>
      <3>1. answer'.events \in Seq(Event(0..MaxMessages))
        BY <1>0 DEF AnswerInv
      <3>2. DOMAIN answer'.events = 1..Len(answer'.events)
        BY <3>1
      <3>3. PICK i \in DOMAIN answer'.events : n = answer'.events[i].message
        BY DEF Shown, Numbers, ToSet
      <3>4. n # 0
        BY DEF Shown
      <3>5. QED
        BY <3>2, <3>3, <3>4 DEF Holds
    <2>2. ShowsStream'
      <3>1. SUFFICES ASSUME ShowsBuffer' PROVE FALSE
        BY <1>0, <2>1 DEF AnswerInv
      <3>2. Stored(n)'
        <4> DEFINE buffer == legacyEventsBySession'[answer'.session]
        <4>1. PICK k \in Nat : answer'.events = SubSeq(buffer.events, k + 1, Len(buffer.events))
          BY <3>1 DEF ShowsBuffer
        <4>2. answer'.session \in Keys /\ GoodBuffer(buffer)
          BY <1>0, <3>1 DEF ShowsBuffer, BuffersInv
        <4>3. buffer.events \in Seq(Event(1..MaxMessages))
          BY <4>2 DEF GoodBuffer, Buffer, Event
        <4>4. Holds(buffer.events, n)
          BY <2>1, <4>1, <4>3, HeldAtEnd
        <4>5. QED
          BY <4>2, <4>4 DEF Stored
      <3>3. QED
        BY <3>2 DEF ForgottenInv
    <2>3. answer'.stream \in DOMAIN streams' /\ streams'[answer'.stream].session = answer'.session
          /\ Holds(streams'[answer'.stream].events, n)
      BY <2>1, <2>2 DEF ShowsStream
    <2>4. /\ n \in ToSet(logged'[answer'.stream]) /\ sent'[n].session = answer'.session
      <3>1. GoodStream(streams'[answer'.stream], logged'[answer'.stream])
        BY <1>0, <2>3 DEF StreamsInv
      <3>2. n \in ToSet(logged'[answer'.stream])
        BY <2>3, <3>1, HeldIsLogged
      <3>3. QED
        BY <1>0, <2>1, <2>3, <3>2 DEF StreamsInv
    <2>5. answer'.stream # 0
      BY <1>0, <2>3
    <2>6. CASE StreamOpened /\ NewShown
      <3>1. answer'.stream = Len(streams) + 1
        BY <2>6 DEF NewShown
      <3>2. PICK k \in DOMAIN logged : n \in ToSet(logged'[k])
        <4>1. NothingOld
          <5>1. ASSUME Deletes PROVE FALSE
            <6>1. PICK r \in Requests : answer' = Reply(r.session, 204)
              BY <5>1 DEF Deletes, DeleteSession
            <6>2. QED
              BY <2>5, <6>1, PlainAnswers
          <5>2. QED
            BY <5>1, NextKnown
        <4>2. n \in forgotten /\ n \in DOMAIN sent /\ ~Waits(n) /\ Listed(n)'
          BY <1>0, <2>3, <2>4, <4>1 DEF NothingOld, ForgottenInv, Listed
        <4>3. Listed(n)
          BY <4>1, <4>2 DEF NothingOld
        <4>4. QED
          BY <1>0, <2>6, <4>3 DEF Listed, StreamOpened
      <3>3. k \in DOMAIN logged'
        BY <1>0, <2>6 DEF StreamOpened
      <3>4. k = answer'.stream
        BY <1>0, <2>1, <2>3, <2>4, <3>2, <3>3 DEF PlacesInv
      <3>5. QED
        BY <1>0, <3>1, <3>2, <3>4
    <2>7. CASE Resuming
      <3>1. PICK r \in Requests : Status(options, sessions, r) = Ok /\ ResumeStream(r)
        BY <2>7 DEF Resuming
      <3>2. UNCHANGED << sessions, sent, forgotten >> /\ answer'.session = r.session
        <4>1. answer'.session = r.session
          <5> DEFINE i == r.lastEventId.stream
                     cursor == r.lastEventId.cursor
                     reply == ReplyEvents(r.session, i, TRUE, cursor, ReplayFromCursor(streams[i], cursor))
          <5>1. answer' = Reply(r.session, 409) \/ answer' = reply
            BY <3>1 DEF ResumeStream
          <5>2. Reply(r.session, 409).session = r.session /\ reply.session = r.session
            BY DEF Reply, ReplyEvents, NoReply
          <5> HIDE DEF reply
          <5>3. QED
            BY <5>1, <5>2
        <4>2. QED
          BY <3>1, <4>1 DEF ResumeStream, tables, history
      <3>3. r.session \in Sessions
        BY <2>4, <3>2 DEF ForgottenInv
      <3>4. sessions[r.session].state = "active"
        BY <3>1, <3>3, ServedSession
      <3>5. QED
        BY <2>4, <3>2, <3>4
    <2>8. QED
      BY <1>0, <1>2, <2>5, <2>6, <2>7, NextShows DEF StepShows
  <1>3. QED
    BY <1>1, <1>2

\* What a session was sent before a DELETE ended it is neither queued nor buffered again, the
\* streams that have it stay closed, and nothing shows it unless the application made the session
\* active again.
THEOREM DeletedIsGone == Spec => []DeletedStaysDeleted
  <1> DEFINE Inv == ForgottenInv /\ ReopenedInv
  <1>1. Init => Inv
    BY DEF Init, ForgottenInv, ReopenedInv
  <1>2. KnownInv /\ KnownInv' /\ Inv /\ [Next]_vars => Inv'
    <2> SUFFICES ASSUME KnownInv, KnownInv', Inv, [Next]_vars PROVE Inv'
      OBVIOUS
    <2>1. NothingOld \/ Deletes
      BY NextKnown
    <2>2. ForgottenInv'
      BY <2>1, NothingReturns, DeleteForgets
    <2>3. QED
      BY <2>2, NothingReappears
  <1>3. KnownInv /\ Inv => DeletedStaysDeleted
    <2> SUFFICES ASSUME KnownInv, Inv, NEW n \in forgotten
                 PROVE  /\ Queued(n) = {} /\ Buffered(n) = {}
                        /\ \A i \in OnStreams(n) : streams[i].terminated
                        /\ n \in Shown => sessions[sent[n].session].state = "active"
      BY DEF DeletedStaysDeleted
    <2>1. Queued(n) = {}
      BY DEF Queued, ForgottenInv, Waits
    <2>2. Buffered(n) = {}
      <3>1. ASSUME NEW k \in Keys, n \in ToSet(Numbers(legacyEventsBySession[k].events)) PROVE FALSE
        <4>1. GoodBuffer(legacyEventsBySession[k])
          BY DEF KnownInv, ServerInv, BuffersInv
        <4>2. PICK events : events = legacyEventsBySession[k].events /\ events \in Seq(Event(1..MaxMessages))
          BY <4>1 DEF GoodBuffer, Buffer, Event
        <4>3. PICK i \in DOMAIN events : n = events[i].message
          BY <3>1, <4>2 DEF Numbers, ToSet
        <4>4. DOMAIN events = 1..Len(events)
          BY <4>2
        <4>5. Stored(n)
          BY <4>2, <4>3, <4>4 DEF Stored, Holds
        <4>6. QED
          BY <4>5 DEF ForgottenInv
      <3>2. QED
        BY <3>1 DEF Buffered
    <2>3. \A i \in OnStreams(n) : streams[i].terminated
      BY DEF OnStreams, ForgottenInv
    <2>4. n \in Shown => sessions[sent[n].session].state = "active"
      BY DEF ReopenedInv
    <2>5. QED
      BY <2>1, <2>2, <2>3, <2>4
  <1> HIDE DEF Inv
  <1>4. QED
    BY <1>1, <1>2, <1>3, ServerHolds, PTL DEF Spec
=============================================================================
