------------------------ MODULE IncludeOrder_proofs -------------------------
(***************************************************************************)
(* Theorems about IncludeOrder, for every tree of any files: the walks in  *)
(* Klipper's order and the walk that goes into every file once agree with  *)
(* reachability and with each other.  The last part says which definition  *)
(* of a macro is the effective one when a single file has them all.        *)
(*                                                                         *)
(* A recursive definition is used in two steps.  IsX says that a function  *)
(* satisfies the defining equation of X; a lemma finds that one does, by   *)
(* going on from one number to the next (Recursion) or by as many rounds   *)
(* as there are files (VisitExists, OnceExists), so that the one that is   *)
(* meant does.  What is shown of it then is an induction over positions    *)
(* (Induction) or over the files that are being read (Leaving).            *)
(***************************************************************************)
EXTENDS IncludeOrder, FiniteSetTheorems, WellFoundedInduction, TLAPS

\* A set of numbers that is not empty has a least one.
LEMMA Least ==
  ASSUME NEW T, T \subseteq Nat, T # {}
  PROVE  \E x \in T : \A y \in T : x <= y
<1>1. PICK x \in T : \A y \in T : ~(<<y, x>> \in OpToRel(<, Nat))
  BY NatLessThanWellFounded, WFMin
<1>2. ASSUME NEW y \in T PROVE ~(y < x)
  <2>1. x \in Nat /\ y \in Nat
    OBVIOUS
  <2>2. y < x => <<y, x>> \in OpToRel(<, Nat)
    BY <2>1 DEF OpToRel
  <2> QED
    BY <1>1, <2>2
<1>3. ASSUME NEW y \in T PROVE x <= y
  <2>1. x \in Nat /\ y \in Nat
    OBVIOUS
  <2> QED
    BY <1>2, <2>1
<1> QED
  BY <1>3

\* u starts with a and goes N steps.
IsRun(u, N, S, a, step) == /\ u \in [0 .. N -> S]
                           /\ u[0] = a
                           /\ \A n \in 1 .. N : u[n] = step[n][u[n - 1]]

\* What is defined step by step is defined.
LEMMA Recursion ==
  ASSUME NEW S, NEW a \in S, NEW N \in Nat, NEW step \in [1 .. N -> [S -> S]]
  PROVE  \E u : IsRun(u, N, S, a, step)
<1> DEFINE Upto(k) == \E u : IsRun(u, k, S, a, step)
           T == {k \in 0 .. N : ~Upto(k)}
<1>1. SUFFICES ASSUME T # {} PROVE FALSE
  OBVIOUS
<1>2. PICK k \in T : \A j \in T : k <= j
  <2> HIDE DEF Upto
  <2>1. T \subseteq Nat
    OBVIOUS
  <2> HIDE DEF T
  <2> QED BY <1>1, <2>1, Least
<1>3. Upto(0)
  <2> DEFINE u == [n \in 0 .. 0 |-> a]
  <2> u \in [0 .. 0 -> S] /\ u[0] = a
    OBVIOUS
  <2> HIDE DEF u
  <2> QED BY DEF IsRun
<1>4. k \in 1 .. N /\ ~Upto(k)
  <2> HIDE DEF Upto
  <2> QED BY <1>2, <1>3
<1>5. Upto(k - 1)
  <2> HIDE DEF Upto
  <2> QED BY <1>2, <1>4
<1>6. PICK u : IsRun(u, k - 1, S, a, step)
  BY <1>5
<1> DEFINE v == [n \in 0 .. k |-> IF n = k THEN step[k][u[k - 1]] ELSE u[n]]
<1>7. v \in [0 .. k -> S]
  BY <1>4, <1>6 DEF IsRun
<1>8. v[0] = a /\ \A n \in 1 .. k : v[n] = step[n][v[n - 1]]
  BY <1>4, <1>6 DEF IsRun
<1>9. Upto(k)
  <2> HIDE DEF v
  <2> QED BY <1>7, <1>8 DEF IsRun
<1> QED
  BY <1>4, <1>9


\* What holds of the first number and goes on from each to the next.
LEMMA Induction ==
  ASSUME NEW N \in Nat, NEW P, 0 \in P, \A n \in 1 .. N : n - 1 \in P => n \in P
  PROVE  \A n \in 0 .. N : n \in P
<1> DEFINE T == {n \in 0 .. N : n \notin P}
<1>1. SUFFICES ASSUME T # {} PROVE FALSE
  OBVIOUS
<1>2. T \subseteq Nat
  OBVIOUS
<1>3. PICK k \in T : \A j \in T : k <= j
  <2> HIDE DEF T
  <2> QED BY <1>1, <1>2, Least
<1>4. k \in 1 .. N /\ k \notin P
  BY <1>3
<1> QED
  BY <1>3, <1>4

\* What holds of the files being read whenever it holds once one more is.
LEMMA Leaving ==
  ASSUME NEW P, \A v \in SUBSET Files : (\A f \in Files \ v : v \cup {f} \in P) => v \in P,
         IsFiniteSet(Files)
  PROVE  \A v \in SUBSET Files : v \in P
<1> DEFINE F == {Files \ v : v \in {u \in SUBSET Files : u \notin P}}
<1> SUFFICES ASSUME NEW v0 \in SUBSET Files, v0 \notin P PROVE FALSE
  OBVIOUS
<1>1. Files \ v0 \in F
  OBVIOUS
<1>2. F \subseteq SUBSET Files
  OBVIOUS
<1>3. FiniteSubsetsOf(Files) = SUBSET Files
  BY FS_FiniteSubsetsOfFinite
<1>4. PICK x \in F : \A y \in F : ~(<<y, x>> \in StrictSubsetOrdering(Files))
  <2> HIDE DEF F
  <2> QED BY <1>1, <1>2, <1>3, FS_StrictSubsetOrderingWellFounded, WFMin
<1>5. \A y \in F : ~(y \subseteq x /\ y # x)
  <2> HIDE DEF F
  <2> QED BY <1>2, <1>4 DEF StrictSubsetOrdering
<1>6. PICK v \in SUBSET Files : v \notin P /\ x = Files \ v
  OBVIOUS
<1>7. PICK f \in Files \ v : v \cup {f} \notin P
  BY <1>6
<1>8. Files \ (v \cup {f}) \in F
  BY <1>7
<1> QED
  BY <1>5, <1>6, <1>7, <1>8

-----------------------------------------------------------------------------
(***************************************************************************)
(* Sequences.                                                              *)
(***************************************************************************)
IsOnly(o, s, S) ==
  o = [n \in 0 .. Len(s) |-> IF n = 0 THEN << >>
                             ELSE IF s[n] \in S THEN Append(o[n - 1], s[n])
                             ELSE o[n - 1]]

LEMMA OnlyIs ==
  ASSUME NEW s, NEW S, NEW o0, IsOnly(o0, s, S)
  PROVE  \E o : IsOnly(o, s, S) /\ Only(s, S) = o[Len(s)]
<1>1. IsOnly(CHOOSE o : IsOnly(o, s, S), s, S)
  OBVIOUS
<1>2. Only(s, S) = (CHOOSE o : IsOnly(o, s, S))[Len(s)]
  BY DEF Only, IsOnly
<1> QED
  BY <1>1, <1>2

\* The members of S in the first n elements of s are o[n].
OnlyRun(o, s, S, U) ==
  /\ o \in [0 .. Len(s) -> Seq(U \cap S)]
  /\ o[0] = << >>
  /\ \A n \in 1 .. Len(s) : o[n] = IF s[n] \in S THEN Append(o[n - 1], s[n]) ELSE o[n - 1]

LEMMA OnlySteps ==
  ASSUME NEW U, NEW s \in Seq(U), NEW S
  PROVE  \E o : OnlyRun(o, s, S, U) /\ Only(s, S) = o[Len(s)]
<1> DEFINE N == Len(s)
           Q == Seq(U \cap S)
           step == [n \in 1 .. N |-> [q \in Q |-> IF s[n] \in S THEN Append(q, s[n]) ELSE q]]
<1>1. N \in Nat /\ << >> \in Q
  OBVIOUS
<1>2. step \in [1 .. N -> [Q -> Q]]
  OBVIOUS
<1>3. PICK o0 : IsRun(o0, N, Q, << >>, step)
  <2> HIDE DEF step, N, Q
  <2> QED BY <1>1, <1>2, Recursion
<1>4. o0 \in [0 .. N -> Q] /\ o0[0] = << >> /\ \A n \in 1 .. N : o0[n] = step[n][o0[n - 1]]
  <2> HIDE DEF step, N, Q
  <2> QED BY <1>3 DEF IsRun
<1>5. \A n \in 1 .. N, q \in Q : step[n][q] = IF s[n] \in S THEN Append(q, s[n]) ELSE q
  OBVIOUS
<1>6. \A n \in 1 .. N : o0[n] = IF s[n] \in S THEN Append(o0[n - 1], s[n]) ELSE o0[n - 1]
  <2> HIDE DEF step, N, Q
  <2> SUFFICES ASSUME NEW n \in 1 .. N PROVE o0[n] = step[n][o0[n - 1]] /\ o0[n - 1] \in Q
    BY <1>5
  <2> QED BY <1>1, <1>4
<1>7. IsOnly(o0, s, S)
  <2> HIDE DEF step, Q, N
  <2>1. ASSUME NEW n \in 0 .. N
        PROVE  o0[n] = IF n = 0 THEN << >>
                       ELSE IF s[n] \in S THEN Append(o0[n - 1], s[n])
                       ELSE o0[n - 1]
    <3>1. n = 0 \/ n \in 1 .. N
      BY <1>1
    <3> QED
      BY <1>4, <1>6, <3>1
  <2>2. o0 = [n \in 0 .. N |-> o0[n]]
    BY <1>4
  <2>3. o0 = [n \in 0 .. N |-> IF n = 0 THEN << >>
                               ELSE IF s[n] \in S THEN Append(o0[n - 1], s[n])
                               ELSE o0[n - 1]]
    BY <2>1, <2>2
  <2> QED
    BY <2>3 DEF IsOnly, N
<1>8. PICK o : IsOnly(o, s, S) /\ Only(s, S) = o[Len(s)]
  BY <1>7, OnlyIs
<1> HIDE DEF step, Q
<1>9. /\ o[0] = << >>
      /\ \A n \in 1 .. N : o[n] = IF s[n] \in S THEN Append(o[n - 1], s[n]) ELSE o[n - 1]
      /\ o = [n \in 0 .. N |-> o[n]]
  <2>1. o = [n \in 0 .. N |-> IF n = 0 THEN << >>
                              ELSE IF s[n] \in S THEN Append(o[n - 1], s[n])
                              ELSE o[n - 1]]
    BY <1>8 DEF IsOnly
  <2> HIDE DEF N
  <2>2. o[0] = << >>
    BY <1>1, <2>1
  <2>3. ASSUME NEW n \in 1 .. N
        PROVE  o[n] = IF s[n] \in S THEN Append(o[n - 1], s[n]) ELSE o[n - 1]
    <3>1. n \in 0 .. N /\ n # 0
      BY <1>1
    <3> QED
      BY <2>1, <3>1
  <2>4. DOMAIN o = 0 .. N
    BY <2>1
  <2>5. o = [n \in 0 .. N |-> o[n]]
    BY <2>1, <2>4
  <2> QED
    BY <2>2, <2>3, <2>5
<1> HIDE DEF N
<1> DEFINE P == {n \in 0 .. N : o[n] = o0[n]}
<1>a. 0 \in P /\ \A n \in 1 .. N : n - 1 \in P => n \in P
  <2>1. 0 \in P
    BY <1>1, <1>4, <1>9
  <2>2. ASSUME NEW n \in 1 .. N, n - 1 \in P PROVE n \in P
    <3>1. n \in 0 .. N /\ o[n - 1] = o0[n - 1]
      BY <1>1, <2>2
    <3>2. o[n] = o0[n]
      BY <1>6, <1>9, <3>1
    <3> QED
      BY <3>1, <3>2
  <2> QED
    BY <2>1, <2>2
<1>b. \A n \in 0 .. N : o[n] \in Q
  <2>1. \A n \in 0 .. N : n \in P
    <3> HIDE DEF P
    <3> QED BY <1>1, <1>a, Induction
  <2> QED
    BY <1>4, <2>1
<1>c. o \in [0 .. N -> Q]
  BY <1>9, <1>b
<1> QED
  BY <1>8, <1>9, <1>c DEF Q, N, OnlyRun

LEMMA OnlyIsSeq ==
  ASSUME NEW U, NEW s \in Seq(U), NEW S
  PROVE  Only(s, S) \in Seq(U \cap S)
<1>1. PICK o : OnlyRun(o, s, S, U) /\ Only(s, S) = o[Len(s)]
  BY OnlySteps
<1>2. Len(s) \in 0 .. Len(s)
  OBVIOUS
<1> QED
  BY <1>1, <1>2 DEF OnlyRun

LEMMA AppendSet ==
  ASSUME NEW U, NEW q \in Seq(U), NEW x \in U
  PROVE  ToSet(Append(q, x)) = ToSet(q) \cup {x}
<1>1. DOMAIN Append(q, x) = 1 .. Len(q) + 1 /\ DOMAIN q = 1 .. Len(q) /\ Len(q) \in Nat
  OBVIOUS
<1>2. \A i \in DOMAIN Append(q, x) : Append(q, x)[i] = IF i = Len(q) + 1 THEN x ELSE q[i]
  OBVIOUS
<1>3. Append(q, x)[Len(q) + 1] = x
  OBVIOUS
<1>4. ASSUME NEW y PROVE y \in ToSet(Append(q, x)) <=> y \in ToSet(q) \cup {x}
  BY <1>1, <1>2, <1>3 DEF ToSet
<1> QED
  BY <1>4

LEMMA OnlySet ==
  ASSUME NEW U, NEW s \in Seq(U), NEW S
  PROVE  ToSet(Only(s, S)) = ToSet(s) \cap S
<1>1. PICK o : OnlyRun(o, s, S, U) /\ Only(s, S) = o[Len(s)]
  BY OnlySteps
<1> DEFINE N == Len(s)
           To(n) == {s[i] : i \in 1 .. n} \cap S
           P == {n \in 0 .. N : ToSet(o[n]) = To(n)}
<1>2. N \in Nat /\ 0 \in P
  BY <1>1 DEF ToSet, OnlyRun
<1>3. ASSUME NEW n \in 1 .. N, n - 1 \in P PROVE n \in P
  <2>1. o[n - 1] \in Seq(U \cap S)
    BY <1>1 DEF OnlyRun
  <2>2. To(n) = To(n - 1) \cup ({s[n]} \cap S)
    OBVIOUS
  <2>3. s[n] \in U /\ o[n] = IF s[n] \in S THEN Append(o[n - 1], s[n]) ELSE o[n - 1]
    BY <1>1 DEF OnlyRun
  <2>4. ToSet(o[n - 1]) = To(n - 1)
    BY <1>3
  <2> HIDE DEF To
  <2>5. ToSet(o[n]) = To(n)
    <3>1. CASE s[n] \in S
      BY <2>1, <2>2, <2>3, <2>4, <3>1, AppendSet
    <3>2. CASE s[n] \notin S
      BY <2>2, <2>3, <2>4, <3>2
    <3> QED
      BY <3>1, <3>2
  <2> QED
    BY <2>5
<1>4. N \in P
  <2>1. \A n \in 0 .. N : n \in P
    <3> HIDE DEF P, N
    <3> QED BY <1>2, <1>3, Induction
  <2> HIDE DEF P
  <2> QED BY <1>2, <2>1
<1> QED
  BY <1>1, <1>4 DEF ToSet

\* The head of q and x are different things.
LEMMA AppendNew ==
  ASSUME NEW U, NEW q \in Seq(U), NEW x \in U, IsInjective(q), x \notin ToSet(q)
  PROVE  IsInjective(Append(q, x))
<1>1. DOMAIN Append(q, x) = 1 .. Len(q) + 1 /\ DOMAIN q = 1 .. Len(q) /\ Len(q) \in Nat
  OBVIOUS
<1>2. \A i \in DOMAIN Append(q, x) : Append(q, x)[i] = IF i = Len(q) + 1 THEN x ELSE q[i]
  OBVIOUS
<1> QED
  BY <1>1, <1>2 DEF ToSet, IsInjective

\* Leaving members out makes none of the others come twice.
LEMMA OnlyInjective ==
  ASSUME NEW U, NEW s \in Seq(U), NEW S, IsInjective(s)
  PROVE  IsInjective(Only(s, S))
<1>1. PICK o : OnlyRun(o, s, S, U) /\ Only(s, S) = o[Len(s)]
  BY OnlySteps
<1> DEFINE N == Len(s)
           To(n) == {s[i] : i \in 1 .. n}
           P == {n \in 0 .. N : IsInjective(o[n]) /\ ToSet(o[n]) \subseteq To(n)}
<1>2. N \in Nat /\ 0 \in P
  BY <1>1 DEF ToSet, OnlyRun, IsInjective
<1>3. ASSUME NEW n \in 1 .. N, n - 1 \in P PROVE n \in P
  <2>1. o[n - 1] \in Seq(U \cap S)
    BY <1>1 DEF OnlyRun
  <2>2. To(n) = To(n - 1) \cup {s[n]}
    OBVIOUS
  <2>3. s[n] \in U /\ o[n] = IF s[n] \in S THEN Append(o[n - 1], s[n]) ELSE o[n - 1]
    BY <1>1 DEF OnlyRun
  <2>4. s[n] \notin To(n - 1)
    BY DEF IsInjective
  <2>5. IsInjective(o[n - 1]) /\ ToSet(o[n - 1]) \subseteq To(n - 1)
    BY <1>3
  <2> HIDE DEF To
  <2>6. IsInjective(o[n]) /\ ToSet(o[n]) \subseteq To(n)
    <3>1. CASE s[n] \in S
      <4> DEFINE q == o[n - 1]
                 V == U \cap S
      <4>1. q \in Seq(V) /\ s[n] \in V /\ IsInjective(q) /\ s[n] \notin ToSet(q)
        BY <2>1, <2>3, <2>4, <2>5, <3>1
      <4> HIDE DEF q, V
      <4>2. ToSet(Append(q, s[n])) = ToSet(q) \cup {s[n]} /\ IsInjective(Append(q, s[n]))
        BY <4>1, AppendSet, AppendNew
      <4> QED
        BY <2>2, <2>3, <2>5, <3>1, <4>2 DEF q
    <3>2. CASE s[n] \notin S
      BY <2>2, <2>3, <2>5, <3>2
    <3> QED
      BY <3>1, <3>2
  <2> QED
    BY <2>6
<1>4. N \in P
  <2>1. \A n \in 0 .. N : n \in P
    <3> HIDE DEF P, N
    <3> QED BY <1>2, <1>3, Induction
  <2> HIDE DEF P
  <2> QED BY <1>2, <2>1
<1> QED
  BY <1>1, <1>4

LEMMA ConcatSet ==
  ASSUME NEW U, NEW a \in Seq(U), NEW b \in Seq(U)
  PROVE  ToSet(a \o b) = ToSet(a) \cup ToSet(b)
<1>1. /\ DOMAIN (a \o b) = 1 .. Len(a) + Len(b)
      /\ DOMAIN a = 1 .. Len(a) /\ DOMAIN b = 1 .. Len(b)
      /\ Len(a) \in Nat /\ Len(b) \in Nat
  OBVIOUS
<1>2. \A i \in DOMAIN (a \o b) : (a \o b)[i] = IF i <= Len(a) THEN a[i] ELSE b[i - Len(a)]
  OBVIOUS
<1>3. ASSUME NEW x, x \in ToSet(a \o b) PROVE x \in ToSet(a) \cup ToSet(b)
  BY <1>1, <1>2, <1>3 DEF ToSet
<1>4. ASSUME NEW x \in ToSet(a) PROVE x \in ToSet(a \o b)
  <2>1. PICK i \in DOMAIN a : x = a[i]
    BY DEF ToSet
  <2>2. i \in DOMAIN (a \o b) /\ (a \o b)[i] = x
    BY <1>1, <1>2, <2>1
  <2> QED
    BY <2>2 DEF ToSet
<1>5. ASSUME NEW x \in ToSet(b) PROVE x \in ToSet(a \o b)
  <2>1. PICK i \in DOMAIN b : x = b[i]
    BY DEF ToSet
  <2>2. Len(a) + i \in DOMAIN (a \o b) /\ (a \o b)[Len(a) + i] = x
    BY <1>1, <1>2, <2>1
  <2> QED
    BY <2>2 DEF ToSet
<1> QED
  BY <1>3, <1>4, <1>5

\* What has no member twice, put together without a common member.
LEMMA ConcatInjective ==
  ASSUME NEW U, NEW a \in Seq(U), NEW b \in Seq(U), IsInjective(a), IsInjective(b),
         ToSet(a) \cap ToSet(b) = {}
  PROVE  IsInjective(a \o b)
<1>1. /\ DOMAIN (a \o b) = 1 .. Len(a) + Len(b)
      /\ DOMAIN a = 1 .. Len(a) /\ DOMAIN b = 1 .. Len(b)
      /\ Len(a) \in Nat /\ Len(b) \in Nat
  OBVIOUS
<1>2. \A i \in DOMAIN (a \o b) : (a \o b)[i] = IF i <= Len(a) THEN a[i] ELSE b[i - Len(a)]
  OBVIOUS
<1>3. \A i \in DOMAIN a, j \in DOMAIN b : a[i] # b[j]
  BY DEF ToSet
<1>4. ASSUME NEW i \in DOMAIN (a \o b), NEW j \in DOMAIN (a \o b), (a \o b)[i] = (a \o b)[j]
      PROVE  i = j
  BY <1>1, <1>2, <1>3, <1>4 DEF IsInjective
<1> QED
  BY <1>4 DEF IsInjective

\* The files in the order in which they first occur.
IsFirst(o, s) ==
  o = [n \in 0 .. Len(s) |-> IF n = 0 THEN << >>
                             ELSE IF s[n] \in ToSet(o[n - 1]) THEN o[n - 1]
                             ELSE Append(o[n - 1], s[n])]

LEMMA FirstIs ==
  ASSUME NEW s, NEW o0, IsFirst(o0, s)
  PROVE  \E o : IsFirst(o, s) /\ FirstOccurrences(s) = o[Len(s)]
<1>1. IsFirst(CHOOSE o : IsFirst(o, s), s)
  OBVIOUS
<1>2. FirstOccurrences(s) = (CHOOSE o : IsFirst(o, s))[Len(s)]
  BY DEF FirstOccurrences, IsFirst
<1> QED
  BY <1>1, <1>2

FirstRun(o, s, U) ==
  /\ o \in [0 .. Len(s) -> Seq(U)]
  /\ o[0] = << >>
  /\ \A n \in 1 .. Len(s) :
       o[n] = IF s[n] \in ToSet(o[n - 1]) THEN o[n - 1] ELSE Append(o[n - 1], s[n])

LEMMA FirstSteps ==
  ASSUME NEW U, NEW s \in Seq(U)
  PROVE  \E o : FirstRun(o, s, U) /\ FirstOccurrences(s) = o[Len(s)]
<1> DEFINE N == Len(s)
           Q == Seq(U)
           step == [n \in 1 .. N |->
                     [q \in Q |-> IF s[n] \in ToSet(q) THEN q ELSE Append(q, s[n])]]
<1>1. N \in Nat /\ << >> \in Q
  OBVIOUS
<1>2. step \in [1 .. N -> [Q -> Q]]
  OBVIOUS
<1>3. PICK o0 : IsRun(o0, N, Q, << >>, step)
  <2> HIDE DEF step, N, Q
  <2> QED BY <1>1, <1>2, Recursion
<1>4. \A n \in 1 .. N, q \in Q : step[n][q] = IF s[n] \in ToSet(q) THEN q ELSE Append(q, s[n])
  OBVIOUS
<1>5. \A n \in 1 .. N, q \in Q : (IF s[n] \in ToSet(q) THEN q ELSE Append(q, s[n])) \in Q
  OBVIOUS
<1> HIDE DEF step, Q
<1>6. IsFirst(o0, s)
  <2> HIDE DEF N
  <2>1. o0 = [n \in 0 .. N |-> o0[n]] /\ \A n \in 0 .. N : o0[n] \in Q
    BY <1>3 DEF IsRun
  <2>2. ASSUME NEW n \in 0 .. N
        PROVE  o0[n] = IF n = 0 THEN << >>
                       ELSE IF s[n] \in ToSet(o0[n - 1]) THEN o0[n - 1]
                       ELSE Append(o0[n - 1], s[n])
    <3>1. CASE n = 0
      BY <1>3, <3>1 DEF IsRun
    <3>2. CASE n # 0
      <4>1. n \in 1 .. N /\ n - 1 \in 0 .. N
        BY <1>1, <3>2
      <4>2. o0[n] = step[n][o0[n - 1]] /\ o0[n - 1] \in Q
        BY <1>3, <2>1, <4>1 DEF IsRun
      <4> QED
        BY <1>4, <3>2, <4>1, <4>2
    <3> QED
      BY <3>1, <3>2
  <2>3. o0 = [n \in 0 .. N |-> IF n = 0 THEN << >>
                               ELSE IF s[n] \in ToSet(o0[n - 1]) THEN o0[n - 1]
                               ELSE Append(o0[n - 1], s[n])]
    BY <2>1, <2>2
  <2> QED
    BY <2>3 DEF IsFirst, N
<1>7. PICK o : IsFirst(o, s) /\ FirstOccurrences(s) = o[Len(s)]
  BY <1>6, FirstIs
<1>8. o = [n \in 0 .. N |-> IF n = 0 THEN << >>
                            ELSE IF s[n] \in ToSet(o[n - 1]) THEN o[n - 1]
                            ELSE Append(o[n - 1], s[n])]
  BY <1>7 DEF IsFirst
<1> HIDE DEF N
<1>9. /\ o = [n \in 0 .. N |-> o[n]]
      /\ o[0] = << >>
      /\ \A n \in 1 .. N :
           o[n] = IF s[n] \in ToSet(o[n - 1]) THEN o[n - 1] ELSE Append(o[n - 1], s[n])
  <2>1. DOMAIN o = 0 .. N
    BY <1>8
  <2>2. o[0] = << >>
    BY <1>1, <1>8
  <2>3. ASSUME NEW n \in 1 .. N
        PROVE  o[n] = IF s[n] \in ToSet(o[n - 1]) THEN o[n - 1] ELSE Append(o[n - 1], s[n])
    <3>1. n \in 0 .. N /\ n # 0
      BY <1>1
    <3> QED
      BY <1>8, <3>1
  <2> QED
    BY <1>8, <2>1, <2>2, <2>3
<1> DEFINE P == {n \in 0 .. N : o[n] \in Q}
<1>a. 0 \in P /\ \A n \in 1 .. N : n - 1 \in P => n \in P
  <2>1. 0 \in P
    BY <1>1, <1>9
  <2>2. ASSUME NEW n \in 1 .. N, n - 1 \in P PROVE n \in P
    <3>1. n \in 0 .. N /\ o[n - 1] \in Q
      BY <1>1, <2>2
    <3>2. o[n] \in Q
      BY <1>5, <1>9, <3>1
    <3> QED
      BY <3>1, <3>2
  <2> QED
    BY <2>1, <2>2
<1>b. \A n \in 0 .. N : n \in P
  <2> HIDE DEF P
  <2> QED BY <1>1, <1>a, Induction
<1> QED
  BY <1>7, <1>9, <1>b DEF Q, N, FirstRun

\* The beginnings of b.
PrefixRun(p, b, U) ==
  /\ p[0] = << >> /\ p[Len(b)] = b
  /\ \A n \in 0 .. Len(b) : p[n] \in Seq(U)
  /\ \A n \in 1 .. Len(b) : b[n] \in U /\ p[n] = Append(p[n - 1], b[n])

LEMMA Beginnings ==
  ASSUME NEW U, NEW b \in Seq(U)
  PROVE  \E p : PrefixRun(p, b, U)
<1> DEFINE N == Len(b)
           q == [n \in 0 .. N |-> SubSeq(b, 1, n)]
<1>1. /\ N \in Nat
      /\ SubSeq(b, 1, 0) = << >> /\ SubSeq(b, 1, N) = b
      /\ \A n \in 0 .. N : SubSeq(b, 1, n) \in Seq(U)
      /\ \A n \in 1 .. N : b[n] \in U /\ SubSeq(b, 1, n) = Append(SubSeq(b, 1, n - 1), b[n])
  OBVIOUS
<1>2. \A n \in 0 .. N : q[n] = SubSeq(b, 1, n)
  OBVIOUS
<1>3. 0 \in 0 .. N /\ N \in 0 .. N /\ \A n \in 1 .. N : n \in 0 .. N /\ n - 1 \in 0 .. N
  BY <1>1
<1> HIDE DEF q, N
<1>4. /\ q[0] = << >> /\ q[N] = b
      /\ \A n \in 0 .. N : q[n] \in Seq(U)
      /\ \A n \in 1 .. N : b[n] \in U /\ q[n] = Append(q[n - 1], b[n])
  BY <1>1, <1>2, <1>3
<1>5. PrefixRun(q, b, U)
  BY <1>4 DEF PrefixRun, N
<1> QED
  BY <1>5

LEMMA ConcatAppend ==
  ASSUME NEW U, NEW a \in Seq(U), NEW c \in Seq(U), NEW x \in U
  PROVE  a \o Append(c, x) = Append(a \o c, x)
OBVIOUS

LEMMA FirstOfNone == FirstOccurrences(<< >>) = << >>
<1> DEFINE e == << >>
<1>1. e \in Seq({}) /\ Len(e) = 0
  OBVIOUS
<1>2. PICK o : FirstRun(o, e, {}) /\ FirstOccurrences(e) = o[Len(e)]
  <2> HIDE DEF e
  <2> QED BY <1>1, FirstSteps
<1> QED
  BY <1>1, <1>2 DEF FirstRun

LEMMA FirstOfMore ==
  ASSUME NEW U, NEW s \in Seq(U), NEW x \in U
  PROVE  FirstOccurrences(Append(s, x)) = IF x \in ToSet(FirstOccurrences(s)) THEN FirstOccurrences(s)
                                          ELSE Append(FirstOccurrences(s), x)
<1> DEFINE r == Append(s, x)
           N == Len(s)
<1>1. /\ r \in Seq(U) /\ N \in Nat /\ Len(r) = N + 1 /\ r[N + 1] = x
      /\ \A n \in 1 .. N : r[n] = s[n]
  OBVIOUS
<1> HIDE DEF r
<1>2. PICK o : FirstRun(o, s, U) /\ FirstOccurrences(s) = o[N]
  BY FirstSteps
<1>3. PICK p : FirstRun(p, r, U) /\ FirstOccurrences(r) = p[N + 1]
  BY <1>1, FirstSteps
<1> DEFINE P == {n \in 0 .. N : p[n] = o[n]}
<1>4. 0 \in P
  BY <1>1, <1>2, <1>3 DEF FirstRun
<1>5. ASSUME NEW n \in 1 .. N, n - 1 \in P PROVE n \in P
  <2>1. n \in 1 .. Len(r) /\ n \in 0 .. N /\ p[n - 1] = o[n - 1] /\ r[n] = s[n]
    BY <1>1, <1>5
  <2>2. p[n] = o[n]
    BY <1>2, <1>3, <2>1 DEF FirstRun
  <2> QED
    BY <2>1, <2>2
<1>6. N \in P
  <2>1. \A n \in 0 .. N : n \in P
    <3> HIDE DEF P, N
    <3> QED BY <1>1, <1>4, <1>5, Induction
  <2> HIDE DEF P
  <2> QED BY <1>1, <2>1
<1>7. N + 1 \in 1 .. Len(r) /\ (N + 1) - 1 = N
  BY <1>1
<1>8. p[N + 1] = IF r[N + 1] \in ToSet(p[N]) THEN p[N] ELSE Append(p[N], r[N + 1])
  <2>1. p[N + 1] = IF r[N + 1] \in ToSet(p[(N + 1) - 1]) THEN p[(N + 1) - 1]
                   ELSE Append(p[(N + 1) - 1], r[N + 1])
    BY <1>3, <1>7 DEF FirstRun
  <2> QED
    BY <1>7, <2>1
<1> QED
  BY <1>1, <1>2, <1>3, <1>6, <1>8 DEF r

\* Every element once.
LEMMA FirstSet ==
  ASSUME NEW U, NEW s \in Seq(U)
  PROVE  /\ FirstOccurrences(s) \in Seq(U)
         /\ IsInjective(FirstOccurrences(s))
         /\ ToSet(FirstOccurrences(s)) = ToSet(s)
<1> DEFINE N == Len(s)
           To(n) == {s[i] : i \in 1 .. n}

<1>1. PICK o : FirstRun(o, s, U) /\ FirstOccurrences(s) = o[N]
  BY FirstSteps
<1> DEFINE P == {n \in 0 .. N : IsInjective(o[n]) /\ ToSet(o[n]) = To(n)}
<1>2. N \in Nat /\ 0 \in P
  BY <1>1 DEF ToSet, FirstRun, IsInjective
<1>3. ASSUME NEW n \in 1 .. N, n - 1 \in P PROVE n \in P
  <2> DEFINE q == o[n - 1]
  <2>1. q \in Seq(U) /\ o[n] = IF s[n] \in ToSet(q) THEN q ELSE Append(q, s[n])
    BY <1>1 DEF FirstRun
  <2>2. To(n) = To(n - 1) \cup {s[n]} /\ s[n] \in U
    OBVIOUS
  <2>3. IsInjective(q) /\ ToSet(q) = To(n - 1)
    BY <1>3
  <2> HIDE DEF q, To
  <2>4. IsInjective(o[n]) /\ ToSet(o[n]) = To(n)
    BY <2>1, <2>2, <2>3, AppendSet, AppendNew
  <2> QED
    BY <2>4
<1>4. N \in P
  <2>1. \A n \in 0 .. N : n \in P
    <3> HIDE DEF P, N
    <3> QED BY <1>2, <1>3, Induction
  <2> HIDE DEF P
  <2> QED BY <1>2, <2>1
<1>5. o[N] \in Seq(U) /\ ToSet(s) = To(N)
  BY <1>1 DEF FirstRun, ToSet
<1> QED
  BY <1>1, <1>4, <1>5

\* Where every element is once, nothing is left out.
LEMMA FirstOfInjective ==
  ASSUME NEW U, NEW s \in Seq(U), IsInjective(s)
  PROVE  FirstOccurrences(s) = s
<1> DEFINE N == Len(s)
           To(n) == SubSeq(s, 1, n)
<1>1. PICK o : FirstRun(o, s, U) /\ FirstOccurrences(s) = o[N]
  BY FirstSteps
<1> DEFINE P == {n \in 0 .. N : o[n] = To(n)}
<1>2. N \in Nat /\ 0 \in P
  BY <1>1 DEF FirstRun
<1>3. ASSUME NEW n \in 1 .. N, n - 1 \in P PROVE n \in P
  <2>1. o[n - 1] = To(n - 1)
    BY <1>3
  <2>2. o[n] = IF s[n] \in ToSet(o[n - 1]) THEN o[n - 1] ELSE Append(o[n - 1], s[n])
    BY <1>1 DEF FirstRun
  <2>3. s[n] \notin ToSet(To(n - 1))
    <3>1. DOMAIN To(n - 1) = 1 .. n - 1 /\ \A i \in 1 .. n - 1 : To(n - 1)[i] = s[i] /\ i \in DOMAIN s
      OBVIOUS
    <3>2. n \in DOMAIN s /\ \A i \in 1 .. n - 1 : i # n
      OBVIOUS
    <3> HIDE DEF To
    <3> QED
      BY <3>1, <3>2 DEF ToSet, IsInjective
  <2>4. To(n) = Append(To(n - 1), s[n])
    OBVIOUS
  <2> HIDE DEF To
  <2>5. o[n] = To(n)
    BY <2>1, <2>2, <2>3, <2>4
  <2> QED
    BY <2>5
<1>4. N \in P
  <2>1. \A n \in 0 .. N : n \in P
    <3> HIDE DEF P, N
    <3> QED BY <1>2, <1>3, Induction
  <2> HIDE DEF P
  <2> QED BY <1>2, <2>1
<1>5. To(N) = s
  OBVIOUS
<1> QED
  BY <1>1, <1>4, <1>5

\* What is not first in a does not become first in front of b.
LEMMA FirstOfFirst ==
  ASSUME NEW U, NEW a \in Seq(U), NEW b \in Seq(U)
  PROVE  FirstOccurrences(FirstOccurrences(a) \o b) = FirstOccurrences(a \o b)
<1> DEFINE N == Len(b)
<1>2. PICK c \in Seq(U) : c = FirstOccurrences(a) /\ FirstOccurrences(c) = c
  BY FirstSet, FirstOfInjective
<1>3. c \o << >> = c /\ a \o << >> = a
  OBVIOUS
<1>0. PICK p : PrefixRun(p, b, U)
  BY Beginnings
<1>1. /\ N \in Nat /\ p[0] = << >> /\ p[N] = b
      /\ \A n \in 0 .. N : p[n] \in Seq(U)
      /\ \A n \in 1 .. N : b[n] \in U /\ p[n] = Append(p[n - 1], b[n])
  BY <1>0 DEF PrefixRun
<1> DEFINE P == {n \in 0 .. N : FirstOccurrences(c \o p[n]) = FirstOccurrences(a \o p[n])}
<1> HIDE DEF N
<1>4. 0 \in P
  <2>1. c \o p[0] = c /\ a \o p[0] = a /\ 0 \in 0 .. N
    BY <1>1, <1>3
  <2>2. FirstOccurrences(c \o p[0]) = FirstOccurrences(a \o p[0])
    BY <1>2, <2>1
  <2> QED
    BY <2>1, <2>2
<1>5. ASSUME NEW n \in 1 .. N, n - 1 \in P PROVE n \in P
  <2>1. n - 1 \in 0 .. N /\ n \in 0 .. N /\ b[n] \in U
        /\ p[n - 1] \in Seq(U) /\ p[n] = Append(p[n - 1], b[n])
    BY <1>1
  <2>2. FirstOccurrences(c \o p[n - 1]) = FirstOccurrences(a \o p[n - 1])
    BY <1>5
  <2> DEFINE d == c \o p[n - 1]
             e == a \o p[n - 1]
  <2>3. d \in Seq(U) /\ e \in Seq(U)
    BY <2>1
  <2>4. c \o p[n] = Append(d, b[n]) /\ a \o p[n] = Append(e, b[n])
    <3>1. a \o Append(p[n - 1], b[n]) = Append(e, b[n])
      BY SMTT(30), <2>1, ConcatAppend
    <3>2. c \o Append(p[n - 1], b[n]) = Append(d, b[n])
      BY SMTT(30), <2>1, ConcatAppend
    <3> QED
      BY <2>1, <3>1, <3>2
  <2>5. FirstOccurrences(Append(d, b[n])) = FirstOccurrences(Append(e, b[n]))
    <3> HIDE DEF d, e
    <3>1. FirstOccurrences(d) = FirstOccurrences(e)
      BY <2>2 DEF d, e
    <3> QED
      BY ZenonT(30), <2>1, <2>3, <3>1, FirstOfMore
  <2>6. FirstOccurrences(c \o p[n]) = FirstOccurrences(a \o p[n])
    BY <2>4, <2>5
  <2> QED
    BY <2>1, <2>6
<1>6. N \in P
  <2>1. \A n \in 0 .. N : n \in P
    <3> HIDE DEF P
    <3> QED BY <1>1, <1>4, <1>5, Induction
  <2> HIDE DEF P
  <2> QED BY <1>1, <2>1
<1> QED
  BY <1>1, <1>2, <1>6

\* Nor do elements of a that come again.
LEMMA FirstOfKnown ==
  ASSUME NEW U, NEW a \in Seq(U), NEW b \in Seq(U), ToSet(b) \subseteq ToSet(a)
  PROVE  FirstOccurrences(a \o b) = FirstOccurrences(a)
<1> DEFINE N == Len(b)
<1>0. PICK p : PrefixRun(p, b, U)
  BY Beginnings
<1>1. /\ N \in Nat /\ p[0] = << >> /\ p[N] = b
      /\ \A n \in 0 .. N : p[n] \in Seq(U)
      /\ \A n \in 1 .. N : b[n] \in U /\ p[n] = Append(p[n - 1], b[n])
  BY <1>0 DEF PrefixRun
<1> DEFINE P == {n \in 0 .. N : FirstOccurrences(a \o p[n]) = FirstOccurrences(a)}
<1>2. \A n \in 1 .. N : b[n] \in ToSet(a)
  BY DEF ToSet
<1>3. a \o << >> = a
  OBVIOUS
<1> HIDE DEF N
<1>4. 0 \in P
  <2>1. a \o p[0] = a /\ 0 \in 0 .. N
    BY <1>1, <1>3
  <2> QED
    BY <2>1
<1>5. ASSUME NEW n \in 1 .. N, n - 1 \in P PROVE n \in P
  <2>1. n - 1 \in 0 .. N /\ n \in 0 .. N /\ b[n] \in U
        /\ p[n - 1] \in Seq(U) /\ p[n] = Append(p[n - 1], b[n])
    BY SMTT(30), <1>1
  <2>2. FirstOccurrences(a \o p[n - 1]) = FirstOccurrences(a)
    BY <1>5
  <2>3. a \o p[n] = Append(a \o p[n - 1], b[n]) /\ a \o p[n - 1] \in Seq(U)
    BY <2>1, ConcatAppend
  <2>4. b[n] \in ToSet(FirstOccurrences(a))
    BY <1>2, FirstSet
  <2>5. FirstOccurrences(a \o p[n]) = FirstOccurrences(a)
    BY <2>1, <2>2, <2>3, <2>4, FirstOfMore
  <2> QED
    BY <2>1, <2>5
<1>6. N \in P
  <2>1. \A n \in 0 .. N : n \in P
    <3> HIDE DEF P
    <3> QED BY <1>1, <1>4, <1>5, Induction
  <2> HIDE DEF P
  <2> QED BY <1>1, <2>1
<1> QED
  BY <1>1, <1>6

-----------------------------------------------------------------------------
(***************************************************************************)
(* Trees.                                                                  *)
(***************************************************************************)
LinkKinds == {"include", "dynamic"}

LEMMA SectionIs ==
  ASSUME NEW t \in Tree, NEW f \in Files, t[f] # Absent, NEW n \in 1 .. Len(t[f])
  PROVE  /\ t[f][n] \in Sections
         /\ t[f][n].kind = "macro" <=> t[f][n] \in Macro
         /\ t[f][n].kind \in LinkKinds => t[f][n].file \in Files
<1>1. t[f] \in Seq(Sections)
  BY DEF Tree, Contents
<1>2. PICK e : e = t[f][n] /\ e \in Sections
  BY <1>1
<1>3. e \in Macro => e.kind = "macro"
  BY DEF Macro
<1>4. e \in Link => e.kind \in LinkKinds /\ e.file \in Files
  BY DEF Link, LinkKinds
<1>5. e \in Other => e.kind = "other"
  BY DEF Other
<1>6. e \in Macro \/ e \in Link \/ e \in Other
  BY <1>2 DEF Sections
<1>7. (e.kind = "macro" <=> e \in Macro) /\ (e.kind \in LinkKinds => e.file \in Files)
  BY <1>3, <1>4, <1>5, <1>6 DEF LinkKinds
<1> QED
  BY <1>2, <1>7

LEMMA TextIs ==
  ASSUME NEW t \in Tree, NEW f \in Files, t[f] # Absent
  PROVE  t[f] \in Seq(Sections) /\ Len(t[f]) \in Nat /\ DOMAIN t[f] = 1 .. Len(t[f])
BY DEF Tree, Contents

LEMMA TargetsAre ==
  ASSUME NEW t \in Tree, NEW f \in Files, NEW K, K \subseteq LinkKinds
  PROVE  Targets(t, f, K) \subseteq Files
BY TextIs, SectionIs DEF Targets

-----------------------------------------------------------------------------
(***************************************************************************)
(* Reachability.  A set of files is closed if no link leads out of it; the *)
(* closure of F is the least closed set around F.                          *)
(***************************************************************************)
Closed(t, K, X) == \A f \in X : Targets(t, f, K) \subseteq X

Closure(t, K, F) == {g \in Files : \A X \in SUBSET Files : F \subseteq X /\ Closed(t, K, X) => g \in X}

LEMMA ClosureIs ==
  ASSUME NEW t \in Tree, NEW K, K \subseteq LinkKinds, NEW F \in SUBSET Files
  PROVE  /\ Closure(t, K, F) \in SUBSET Files
         /\ F \subseteq Closure(t, K, F)
         /\ Closed(t, K, Closure(t, K, F))
         /\ \A X \in SUBSET Files : F \subseteq X /\ Closed(t, K, X) => Closure(t, K, F) \subseteq X
BY TargetsAre DEF Closure, Closed

LEMMA ClosureMonotonic ==
  ASSUME NEW t \in Tree, NEW K, K \subseteq LinkKinds,
         NEW F \in SUBSET Files, NEW G \in SUBSET Files, F \subseteq G
  PROVE  Closure(t, K, F) \subseteq Closure(t, K, G)
BY DEF Closure

\* The closure of a set is made up of those of its members.
LEMMA ClosureOfAll ==
  ASSUME NEW t \in Tree, NEW K, K \subseteq LinkKinds, NEW F \in SUBSET Files
  PROVE  Closure(t, K, F) = UNION {Closure(t, K, {h}) : h \in F}
<1> DEFINE X == UNION {Closure(t, K, {h}) : h \in F}
<1>0. \A h \in F : /\ Closure(t, K, {h}) \in SUBSET Files
                  /\ h \in Closure(t, K, {h})
                  /\ Closure(t, K, {h}) \subseteq Closure(t, K, F)
  <2> SUFFICES ASSUME NEW h \in F
               PROVE  /\ Closure(t, K, {h}) \in SUBSET Files
                      /\ h \in Closure(t, K, {h})
                      /\ Closure(t, K, {h}) \subseteq Closure(t, K, F)
    OBVIOUS
  <2>1. {h} \in SUBSET Files /\ {h} \subseteq F
    OBVIOUS
  <2> QED
    BY <2>1, ClosureIs, ClosureMonotonic
<1>1. X \in SUBSET Files /\ F \subseteq X
  BY <1>0
<1>2. Closed(t, K, X)
  <2> SUFFICES ASSUME NEW h \in F, NEW f \in Closure(t, K, {h})
               PROVE  Targets(t, f, K) \subseteq Closure(t, K, {h})
    BY DEF Closed
  <2>1. Closed(t, K, Closure(t, K, {h}))
    BY ClosureIs
  <2> QED
    BY <2>1 DEF Closed
<1>3. Closure(t, K, F) \subseteq X
  <2> HIDE DEF X
  <2> QED BY <1>1, <1>2, ClosureIs
<1>4. X \subseteq Closure(t, K, F)
  BY <1>0
<1> QED
  BY <1>3, <1>4

\* What a file reaches: itself, and what its links reach.
LEMMA ClosureOfOne ==
  ASSUME NEW t \in Tree, NEW K, K \subseteq LinkKinds, NEW f \in Files
  PROVE  Closure(t, K, {f}) = {f} \cup Closure(t, K, Targets(t, f, K))
<1> DEFINE C == Closure(t, K, {f})
           D == Closure(t, K, Targets(t, f, K))
<1>1. Targets(t, f, K) \in SUBSET Files
  BY TargetsAre
<1>2. C \in SUBSET Files /\ f \in C /\ Closed(t, K, C)
      /\ \A X \in SUBSET Files : {f} \subseteq X /\ Closed(t, K, X) => C \subseteq X
  BY ClosureIs
<1>3. D \in SUBSET Files /\ Targets(t, f, K) \subseteq D /\ Closed(t, K, D)
      /\ \A X \in SUBSET Files : Targets(t, f, K) \subseteq X /\ Closed(t, K, X) => D \subseteq X
  BY <1>1, ClosureIs
<1> HIDE DEF C, D
<1>4. Closed(t, K, {f} \cup D)
  BY <1>3 DEF Closed
<1>5. C \subseteq {f} \cup D
  BY <1>2, <1>3, <1>4
<1>6. D \subseteq C
  BY <1>2, <1>3 DEF Closed
<1> QED
  BY <1>2, <1>5, <1>6 DEF C, D

\* A closure is transitive.
LEMMA ClosureOfClosure ==
  ASSUME NEW t \in Tree, NEW K, K \subseteq LinkKinds, NEW F \in SUBSET Files,
         NEW g \in Closure(t, K, F)
  PROVE  Closure(t, K, {g}) \subseteq Closure(t, K, F)
<1>1. Closure(t, K, F) \in SUBSET Files /\ Closed(t, K, Closure(t, K, F))
  BY ClosureIs
<1>2. {g} \in SUBSET Files /\ {g} \subseteq Closure(t, K, F)
  BY <1>1
<1> QED
  BY <1>1, <1>2, ClosureIs

IsNear(o, t, F, kinds) ==
  o = [n \in 0 .. Cardinality(Files) |->
        IF n = 0 THEN F
        ELSE o[n - 1] \cup UNION {Targets(t, f, kinds) : f \in o[n - 1]}]

LEMMA WithinIs ==
  ASSUME NEW t, NEW F, NEW kinds, NEW o0, IsNear(o0, t, F, kinds)
  PROVE  \E o : IsNear(o, t, F, kinds) /\ Within(t, F, kinds) = o[Cardinality(Files)]
<1>1. IsNear(CHOOSE o : IsNear(o, t, F, kinds), t, F, kinds)
  OBVIOUS
<1>2. Within(t, F, kinds) = (CHOOSE o : IsNear(o, t, F, kinds))[Cardinality(Files)]
  BY DEF Within, IsNear
<1> QED
  BY <1>1, <1>2

\* Going from link to link often enough reaches the whole closure.
LEMMA WithinIsClosure ==
  ASSUME NEW t \in Tree, NEW K, K \subseteq LinkKinds, NEW F \in SUBSET Files
  PROVE  Within(t, F, K) = Closure(t, K, F)
<1> DEFINE C == Cardinality(Files)
           Wide(X) == X \cup UNION {Targets(t, f, K) : f \in X}
           step == [n \in 1 .. C |-> [X \in SUBSET Files |-> Wide(X)]]
           All == Closure(t, K, F)
<1>1. C \in Nat
  BY OrderAssumption, FS_CardinalityType
<1>2. All \in SUBSET Files /\ F \subseteq All /\ Closed(t, K, All)
      /\ \A X \in SUBSET Files : F \subseteq X /\ Closed(t, K, X) => All \subseteq X
  BY ClosureIs
<1> HIDE DEF All
<1>3. ASSUME NEW X \in SUBSET Files
      PROVE  /\ Wide(X) \in SUBSET Files /\ X \subseteq Wide(X)
             /\ Wide(X) = X => Closed(t, K, X)
             /\ Closed(t, K, X) => Wide(X) = X
             /\ X \subseteq All => Wide(X) \subseteq All
  <2>1. \A f \in X : Targets(t, f, K) \subseteq Files
    BY TargetsAre
  <2> QED
    BY <1>2, <2>1 DEF Closed
<1>4. step \in [1 .. C -> [SUBSET Files -> SUBSET Files]]
      /\ \A n \in 1 .. C, X \in SUBSET Files : step[n][X] = Wide(X)
  <2> HIDE DEF Wide
  <2> QED BY <1>3
<1> HIDE DEF step
<1>5. PICK o0 : IsRun(o0, C, SUBSET Files, F, step)
  <2> HIDE DEF C
  <2> QED BY <1>1, <1>4, Recursion
<1>6. IsNear(o0, t, F, K)
  <2> HIDE DEF C
  <2>1. o0 = [n \in 0 .. C |-> o0[n]] /\ \A n \in 0 .. C : o0[n] \in SUBSET Files
    BY <1>5 DEF IsRun
  <2>2. ASSUME NEW n \in 0 .. C
        PROVE  o0[n] = IF n = 0 THEN F ELSE Wide(o0[n - 1])
    <3>1. CASE n = 0
      BY <1>5, <3>1 DEF IsRun
    <3>2. CASE n # 0
      <4>1. n \in 1 .. C /\ n - 1 \in 0 .. C
        BY <1>1, <3>2
      <4>2. o0[n] = step[n][o0[n - 1]] /\ o0[n - 1] \in SUBSET Files
        BY <1>5, <2>1, <4>1 DEF IsRun
      <4> HIDE DEF Wide
      <4> QED
        BY <1>4, <3>2, <4>1, <4>2
    <3> QED
      BY <3>1, <3>2
  <2>3. o0 = [n \in 0 .. C |-> IF n = 0 THEN F ELSE Wide(o0[n - 1])]
    <3> HIDE DEF Wide
    <3> QED BY <2>1, <2>2
  <2> QED
    BY <2>3 DEF IsNear, C
<1>7. PICK o : IsNear(o, t, F, K) /\ Within(t, F, K) = o[C]
  BY <1>6, WithinIs
<1>8. o[0] = F /\ \A n \in 1 .. C : o[n] = Wide(o[n - 1])
  <2>1. o = [n \in 0 .. C |-> IF n = 0 THEN F ELSE Wide(o[n - 1])]
    BY <1>7 DEF IsNear
  <2> HIDE DEF C, Wide
  <2>2. o[0] = F
    BY <1>1, <2>1
  <2>3. ASSUME NEW n \in 1 .. C PROVE o[n] = Wide(o[n - 1])
    <3>1. n \in 0 .. C /\ n # 0
      BY <1>1
    <3> QED
      BY <2>1, <3>1
  <2> QED
    BY <2>2, <2>3
<1> DEFINE P == {n \in 0 .. C : /\ o[n] \in SUBSET Files /\ F \subseteq o[n] /\ o[n] \subseteq All
                                /\ Closed(t, K, o[n]) \/ Cardinality(o[n]) >= n}
<1>9. 0 \in P
  <2>1. Cardinality(F) \in Nat
    BY OrderAssumption, FS_Subset, FS_CardinalityType
  <2> HIDE DEF C
  <2> QED
    BY <1>1, <1>2, <1>8, <2>1
<1>a. ASSUME NEW n \in 1 .. C, n - 1 \in P PROVE n \in P
  <2> DEFINE X == o[n - 1]
  <2>1. n \in 0 .. C /\ o[n] = Wide(X)
    BY <1>1, <1>8
  <2>2. X \in SUBSET Files /\ F \subseteq X /\ X \subseteq All
        /\ (Closed(t, K, X) \/ Cardinality(X) >= n - 1)
    BY <1>a
  <2> HIDE DEF X, Wide, C
  <2>3. /\ o[n] \in SUBSET Files /\ X \subseteq o[n] /\ o[n] \subseteq All
        /\ Closed(t, K, X) => o[n] = X
        /\ o[n] = X => Closed(t, K, X)
    BY <1>3, <2>1, <2>2
  <2>4. Closed(t, K, o[n]) \/ Cardinality(o[n]) >= n
    <3>1. CASE Closed(t, K, X)
      BY <2>3, <3>1
    <3>2. CASE ~Closed(t, K, X)
      <4>1. o[n] # X
        BY <2>3, <3>2
      <4>2. IsFiniteSet(o[n])
        BY <2>3, OrderAssumption, FS_Subset
      <4>3. /\ Cardinality(X) \in Nat /\ Cardinality(o[n]) \in Nat
            /\ Cardinality(X) <= Cardinality(o[n])
            /\ Cardinality(X) # Cardinality(o[n])
        BY <2>3, <4>1, <4>2, FS_Subset, FS_CardinalityType
      <4> QED
        BY <1>1, <2>2, <3>2, <4>3
    <3> QED
      BY <3>1, <3>2
  <2> QED
    BY <2>1, <2>2, <2>3, <2>4
<1>b. C \in P
  <2>1. \A n \in 0 .. C : n \in P
    <3> HIDE DEF P, C
    <3> QED BY <1>1, <1>9, <1>a, Induction
  <2> HIDE DEF P
  <2> QED BY <1>1, <2>1
<1>c. Closed(t, K, o[C])
  <2>1. CASE Cardinality(o[C]) >= C
    <3>1. o[C] \in SUBSET Files
      BY <1>b
    <3>2. Cardinality(o[C]) <= C /\ Cardinality(o[C]) \in Nat
      BY <3>1, OrderAssumption, FS_Subset, FS_CardinalityType
    <3>3. o[C] = Files
      BY <1>1, <2>1, <3>1, <3>2, OrderAssumption, FS_Subset
    <3> QED
      BY <3>3, TargetsAre DEF Closed
  <2> QED
    BY <1>b, <2>1
<1>d. o[C] = All
  BY <1>2, <1>b, <1>c
<1> QED
  BY <1>7, <1>d DEF All

-----------------------------------------------------------------------------
(***************************************************************************)
(* The walk in Klipper's order.                                            *)
(***************************************************************************)
Walk == [ok : BOOLEAN, files : Seq(Files), macros : Seq(Macro)]

LEMMA ThenIs ==
  ASSUME NEW a \in Walk, NEW b \in Walk
  PROVE  /\ Then(a, b) \in Walk
         /\ Then(a, b).ok <=> a.ok /\ b.ok
         /\ a.ok /\ b.ok => /\ Then(a, b).files = a.files \o b.files
                            /\ Then(a, b).macros = a.macros \o b.macros
<1>1. /\ a.ok \in BOOLEAN /\ a.files \in Seq(Files) /\ a.macros \in Seq(Macro)
      /\ b.ok \in BOOLEAN /\ b.files \in Seq(Files) /\ b.macros \in Seq(Macro)
  BY DEF Walk
<1>2. CASE a.ok /\ b.ok
  <2>1. Then(a, b) = [ok |-> TRUE, files |-> a.files \o b.files, macros |-> a.macros \o b.macros]
    BY <1>2 DEF Then, Found
  <2>2. a.files \o b.files \in Seq(Files) /\ a.macros \o b.macros \in Seq(Macro)
    BY <1>1
  <2> QED
    BY <1>2, <2>1, <2>2 DEF Walk
<1>3. CASE ~(a.ok /\ b.ok)
  <2>1. Then(a, b) = [ok |-> FALSE, files |-> << >>, macros |-> << >>]
    BY <1>3 DEF Then, Broken
  <2> QED
    BY <1>3, <2>1 DEF Walk
<1> QED
  BY <1>2, <1>3

LEMMA FoundIs ==
  ASSUME NEW fs \in Seq(Files), NEW ms \in Seq(Macro)
  PROVE  /\ Found(fs, ms) \in Walk /\ Found(fs, ms).ok
         /\ Found(fs, ms).files = fs /\ Found(fs, ms).macros = ms
BY DEF Found, Walk

LEMMA BrokenIs == Broken \in Walk /\ ~Broken.ok
BY DEF Broken, Walk

\* What section e adds to walk r.
Took(r, e, K, inner) == IF e.kind = "macro" THEN Then(r, Found(<< >>, <<e>>))
                        ELSE IF e.kind \in K THEN Then(r, inner[e.file])
                        ELSE r

IsSpliced(u, t, f, kinds, inner) ==
  u = [n \in 0 .. Len(t[f]) |->
        IF n = 0 THEN Found(<<f>>, << >>)
        ELSE LET e == t[f][n]
             IN  CASE e.kind = "macro" -> Then(u[n - 1], Found(<< >>, <<e>>))
                   [] e.kind \in kinds -> Then(u[n - 1], inner[e.file])
                   [] OTHER            -> u[n - 1]]

LEMMA SplicedIs ==
  ASSUME NEW t, NEW f, NEW kinds, NEW inner, NEW u0, IsSpliced(u0, t, f, kinds, inner)
  PROVE  \E u : IsSpliced(u, t, f, kinds, inner) /\ Spliced(t, f, kinds, inner) = u[Len(t[f])]
<1>1. IsSpliced(CHOOSE u : IsSpliced(u, t, f, kinds, inner), t, f, kinds, inner)
  OBVIOUS
<1>2. Spliced(t, f, kinds, inner) = (CHOOSE u : IsSpliced(u, t, f, kinds, inner))[Len(t[f])]
  BY DEF Spliced, IsSpliced
<1> QED
  BY <1>1, <1>2

\* The walk of the first n sections of file f is u[n].
SplicedRun(u, t, f, K, inner) ==
  /\ \A n \in 0 .. Len(t[f]) : u[n] \in Walk
  /\ u[0] = Found(<<f>>, << >>)
  /\ \A n \in 1 .. Len(t[f]) : u[n] = Took(u[n - 1], t[f][n], K, inner)

LEMMA TookIs ==
  ASSUME NEW t \in Tree, NEW f \in Files, t[f] # Absent, NEW n \in 1 .. Len(t[f]),
         NEW K, K \subseteq LinkKinds, NEW inner \in [Files -> Walk], NEW r \in Walk
  PROVE  Took(r, t[f][n], K, inner) \in Walk
<1> DEFINE e == t[f][n]
<1>1. CASE e.kind = "macro"
  <2>1. e \in Macro
    BY <1>1, SectionIs
  <2> HIDE DEF e
  <2>2. << >> \in Seq(Files) /\ <<e>> \in Seq(Macro)
    BY <2>1
  <2>3. PICK m \in Walk : m = Found(<< >>, <<e>>)
    BY <2>2, FoundIs
  <2>4. Then(r, m) \in Walk
    BY ThenIs
  <2> QED
    BY <1>1, <2>3, <2>4 DEF Took, e
<1>2. CASE e.kind # "macro" /\ e.kind \in K
  <2>1. inner[e.file] \in Walk
    BY <1>2, SectionIs
  <2>2. PICK m \in Walk : m = inner[e.file]
    BY <2>1
  <2>3. Then(r, m) \in Walk
    BY ThenIs
  <2> QED
    BY <1>2, <2>2, <2>3 DEF Took
<1>3. CASE e.kind # "macro" /\ e.kind \notin K
  BY <1>3 DEF Took
<1> QED
  BY <1>1, <1>2, <1>3

LEMMA SplicedSteps ==
  ASSUME NEW t \in Tree, NEW f \in Files, t[f] # Absent,
         NEW K, K \subseteq LinkKinds, NEW inner \in [Files -> Walk]
  PROVE  \E u : SplicedRun(u, t, f, K, inner) /\ Spliced(t, f, K, inner) = u[Len(t[f])]
<1> DEFINE N == Len(t[f])
           a == Found(<<f>>, << >>)
           step == [n \in 1 .. N |-> [r \in Walk |-> Took(r, t[f][n], K, inner)]]
<1>1. N \in Nat /\ a \in Walk
  <2>1. <<f>> \in Seq(Files) /\ << >> \in Seq(Macro)
    OBVIOUS
  <2> QED
    BY <2>1, TextIs, FoundIs
<1>2. \A n \in 1 .. N, r \in Walk : Took(r, t[f][n], K, inner) \in Walk
  BY TookIs
<1>3. step \in [1 .. N -> [Walk -> Walk]]
      /\ \A n \in 1 .. N, r \in Walk : step[n][r] = Took(r, t[f][n], K, inner)
  <2> HIDE DEF N
  <2> QED BY <1>2
<1> HIDE DEF step
<1>4. PICK u0 : IsRun(u0, N, Walk, a, step)
  <2> HIDE DEF N, a
  <2> QED BY <1>1, <1>3, Recursion
<1>5. \A n \in 1 .. N : \A r : Took(r, t[f][n], K, inner)
                             = CASE t[f][n].kind = "macro" -> Then(r, Found(<< >>, <<t[f][n]>>))
                                 [] t[f][n].kind \in K -> Then(r, inner[t[f][n].file])
                                 [] OTHER            -> r
  BY DEF Took, LinkKinds
<1>6. IsSpliced(u0, t, f, K, inner)
  <2> HIDE DEF N, a
  <2>1. u0 = [n \in 0 .. N |-> u0[n]] /\ \A n \in 0 .. N : u0[n] \in Walk
    BY <1>4 DEF IsRun
  <2>2. ASSUME NEW n \in 0 .. N
        PROVE  u0[n] = IF n = 0 THEN a ELSE Took(u0[n - 1], t[f][n], K, inner)
    <3>1. CASE n = 0
      BY <1>4, <3>1 DEF IsRun
    <3>2. CASE n # 0
      <4>1. n \in 1 .. N /\ n - 1 \in 0 .. N
        BY <1>1, <3>2
      <4>2. u0[n] = step[n][u0[n - 1]] /\ u0[n - 1] \in Walk
        BY <1>4, <2>1, <4>1 DEF IsRun
      <4> QED
        BY <1>3, <3>2, <4>1, <4>2
    <3> QED
      BY <3>1, <3>2
  <2>3. ASSUME NEW n \in 0 .. N
        PROVE  u0[n] = IF n = 0 THEN a
                       ELSE CASE t[f][n].kind = "macro" -> Then(u0[n - 1], Found(<< >>, <<t[f][n]>>))
                              [] t[f][n].kind \in K -> Then(u0[n - 1], inner[t[f][n].file])
                              [] OTHER            -> u0[n - 1]
    <3>1. CASE n = 0
      BY <2>2, <3>1
    <3>2. CASE n # 0
      <4>1. n \in 1 .. N
        BY <1>1, <3>2
      <4>2. u0[n] = Took(u0[n - 1], t[f][n], K, inner)
        BY <2>2, <3>2
      <4> QED
        BY <1>5, <3>2, <4>1, <4>2
    <3> QED
      BY <3>1, <3>2
  <2>4. u0 = [n \in 0 .. N |->
               IF n = 0 THEN a
               ELSE CASE t[f][n].kind = "macro" -> Then(u0[n - 1], Found(<< >>, <<t[f][n]>>))
                      [] t[f][n].kind \in K -> Then(u0[n - 1], inner[t[f][n].file])
                      [] OTHER            -> u0[n - 1]]
    BY <2>1, <2>3
  <2> QED
    BY <2>4 DEF IsSpliced, N, a
<1>7. PICK u : IsSpliced(u, t, f, K, inner) /\ Spliced(t, f, K, inner) = u[N]
  BY <1>6, SplicedIs
<1>8. u[0] = a /\ \A n \in 1 .. N : u[n] = Took(u[n - 1], t[f][n], K, inner)
  <2>1. u = [n \in 0 .. N |->
              IF n = 0 THEN a
              ELSE CASE t[f][n].kind = "macro" -> Then(u[n - 1], Found(<< >>, <<t[f][n]>>))
                     [] t[f][n].kind \in K -> Then(u[n - 1], inner[t[f][n].file])
                     [] OTHER            -> u[n - 1]]
    BY <1>7 DEF IsSpliced
  <2> HIDE DEF N, a
  <2>2. u[0] = a
    BY <1>1, <2>1
  <2>3. ASSUME NEW n \in 1 .. N PROVE u[n] = Took(u[n - 1], t[f][n], K, inner)
    <3>1. n \in 0 .. N /\ n # 0
      BY <1>1
    <3>2. u[n] = CASE t[f][n].kind = "macro" -> Then(u[n - 1], Found(<< >>, <<t[f][n]>>))
                     [] t[f][n].kind \in K -> Then(u[n - 1], inner[t[f][n].file])
                     [] OTHER            -> u[n - 1]
      BY <2>1, <3>1
    <3> QED
      BY <1>5, <3>2
  <2> QED
    BY <2>2, <2>3
<1> DEFINE P == {n \in 0 .. N : u[n] \in Walk}
<1>9. 0 \in P /\ \A n \in 1 .. N : n - 1 \in P => n \in P
  <2> HIDE DEF N, a
  <2>1. 0 \in P
    BY <1>1, <1>8
  <2>2. ASSUME NEW n \in 1 .. N, n - 1 \in P PROVE n \in P
    <3>1. n \in 0 .. N /\ u[n - 1] \in Walk
      BY <1>1, <2>2
    <3>2. u[n] \in Walk
      BY <1>2, <1>8, <3>1
    <3> QED
      BY <3>1, <3>2
  <2> QED
    BY <2>1, <2>2
<1>a. \A n \in 0 .. N : u[n] \in Walk
  <2>1. \A n \in 0 .. N : n \in P
    <3> HIDE DEF P, N
    <3> QED BY <1>1, <1>9, Induction
  <2> QED
    BY <2>1
<1> QED
  BY <1>7, <1>8, <1>a DEF SplicedRun

LEMMA SplicedIsWalk ==
  ASSUME NEW t \in Tree, NEW f \in Files, t[f] # Absent,
         NEW K, K \subseteq LinkKinds, NEW inner \in [Files -> Walk]
  PROVE  Spliced(t, f, K, inner) \in Walk
<1>1. PICK u : SplicedRun(u, t, f, K, inner) /\ Spliced(t, f, K, inner) = u[Len(t[f])]
  BY SplicedSteps
<1>2. Len(t[f]) \in 0 .. Len(t[f])
  BY TextIs
<1> QED
  BY <1>1, <1>2 DEF SplicedRun

\* The walk from file f while those in v are being read, if w has the walks
\* while more are.
At(w, t, K, v, f) == IF f \in v \/ t[f] = Absent THEN Broken
                     ELSE Spliced(t, f, K, w[v \cup {f}])

IsVisit(w, t, kinds) ==
  w = [visiting \in SUBSET Files |->
        [f \in Files |-> IF f \in visiting \/ t[f] = Absent THEN Broken
                         ELSE Spliced(t, f, kinds, w[visiting \cup {f}])]]

LEMMA VisitIs ==
  ASSUME NEW t, NEW kinds, NEW w0, IsVisit(w0, t, kinds)
  PROVE  \E w : IsVisit(w, t, kinds) /\ Visit(t, kinds) = w[{}][Root]
<1>1. IsVisit(CHOOSE w : IsVisit(w, t, kinds), t, kinds)
  OBVIOUS
<1>2. Visit(t, kinds) = (CHOOSE w : IsVisit(w, t, kinds))[{}][Root]
  BY DEF Visit, IsVisit
<1> QED
  BY <1>1, <1>2

LEMMA AtIsWalk ==
  ASSUME NEW t \in Tree, NEW K, K \subseteq LinkKinds, NEW w,
         NEW v \in SUBSET Files, NEW f \in Files,
         f \notin v => w[v \cup {f}] \in [Files -> Walk]
  PROVE  At(w, t, K, v, f) \in Walk
<1>1. CASE f \in v \/ t[f] = Absent
  BY <1>1, BrokenIs DEF At
<1>2. CASE f \notin v /\ t[f] # Absent
  <2>1. PICK inner \in [Files -> Walk] : inner = w[v \cup {f}]
    BY <1>2
  <2>2. Spliced(t, f, K, inner) \in Walk
    BY <1>2, SplicedIsWalk
  <2> QED
    BY <1>2, <2>1, <2>2 DEF At
<1> QED
  BY <1>1, <1>2

\* There is one: as many rounds as there are files find it.
LEMMA VisitExists ==
  ASSUME NEW t \in Tree, NEW K, K \subseteq LinkKinds
  PROVE  \E w : IsVisit(w, t, K)
<1> DEFINE C == Cardinality(Files)
           S == [SUBSET Files -> [Files -> Walk]]
           Round(w) == [v \in SUBSET Files |-> [f \in Files |-> At(w, t, K, v, f)]]
           step == [n \in 1 .. C |-> [w \in S |-> Round(w)]]
           a == [v \in SUBSET Files |-> [f \in Files |-> Broken]]
<1>1. C \in Nat
  BY OrderAssumption, FS_CardinalityType
<1>2. a \in S
  BY BrokenIs
<1>3. ASSUME NEW w \in S PROVE Round(w) \in S
  <2>1. ASSUME NEW v \in SUBSET Files, NEW f \in Files PROVE At(w, t, K, v, f) \in Walk
    <3>1. w[v \cup {f}] \in [Files -> Walk]
      OBVIOUS
    <3> HIDE DEF S
    <3> QED
      BY <3>1, AtIsWalk
  <2> QED
    BY <2>1
<1>4. step \in [1 .. C -> [S -> S]] /\ \A n \in 1 .. C, w \in S : step[n][w] = Round(w)
  <2> HIDE DEF S, Round, C
  <2> QED BY <1>3
<1> HIDE DEF step
<1>5. PICK o : IsRun(o, C, S, a, step)
  <2> HIDE DEF S, C, a
  <2> QED BY <1>1, <1>2, <1>4, Recursion
<1>6. o[0] = a /\ \A n \in 0 .. C : o[n] \in S
  BY <1>5 DEF IsRun
<1>7. \A n \in 1 .. C : o[n] = Round(o[n - 1])
  <2> HIDE DEF S, Round, C, a
  <2> SUFFICES ASSUME NEW n \in 1 .. C PROVE o[n] = Round(o[n - 1])
    OBVIOUS
  <2>1. n - 1 \in 0 .. C
    BY <1>1
  <2>2. o[n] = step[n][o[n - 1]]
    BY <1>5 DEF IsRun
  <2> QED
    BY <1>4, <1>6, <2>1, <2>2
<1>8. \A v \in SUBSET Files : IsFiniteSet(Files \ v) /\ Cardinality(Files \ v) \in 0 .. C
  BY OrderAssumption, <1>1, FS_Subset, FS_CardinalityType
<1> DEFINE P == {n \in 0 .. C : \A v \in SUBSET Files :
                                  Cardinality(Files \ v) <= n => Round(o[n])[v] = o[n][v]}
<1>9. 0 \in P
  <2> SUFFICES ASSUME NEW v \in SUBSET Files, Cardinality(Files \ v) <= 0
               PROVE  Round(o[0])[v] = o[0][v]
    <3> HIDE DEF Round, C
    <3>1. 0 \in 0 .. C
      BY <1>1
    <3> QED
      BY <3>1
  <2>1. Files \ v = {}
    BY <1>8, FS_EmptySet
  <2>2. \A f \in Files : At(o[0], t, K, v, f) = Broken
    BY <2>1 DEF At
  <2>3. Round(o[0])[v] = [f \in Files |-> At(o[0], t, K, v, f)]
    OBVIOUS
  <2> QED
    BY <1>6, <2>2, <2>3
<1>a. ASSUME NEW n \in 1 .. C, n - 1 \in P PROVE n \in P
  <2>1. n \in 0 .. C /\ n - 1 \in Nat
    BY <1>1
  <2> SUFFICES ASSUME NEW v \in SUBSET Files, Cardinality(Files \ v) <= n
               PROVE  Round(o[n])[v] = o[n][v]
    BY <2>1
  <2>2. ASSUME NEW f \in Files PROVE At(o[n], t, K, v, f) = At(o[n - 1], t, K, v, f)
    <3>1. CASE f \in v
      BY <3>1 DEF At
    <3>2. CASE f \notin v
      <4> DEFINE x == v \cup {f}
      <4>1. x \in SUBSET Files /\ Files \ x = (Files \ v) \ {f}
        OBVIOUS
      <4>2. Cardinality(Files \ x) = Cardinality(Files \ v) - 1
        BY <1>8, <3>2, <4>1, FS_RemoveElement
      <4>3. Cardinality(Files \ x) <= n - 1
        BY <1>1, <1>8, <4>2
      <4>4. Round(o[n - 1])[x] = o[n - 1][x]
        <5> HIDE DEF x, Round
        <5> QED BY <1>a, <4>1, <4>3
      <4>5. o[n][x] = o[n - 1][x]
        <5> HIDE DEF x, Round
        <5> QED BY <1>7, <4>4
      <4> QED
        BY <3>2, <4>5 DEF At
    <3> QED
      BY <3>1, <3>2
  <2>3. Round(o[n])[v] = [f \in Files |-> At(o[n], t, K, v, f)]
        /\ Round(o[n - 1])[v] = [f \in Files |-> At(o[n - 1], t, K, v, f)]
    OBVIOUS
  <2>4. o[n] = Round(o[n - 1])
    BY <1>7
  <2> HIDE DEF Round
  <2> QED
    BY <2>2, <2>3, <2>4
<1>b. C \in P
  <2>1. \A n \in 0 .. C : n \in P
    <3> HIDE DEF P, C
    <3> QED BY <1>1, <1>9, <1>a, Induction
  <2> HIDE DEF P
  <2> QED BY <1>1, <2>1
<1>c. \A v \in SUBSET Files : Round(o[C])[v] = o[C][v]
  <2> HIDE DEF Round
  <2>1. \A v \in SUBSET Files : Cardinality(Files \ v) <= C
    <3> HIDE DEF C
    <3> QED BY <1>1, <1>8
  <2> QED
    BY <1>b, <2>1
<1>d. o[C] = Round(o[C])
  <2>1. o[C] \in S /\ Round(o[C]) \in S
    <3>1. o[C] \in S
      <4> HIDE DEF S, C, a
      <4> QED BY <1>1, <1>6
    <3> HIDE DEF S, Round
    <3> QED BY <1>3, <3>1
  <2> HIDE DEF Round, C
  <2> QED
    BY <1>c, <2>1
<1>e. IsVisit(o[C], t, K)
  BY <1>d DEF IsVisit, At
<1> QED
  BY <1>e

\* What the definition of Visit says.
VisitRun(w, t, K) == \A v \in SUBSET Files :
                       /\ w[v] \in [Files -> Walk]
                       /\ \A f \in Files : w[v][f] = At(w, t, K, v, f)

LEMMA VisitSteps ==
  ASSUME NEW t \in Tree, NEW K, K \subseteq LinkKinds
  PROVE  \E w : VisitRun(w, t, K) /\ Visit(t, K) = w[{}][Root]
<1>1. PICK w : IsVisit(w, t, K) /\ Visit(t, K) = w[{}][Root]
  BY VisitExists, VisitIs
<1>2. w = [v \in SUBSET Files |-> [f \in Files |-> At(w, t, K, v, f)]]
  BY <1>1 DEF IsVisit, At
<1>3. \A v \in SUBSET Files : w[v] = [f \in Files |-> At(w, t, K, v, f)]
  BY <1>2
<1> DEFINE P == {v \in SUBSET Files : w[v] \in [Files -> Walk]}
<1>4. ASSUME NEW v \in SUBSET Files, \A f \in Files \ v : v \cup {f} \in P PROVE v \in P
  <2>1. ASSUME NEW f \in Files PROVE At(w, t, K, v, f) \in Walk
    <3>1. f \notin v => w[v \cup {f}] \in [Files -> Walk]
      BY <1>4
    <3> QED
      BY <3>1, AtIsWalk
  <2> QED
    BY <1>3, <2>1
<1>5. \A v \in SUBSET Files : v \in P
  <2> HIDE DEF P
  <2> QED BY <1>4, OrderAssumption, Leaving
<1>6. VisitRun(w, t, K)
  BY <1>3, <1>5 DEF VisitRun
<1> QED
  BY <1>1, <1>6

\* Section e adds its file to a.
ViaStep(a, b, e, K) == /\ e.kind \in K => b = a \cup {e.file}
                       /\ e.kind \notin K => b = a

\* The first n sections of file f lead to V[n].
ViaRun(V, t, f, K) ==
  /\ V[0] = {}
  /\ V[Len(t[f])] = Targets(t, f, K)
  /\ \A n \in 0 .. Len(t[f]) : V[n] \subseteq Files
  /\ \A n \in 1 .. Len(t[f]) : ViaStep(V[n - 1], V[n], t[f][n], K)

LEMMA ViaIs ==
  ASSUME NEW t \in Tree, NEW f \in Files, t[f] # Absent, NEW K, K \subseteq LinkKinds
  PROVE  \E V : ViaRun(V, t, f, K)
<1> DEFINE N == Len(t[f])
           Via(n) == {t[f][i].file : i \in {j \in 1 .. n : t[f][j].kind \in K}}
           V == [n \in 0 .. N |-> Via(n)]
<1>1. N \in Nat /\ DOMAIN t[f] = 1 .. N
  BY TextIs
<1>2. \A n \in 0 .. N : V[n] = Via(n)
  OBVIOUS
<1>3. Via(0) = {} /\ Via(N) = Targets(t, f, K)
  BY <1>1 DEF Targets
<1>4. ASSUME NEW n \in 1 .. N
      PROVE  /\ t[f][n].kind \in K => Via(n) = Via(n - 1) \cup {t[f][n].file}
             /\ t[f][n].kind \notin K => Via(n) = Via(n - 1)
  <2>1. \A i : i \in 1 .. n <=> i \in 1 .. n - 1 \/ i = n
    BY <1>1
  <2> QED
    BY <2>1
<1>5. ASSUME NEW n \in 0 .. N PROVE Via(n) \subseteq Files
  <2>1. \A i \in 1 .. n : i \in 1 .. Len(t[f])
    BY <1>1
  <2> QED
    BY <2>1, SectionIs
<1> HIDE DEF Via, V
<1>6. V[0] = {} /\ V[N] = Targets(t, f, K)
  <2> HIDE DEF N
  <2>1. 0 \in 0 .. N /\ N \in 0 .. N
    BY <1>1
  <2> QED
    BY <1>2, <1>3, <2>1
<1>7. ASSUME NEW n \in 1 .. N
      PROVE  ViaStep(V[n - 1], V[n], t[f][n], K)
  <2>1. V[n] = Via(n) /\ V[n - 1] = Via(n - 1)
    BY <1>1, <1>2
  <2> QED
    BY <1>4, <2>1 DEF ViaStep
<1>8. ViaRun(V, t, f, K)
  BY <1>2, <1>5, <1>6, <1>7 DEF ViaRun
<1> QED
  BY <1>8

\* The files and the macros that the walks of the files in V find.
FilesVia(inner, V) == {g \in Files : \E h \in V : g \in ToSet(inner[h].files)}

MacrosVia(inner, V) == {m \in Macro : \E h \in V : m \in ToSet(inner[h].macros)}

LEMMA ViaMore ==
  ASSUME NEW inner \in [Files -> Walk], NEW V, NEW h \in Files
  PROVE  /\ FilesVia(inner, V \cup {h}) = FilesVia(inner, V) \cup ToSet(inner[h].files)
         /\ MacrosVia(inner, V \cup {h}) = MacrosVia(inner, V) \cup ToSet(inner[h].macros)
         /\ FilesVia(inner, {}) = {} /\ MacrosVia(inner, {}) = {}
<1>1. inner[h].files \in Seq(Files) /\ inner[h].macros \in Seq(Macro)
  BY DEF Walk
<1>2. ToSet(inner[h].files) \subseteq Files /\ ToSet(inner[h].macros) \subseteq Macro
  BY <1>1 DEF ToSet
<1> QED
  BY <1>2 DEF FilesVia, MacrosVia

\* What the walk of file f is made of.
SplicedSets(s, t, f, K, inner) ==
  /\ s.ok <=> \A h \in Targets(t, f, K) : inner[h].ok
  /\ s.ok => /\ ToSet(s.files) = {f} \cup FilesVia(inner, Targets(t, f, K))
             /\ ToSet(s.macros) = (ToSet(t[f]) \cap Macro) \cup
                                    MacrosVia(inner, Targets(t, f, K))

LEMMA OneSet ==
  ASSUME NEW x
  PROVE  ToSet(<<x>>) = {x} /\ ToSet(<< >>) = {}
BY DEF ToSet

\* What a file's walk holds, given what the walks of its links hold.
LEMMA SplicedIsOf ==
  ASSUME NEW t \in Tree, NEW f \in Files, t[f] # Absent,
         NEW K, K \subseteq LinkKinds, NEW inner \in [Files -> Walk]
  PROVE  SplicedSets(Spliced(t, f, K, inner), t, f, K, inner)
<1> DEFINE N == Len(t[f])
           Ms(n) == {t[f][i] : i \in 1 .. n} \cap Macro
<1>1. PICK u : SplicedRun(u, t, f, K, inner) /\ Spliced(t, f, K, inner) = u[N]
  BY SplicedSteps
<1>2. N \in Nat /\ DOMAIN t[f] = 1 .. N /\ t[f] \in Seq(Sections)
  BY TextIs
<1>c. PICK V : ViaRun(V, t, f, K)
  BY ViaIs
<1>3. V[0] = {} /\ Ms(0) = {}
  BY <1>c DEF ViaRun
<1>a. \A n \in 1 .. N : ViaStep(V[n - 1], V[n], t[f][n], K)
  BY <1>c DEF ViaRun
<1>b. \A n \in 0 .. N : V[n] \subseteq Files
  BY <1>c DEF ViaRun
<1> DEFINE Q(n) == /\ u[n].ok <=> \A h \in V[n] : inner[h].ok
                   /\ u[n].ok => /\ ToSet(u[n].files) = {f} \cup FilesVia(inner, V[n])
                                 /\ ToSet(u[n].macros) = Ms(n) \cup MacrosVia(inner, V[n])
           P == {n \in 0 .. N : Q(n)}
<1>4. Q(0)
  <2>1. <<f>> \in Seq(Files) /\ << >> \in Seq(Macro)
    OBVIOUS
  <2>2. u[0] = Found(<<f>>, << >>)
    BY <1>1 DEF SplicedRun
  <2>b. PICK m \in Walk : /\ m = Found(<<f>>, << >>)
                          /\ m.ok /\ m.files = <<f>> /\ m.macros = << >>
    BY <2>1, FoundIs
  <2>3. u[0].ok /\ u[0].files = <<f>> /\ u[0].macros = << >>
    BY <2>2, <2>b
  <2>4. ToSet(u[0].files) = {f} /\ ToSet(u[0].macros) = {}
    BY <2>3, OneSet
  <2>5. FilesVia(inner, {}) = {} /\ MacrosVia(inner, {}) = {}
    BY ViaMore
  <2> HIDE DEF Ms
  <2> QED
    BY <1>3, <2>3, <2>4, <2>5
<1>5. ASSUME NEW n \in 1 .. N, Q(n - 1) PROVE Q(n)
  <2> DEFINE e == t[f][n]
             r == u[n - 1]
  <2>1. n - 1 \in 0 .. N /\ n \in 0 .. N
    BY <1>2
  <2>2. r \in Walk /\ u[n] = Took(r, e, K, inner)
    BY <1>1, <2>1 DEF SplicedRun
  <2>3. /\ e.kind \in K => V[n] = V[n - 1] \cup {e.file}
        /\ e.kind \notin K => V[n] = V[n - 1]
        /\ V[n] \subseteq Files
    <3>1. V[n] \subseteq Files
      BY <1>b, <2>1
    <3>2. ViaStep(V[n - 1], V[n], e, K)
      BY <1>a
    <3> HIDE DEF e
    <3> QED
      BY <3>1, <3>2 DEF ViaStep
  <2>4. Ms(n) = Ms(n - 1) \cup ({e} \cap Macro)
    <3>1. 1 .. n = 1 .. n - 1 \cup {n}
      BY <1>2
    <3> QED
      BY <3>1
  <2>5. e.kind = "macro" <=> e \in Macro
    BY SectionIs
  <2>6. /\ r.ok <=> \A h \in V[n - 1] : inner[h].ok
        /\ r.ok => /\ ToSet(r.files) = {f} \cup FilesVia(inner, V[n - 1])
                   /\ ToSet(r.macros) = Ms(n - 1) \cup MacrosVia(inner, V[n - 1])
    BY <1>5
  <2> HIDE DEF e, r, Ms
  <2>7. r.files \in Seq(Files) /\ r.macros \in Seq(Macro)
    BY <2>2 DEF Walk
  <2>8. CASE e.kind = "macro"
    <3>1. << >> \in Seq(Files) /\ <<e>> \in Seq(Macro)
      BY <2>5, <2>8
    <3>2. PICK m \in Walk : /\ m = Found(<< >>, <<e>>)
                            /\ m.ok /\ m.files = << >> /\ m.macros = <<e>>
      BY <3>1, FoundIs
    <3>3. u[n] = Then(r, m)
      BY <2>2, <2>8, <3>2 DEF Took
    <3>a. m.files \in Seq(Files) /\ m.macros \in Seq(Macro)
      BY DEF Walk
    <3>4. /\ u[n].ok <=> r.ok
          /\ r.ok => u[n].files = r.files \o m.files /\ u[n].macros = r.macros \o m.macros
      <4>1. /\ Then(r, m).ok <=> r.ok /\ m.ok
            /\ r.ok /\ m.ok => /\ Then(r, m).files = r.files \o m.files
                               /\ Then(r, m).macros = r.macros \o m.macros
        BY <2>2, ThenIs
      <4> QED
        BY <3>2, <3>3, <4>1
    <3>5. ToSet(r.files \o m.files) = ToSet(r.files) /\ ToSet(r.macros \o m.macros) = ToSet(r.macros) \cup {e}
      <4>1. ToSet(m.files) = {} /\ ToSet(m.macros) = {e}
        BY <3>2, OneSet
      <4>2. ToSet(r.files \o m.files) = ToSet(r.files) \cup ToSet(m.files)
            /\ ToSet(r.macros \o m.macros) = ToSet(r.macros) \cup ToSet(m.macros)
        BY <2>7, <3>a, ConcatSet
      <4> QED
        BY <4>1, <4>2
    <3>6. V[n] = V[n - 1] /\ Ms(n) = Ms(n - 1) \cup {e}
      BY <2>3, <2>4, <2>5, <2>8 DEF LinkKinds
    <3>7. /\ u[n].ok <=> \A h \in V[n] : inner[h].ok
          /\ u[n].ok => ToSet(u[n].files) = {f} \cup FilesVia(inner, V[n])
      BY <2>6, <3>4, <3>5, <3>6
    <3>8. u[n].ok => ToSet(u[n].macros) = Ms(n) \cup MacrosVia(inner, V[n])
      BY <2>6, <3>4, <3>5, <3>6
    <3> QED
      BY <3>7, <3>8
  <2>9. CASE e.kind # "macro" /\ e.kind \in K
    <3>1. V[n] = V[n - 1] \cup {e.file} /\ Ms(n) = Ms(n - 1) /\ e.file \in Files
      BY <2>3, <2>4, <2>5, <2>9
    <3>2. PICK m \in Walk : m = inner[e.file]
      BY <3>1
    <3>3. m.files \in Seq(Files) /\ m.macros \in Seq(Macro)
      BY DEF Walk
    <3>4. u[n] = Then(r, m)
      BY <2>2, <2>9, <3>2 DEF Took
    <3>5. /\ u[n].ok <=> r.ok /\ m.ok
          /\ r.ok /\ m.ok => u[n].files = r.files \o m.files /\ u[n].macros = r.macros \o m.macros
      <4>1. /\ Then(r, m).ok <=> r.ok /\ m.ok
            /\ r.ok /\ m.ok => /\ Then(r, m).files = r.files \o m.files
                               /\ Then(r, m).macros = r.macros \o m.macros
        BY <2>2, ThenIs
      <4> QED
        BY <3>4, <4>1
    <3>6. ToSet(r.files \o m.files) = ToSet(r.files) \cup ToSet(m.files)
          /\ ToSet(r.macros \o m.macros) = ToSet(r.macros) \cup ToSet(m.macros)
      BY <2>7, <3>3, ConcatSet
    <3>7. u[n].ok <=> \A h \in V[n] : inner[h].ok
      BY <2>6, <3>1, <3>2, <3>5
    <3>a. /\ FilesVia(inner, V[n]) = FilesVia(inner, V[n - 1]) \cup ToSet(m.files)
          /\ MacrosVia(inner, V[n]) = MacrosVia(inner, V[n - 1]) \cup ToSet(m.macros)
      <4> DEFINE W == V[n - 1]
                 h == e.file
      <4>1. h \in Files /\ V[n] = W \cup {h} /\ m = inner[h]
        BY <3>1, <3>2
      <4> HIDE DEF W, h
      <4>2. /\ FilesVia(inner, W \cup {h}) = FilesVia(inner, W) \cup ToSet(inner[h].files)
            /\ MacrosVia(inner, W \cup {h}) = MacrosVia(inner, W) \cup ToSet(inner[h].macros)
        BY ZenonT(30), <4>1, ViaMore
      <4> QED
        BY <4>1, <4>2 DEF W
    <3>8. u[n].ok => ToSet(u[n].files) = {f} \cup FilesVia(inner, V[n])
      <4> SUFFICES ASSUME r.ok /\ m.ok
                   PROVE  ToSet(u[n].files) = {f} \cup FilesVia(inner, V[n])
        BY <3>5
      <4>1. ToSet(u[n].files) = ToSet(r.files) \cup ToSet(m.files)
        BY <3>5, <3>6
      <4>2. ToSet(r.files) = {f} \cup FilesVia(inner, V[n - 1])
        BY <2>6
      <4> QED
        BY <3>a, <4>1, <4>2
    <3>9. u[n].ok => ToSet(u[n].macros) = Ms(n) \cup MacrosVia(inner, V[n])
      <4> SUFFICES ASSUME r.ok /\ m.ok
                   PROVE  ToSet(u[n].macros) = Ms(n) \cup MacrosVia(inner, V[n])
        BY <3>5
      <4>1. ToSet(u[n].macros) = ToSet(r.macros) \cup ToSet(m.macros)
        BY <3>5, <3>6
      <4>2. ToSet(r.macros) = Ms(n - 1) \cup MacrosVia(inner, V[n - 1])
        BY <2>6
      <4> QED
        BY <3>1, <3>a, <4>1, <4>2
    <3> QED
      BY <3>7, <3>8, <3>9
  <2>a. CASE e.kind # "macro" /\ e.kind \notin K
    <3>1. V[n] = V[n - 1] /\ Ms(n) = Ms(n - 1) /\ u[n] = r
      BY <2>2, <2>3, <2>4, <2>5, <2>a DEF Took
    <3> QED
      BY <2>6, <3>1
  <2> QED
    BY <2>8, <2>9, <2>a
<1>6. Q(N)
  <2>1. 0 \in P
    <3> HIDE DEF Q, N
    <3> QED BY <1>2, <1>4
  <2>2. ASSUME NEW n \in 1 .. N, n - 1 \in P PROVE n \in P
    <3>1. n \in 0 .. N
      BY <1>2
    <3> HIDE DEF Q
    <3> QED BY <1>5, <2>2, <3>1
  <2>3. \A n \in 0 .. N : n \in P
    <3> HIDE DEF P, N
    <3> QED BY <1>2, <2>1, <2>2, Induction
  <2>4. N \in 0 .. N
    BY <1>2
  <2> HIDE DEF Q
  <2> QED BY <2>3, <2>4
<1>7. V[N] = Targets(t, f, K)
  BY <1>c DEF ViaRun
<1>8. Ms(N) = ToSet(t[f]) \cap Macro
  BY <1>2 DEF ToSet
<1> QED
  <2> HIDE DEF Ms
  <2> QED BY <1>1, <1>6, <1>7, <1>8 DEF SplicedSets

\* No file that f reaches is missing or reaches itself.
Good(t, K, f) == \A g \in Closure(t, K, {f}) : t[g] # Absent /\ g \notin Closure(t, K, Targets(t, g, K))

LEMMA GoodIs ==
  ASSUME NEW t \in Tree, NEW K, K \subseteq LinkKinds, NEW f \in Files
  PROVE  Good(t, K, f) <=> /\ t[f] # Absent
                           /\ f \notin Closure(t, K, Targets(t, f, K))
                           /\ \A h \in Targets(t, f, K) : Good(t, K, h)
<1> DEFINE T == Targets(t, f, K)
<1>1. T \in SUBSET Files
  BY TargetsAre
<1>2. Closure(t, K, {f}) = {f} \cup Closure(t, K, T)
  BY ClosureOfOne
<1> HIDE DEF T
<1>3. Closure(t, K, T) = UNION {Closure(t, K, {h}) : h \in T}
  BY <1>1, ClosureOfAll
<1>4. Good(t, K, f) <=> \A g \in {f} \cup UNION {Closure(t, K, {h}) : h \in T} :
                          t[g] # Absent /\ g \notin Closure(t, K, Targets(t, g, K))
  BY <1>2, <1>3 DEF Good
<1>5. (\A h \in T : Good(t, K, h)) <=>
        \A g \in UNION {Closure(t, K, {h}) : h \in T} :
          t[g] # Absent /\ g \notin Closure(t, K, Targets(t, g, K))
  BY DEF Good
<1> QED
  BY <1>4, <1>5 DEF T

\* The macros of the files in F.
MacrosOf(t, F) == {m \in Macro : \E g \in F : m \in ToSet(t[g])}

\* r is what the walk from f should be while the files in v are being read.
Describes(r, t, K, v, f) ==
  /\ r.ok <=> Good(t, K, f) /\ Closure(t, K, {f}) \cap v = {}
  /\ r.ok => /\ ToSet(r.files) = Closure(t, K, {f})
             /\ ToSet(r.macros) = MacrosOf(t, Closure(t, K, {f}))

\* By induction over the files that are being read: the walk of f succeeds when
\* nothing that f reaches is missing, is being read or reaches itself, and then
\* it holds what f reaches.
LEMMA WalkIs ==
  ASSUME NEW t \in Tree, NEW K, K \subseteq LinkKinds, NEW w, VisitRun(w, t, K)
  PROVE  \A v \in SUBSET Files : \A f \in Files : Describes(w[v][f], t, K, v, f)
<1> DEFINE P == {v \in SUBSET Files : \A f \in Files : Describes(w[v][f], t, K, v, f)}
<1>1. ASSUME NEW v \in SUBSET Files, \A f \in Files \ v : v \cup {f} \in P, NEW f \in Files
      PROVE  Describes(w[v][f], t, K, v, f)
  <2> DEFINE T == Targets(t, f, K)
             One(h) == Closure(t, K, {h})
             D == Closure(t, K, T)
             s == w[v][f]
  <2>1. s = At(w, t, K, v, f)
    BY DEF VisitRun
  <2>2. T \in SUBSET Files /\ One(f) = {f} \cup D
    BY TargetsAre, ClosureOfOne
  <2>3. CASE f \in v
    <3>1. ~s.ok
      BY <2>1, <2>3, BrokenIs DEF At
    <3>2. f \in One(f)
      BY <2>2
    <3> QED
      BY <2>3, <3>1, <3>2 DEF Describes
  <2>4. CASE t[f] = Absent
    <3>1. ~s.ok
      BY <2>1, <2>4, BrokenIs DEF At
    <3>2. ~Good(t, K, f)
      BY <2>4, GoodIs
    <3> QED
      BY <3>1, <3>2 DEF Describes
  <2>5. CASE f \notin v /\ t[f] # Absent
    <3> DEFINE x == v \cup {f}
    <3>1. x \in SUBSET Files /\ x \in P
      BY <1>1, <2>5
    <3>2. PICK inner \in [Files -> Walk] : inner = w[x]
      BY <3>1 DEF VisitRun
    <3>3. \A h \in T : Describes(inner[h], t, K, x, h)
      <4> HIDE DEF x, T
      <4> QED BY <2>2, <3>1, <3>2
    <3>4. SplicedSets(s, t, f, K, inner)
      <4>1. s = Spliced(t, f, K, inner)
        BY <2>1, <2>5, <3>2 DEF At
      <4> QED
        BY <2>5, <4>1, SplicedIsOf
    <3>5. D = UNION {One(h) : h \in T} /\ \A h \in T : One(h) \subseteq Files
      <4>1. \A h \in T : {h} \in SUBSET Files
        BY <2>2
      <4>2. T \in SUBSET Files
        BY <2>2
      <4> HIDE DEF T
      <4>3. Closure(t, K, T) = UNION {Closure(t, K, {h}) : h \in T}
        BY <4>2, ClosureOfAll
      <4>4. \A h \in T : Closure(t, K, {h}) \subseteq Files
        BY <4>1, ClosureIs
      <4> QED
        BY <4>3, <4>4
    <3>6. Good(t, K, f) <=> f \notin D /\ \A h \in T : Good(t, K, h)
      BY <2>5, GoodIs
    <3>7. s.ok <=> \A h \in T : inner[h].ok
      BY <3>4 DEF SplicedSets
    <3>8. s.ok => /\ ToSet(s.files) = {f} \cup FilesVia(inner, T)
                  /\ ToSet(s.macros) = (ToSet(t[f]) \cap Macro) \cup MacrosVia(inner, T)
      BY <3>4 DEF SplicedSets
    <3> HIDE DEF T, One, D, s
    <3>9. s.ok <=> Good(t, K, f) /\ One(f) \cap v = {}
      <4>1. (\A h \in T : inner[h].ok) <=> \A h \in T : Good(t, K, h) /\ One(h) \cap x = {}
        BY <3>3 DEF Describes, One
      <4>2. (\A h \in T : One(h) \cap x = {}) <=> f \notin D /\ D \cap v = {}
        BY <3>5
      <4>3. One(f) \cap v = {} <=> D \cap v = {}
        BY <2>2, <2>5
      <4> QED
        BY <3>6, <3>7, <4>1, <4>2, <4>3
    <3>a. s.ok => ToSet(s.files) = One(f)
      <4> SUFFICES ASSUME s.ok PROVE ToSet(s.files) = One(f)
        OBVIOUS
      <4>1. \A h \in T : ToSet(inner[h].files) = One(h)
        BY <3>3, <3>7 DEF Describes, One
      <4>2. FilesVia(inner, T) = D
        BY <3>5, <4>1 DEF FilesVia
      <4> QED
        BY <2>2, <3>8, <4>2
    <3>b. s.ok => ToSet(s.macros) = MacrosOf(t, One(f))
      <4> SUFFICES ASSUME s.ok PROVE ToSet(s.macros) = MacrosOf(t, One(f))
        OBVIOUS
      <4>1. \A h \in T : ToSet(inner[h].macros) = MacrosOf(t, One(h))
        BY <3>3, <3>7 DEF Describes, One
      <4>2. MacrosVia(inner, T) = MacrosOf(t, D)
        BY <3>5, <4>1 DEF MacrosVia, MacrosOf
      <4>3. MacrosOf(t, {f} \cup D) = (ToSet(t[f]) \cap Macro) \cup MacrosOf(t, D)
        BY DEF MacrosOf
      <4> QED
        BY <2>2, <3>8, <4>2, <4>3
    <3> QED
      BY <3>9, <3>a, <3>b DEF Describes, One, s
  <2> QED
    BY <2>3, <2>4, <2>5
<1>2. ASSUME NEW v \in SUBSET Files, \A f \in Files \ v : v \cup {f} \in P PROVE v \in P
  BY <1>1, <1>2
<1>3. \A v \in SUBSET Files : v \in P
  <2> HIDE DEF P
  <2> QED BY <1>2, OrderAssumption, Leaving
<1> QED
  BY <1>3

\* What the walk from printer.cfg should be.
LEMMA VisitDescribed ==
  ASSUME NEW t \in Tree, NEW K, K \subseteq LinkKinds
  PROVE  Visit(t, K) \in Walk /\ Describes(Visit(t, K), t, K, {}, Root)
<1>1. PICK w : VisitRun(w, t, K) /\ Visit(t, K) = w[{}][Root]
  BY VisitSteps
<1>2. {} \in SUBSET Files /\ Root \in Files
  BY OrderAssumption
<1>3. Describes(w[{}][Root], t, K, {}, Root)
  BY <1>1, <1>2, WalkIs
<1>4. w[{}] \in [Files -> Walk]
  BY <1>1, <1>2 DEF VisitRun
<1> QED
  BY <1>1, <1>2, <1>3, <1>4

-----------------------------------------------------------------------------
(***************************************************************************)
(* The walk that goes into every file once.                                *)
(***************************************************************************)
IsFollowed(u, t, f, seen, visit) ==
  u = [n \in 0 .. Len(t[f]) |->
        IF n = 0 THEN Append(seen, f)
        ELSE LET e == t[f][n]
             IN  IF e.kind \in {"include", "dynamic"} THEN visit[u[n - 1]][e.file]
                                                      ELSE u[n - 1]]

LEMMA FollowedIs ==
  ASSUME NEW t, NEW f, NEW seen, NEW visit, NEW u0, IsFollowed(u0, t, f, seen, visit)
  PROVE  \E u : IsFollowed(u, t, f, seen, visit) /\ Followed(t, f, seen, visit) = u[Len(t[f])]
<1>1. IsFollowed(CHOOSE u : IsFollowed(u, t, f, seen, visit), t, f, seen, visit)
  OBVIOUS
<1>2. Followed(t, f, seen, visit) = (CHOOSE u : IsFollowed(u, t, f, seen, visit))[Len(t[f])]
  BY DEF Followed, IsFollowed
<1> QED
  BY <1>1, <1>2

\* What section e makes of the files seen so far, q.
Saw(q, e, visit) == IF e.kind \in LinkKinds THEN visit[q][e.file] ELSE q

\* The files seen after the first n sections of file f are u[n].
FollowedRun(u, t, f, seen, visit) ==
  /\ \A n \in 0 .. Len(t[f]) : u[n] \in Seq(Files)
  /\ u[0] = Append(seen, f)
  /\ \A n \in 1 .. Len(t[f]) : u[n] = Saw(u[n - 1], t[f][n], visit)

LEMMA FollowedSteps ==
  ASSUME NEW t \in Tree, NEW f \in Files, t[f] # Absent, NEW seen \in Seq(Files),
         NEW visit \in [Seq(Files) -> [Files -> Seq(Files)]]
  PROVE  \E u : FollowedRun(u, t, f, seen, visit) /\ Followed(t, f, seen, visit) = u[Len(t[f])]
<1> DEFINE N == Len(t[f])
           Q == Seq(Files)
           a == Append(seen, f)
           step == [n \in 1 .. N |-> [q \in Q |-> Saw(q, t[f][n], visit)]]
<1>1. N \in Nat /\ a \in Q
  BY TextIs
<1>2. ASSUME NEW n \in 1 .. N, NEW q \in Q PROVE Saw(q, t[f][n], visit) \in Q
  <2>1. t[f][n].kind \in LinkKinds => t[f][n].file \in Files
    BY SectionIs
  <2>2. \A g \in Files : visit[q][g] \in Q
    OBVIOUS
  <2> HIDE DEF Q
  <2> QED
    BY <2>1, <2>2 DEF Saw
<1>3. step \in [1 .. N -> [Q -> Q]]
      /\ \A n \in 1 .. N, q \in Q : step[n][q] = Saw(q, t[f][n], visit)
  <2> HIDE DEF N, Q
  <2> QED BY <1>2
<1> HIDE DEF step
<1>4. PICK u0 : IsRun(u0, N, Q, a, step)
  <2> HIDE DEF N, Q, a
  <2> QED BY <1>1, <1>3, Recursion
<1> HIDE DEF Q
<1>5. IsFollowed(u0, t, f, seen, visit)
  <2> HIDE DEF N, a
  <2>1. u0 = [n \in 0 .. N |-> u0[n]] /\ \A n \in 0 .. N : u0[n] \in Q
    BY <1>4 DEF IsRun
  <2>2. ASSUME NEW n \in 0 .. N
        PROVE  u0[n] = IF n = 0 THEN a ELSE Saw(u0[n - 1], t[f][n], visit)
    <3>1. CASE n = 0
      BY <1>4, <3>1 DEF IsRun
    <3>2. CASE n # 0
      <4>1. n \in 1 .. N /\ n - 1 \in 0 .. N
        BY <1>1, <3>2
      <4>2. u0[n] = step[n][u0[n - 1]] /\ u0[n - 1] \in Q
        BY <1>4, <2>1, <4>1 DEF IsRun
      <4> QED
        BY <1>3, <3>2, <4>1, <4>2
    <3> QED
      BY <3>1, <3>2
  <2>3. u0 = [n \in 0 .. N |-> IF n = 0 THEN a ELSE Saw(u0[n - 1], t[f][n], visit)]
    BY <2>1, <2>2
  <2> QED
    BY <2>3 DEF IsFollowed, Saw, LinkKinds, N, a
<1>6. PICK u : IsFollowed(u, t, f, seen, visit) /\ Followed(t, f, seen, visit) = u[N]
  BY <1>5, FollowedIs
<1>7. u[0] = a /\ \A n \in 1 .. N : u[n] = Saw(u[n - 1], t[f][n], visit)
  <2>1. u = [n \in 0 .. N |-> IF n = 0 THEN a ELSE Saw(u[n - 1], t[f][n], visit)]
    BY <1>6 DEF IsFollowed, Saw, LinkKinds
  <2> HIDE DEF N, a
  <2>2. u[0] = a
    BY <1>1, <2>1
  <2>3. ASSUME NEW n \in 1 .. N PROVE u[n] = Saw(u[n - 1], t[f][n], visit)
    <3>1. n \in 0 .. N /\ n # 0
      BY <1>1
    <3> QED
      BY <2>1, <3>1
  <2> QED
    BY <2>2, <2>3
<1> DEFINE P == {n \in 0 .. N : u[n] \in Q}
<1>8. 0 \in P /\ \A n \in 1 .. N : n - 1 \in P => n \in P
  <2> HIDE DEF N, a
  <2>1. 0 \in P
    BY <1>1, <1>7
  <2>2. ASSUME NEW n \in 1 .. N, n - 1 \in P PROVE n \in P
    <3>1. n \in 0 .. N /\ u[n - 1] \in Q
      BY <1>1, <2>2
    <3>2. u[n] \in Q
      BY <1>2, <1>7, <3>1
    <3> QED
      BY <3>1, <3>2
  <2> QED
    BY <2>1, <2>2
<1>9. \A n \in 0 .. N : u[n] \in Q
  <2>1. \A n \in 0 .. N : n \in P
    <3> HIDE DEF P, N
    <3> QED BY <1>1, <1>8, Induction
  <2> QED
    BY <2>1
<1> QED
  BY <1>6, <1>7, <1>9 DEF FollowedRun, Q

\* What going on from the files q to the files r may do.
Grown(q, r, t) == /\ r \in Seq(Files)
                  /\ ToSet(q) \subseteq ToSet(r)
                  /\ ToSet(r) \subseteq ToSet(q) \cup Listing(t)
                  /\ IsInjective(q) => IsInjective(r)

Growing(t) == {w \in [Seq(Files) -> [Files -> Seq(Files)]] :
                 \A q \in Seq(Files), f \in Files : Grown(q, w[q][f], t)}

LEMMA GrownOnce ==
  ASSUME NEW t \in Tree, NEW f \in Files, t[f] # Absent, NEW seen \in Seq(Files), f \notin ToSet(seen)
  PROVE  Grown(seen, Append(seen, f), t)
<1>1. ToSet(Append(seen, f)) = ToSet(seen) \cup {f} /\ Append(seen, f) \in Seq(Files)
  BY AppendSet
<1>2. IsInjective(seen) => IsInjective(Append(seen, f))
  BY AppendNew
<1> QED
  BY <1>1, <1>2 DEF Grown, Listing

LEMMA GrownRun ==
  ASSUME NEW t \in Tree, NEW f \in Files, t[f] # Absent, NEW seen \in Seq(Files), f \notin ToSet(seen),
         NEW visit \in Growing(t), NEW u, FollowedRun(u, t, f, seen, visit)
  PROVE  \A n \in 0 .. Len(t[f]) : /\ Grown(seen, u[n], t)
                                   /\ ToSet(seen) \cup {f} \subseteq ToSet(u[n])
<1> DEFINE N == Len(t[f])
           Q(n) == Grown(seen, u[n], t) /\ ToSet(seen) \cup {f} \subseteq ToSet(u[n])
           P == {n \in 0 .. N : Q(n)}
<1>1. N \in Nat
  BY TextIs
<1>2. Q(0)
  <2>1. u[0] = Append(seen, f)
    BY DEF FollowedRun
  <2>2. ToSet(Append(seen, f)) = ToSet(seen) \cup {f}
    BY AppendSet
  <2>3. Grown(seen, Append(seen, f), t)
    BY GrownOnce
  <2> QED
    BY <2>1, <2>2, <2>3
<1>3. ASSUME NEW n \in 1 .. N, Q(n - 1) PROVE Q(n)
  <2> DEFINE q == u[n - 1]
             e == t[f][n]
  <2>1. n - 1 \in 0 .. N
    BY <1>1
  <2>2. q \in Seq(Files) /\ u[n] = Saw(q, e, visit)
    BY <2>1 DEF FollowedRun
  <2>3. e.kind \in LinkKinds => e.file \in Files
    BY SectionIs
  <2>4. Q(n - 1)
    BY <1>3
  <2> HIDE DEF e
  <2>5. CASE e.kind \in LinkKinds
    <3>1. u[n] = visit[q][e.file]
      BY <2>2, <2>5 DEF Saw
    <3>2. Grown(q, visit[q][e.file], t)
      <4> HIDE DEF q
      <4> QED BY <2>2, <2>3, <2>5 DEF Growing
    <3> QED
      BY <2>4, <3>1, <3>2 DEF Grown
  <2>6. CASE e.kind \notin LinkKinds
    <3>1. u[n] = q
      BY <2>2, <2>6 DEF Saw
    <3> QED
      BY <2>4, <3>1
  <2> QED
    BY <2>5, <2>6
<1>4. 0 \in P /\ \A n \in 1 .. N : n - 1 \in P => n \in P
  <2> HIDE DEF Q, N
  <2>1. 0 \in P
    BY <1>1, <1>2
  <2>2. ASSUME NEW n \in 1 .. N, n - 1 \in P PROVE n \in P
    <3>1. n \in 0 .. N /\ Q(n - 1)
      BY <1>1, <2>2
    <3> QED
      BY <1>3, <3>1
  <2> QED
    BY <2>1, <2>2
<1>5. \A n \in 0 .. N : n \in P
  <2> HIDE DEF P, N
  <2> QED BY <1>1, <1>4, Induction
<1> QED
  BY <1>5

\* Only what the other files lead to on top of seen and f matters.
LEMMA FollowedOf ==
  ASSUME NEW t \in Tree, NEW f \in Files, t[f] # Absent, NEW seen \in Seq(Files), f \notin ToSet(seen),
         NEW visit \in Growing(t), NEW other,
         \A q \in Seq(Files) : ToSet(seen) \cup {f} \subseteq ToSet(q) => other[q] = visit[q]
  PROVE  Followed(t, f, seen, other) = Followed(t, f, seen, visit)
<1> DEFINE N == Len(t[f])
           a == Append(seen, f)
<1>1. N \in Nat /\ visit \in [Seq(Files) -> [Files -> Seq(Files)]]
  BY TextIs DEF Growing
<1>2. PICK u : FollowedRun(u, t, f, seen, visit) /\ Followed(t, f, seen, visit) = u[N]
  BY <1>1, FollowedSteps
<1>3. \A n \in 0 .. N : u[n] \in Seq(Files) /\ ToSet(seen) \cup {f} \subseteq ToSet(u[n])
  <2>1. \A n \in 0 .. N : u[n] \in Seq(Files)
    BY <1>2 DEF FollowedRun
  <2>2. \A n \in 0 .. N : ToSet(seen) \cup {f} \subseteq ToSet(u[n])
    BY <1>2, GrownRun
  <2> HIDE DEF N
  <2> QED
    BY <2>1, <2>2
<1>4. u[0] = a /\ \A n \in 1 .. N : u[n] = Saw(u[n - 1], t[f][n], other)
  <2>1. u[0] = a
    BY <1>2 DEF FollowedRun
  <2>2. ASSUME NEW n \in 1 .. N PROVE u[n] = Saw(u[n - 1], t[f][n], other)
    <3>1. n - 1 \in 0 .. N
      BY <1>1
    <3>2. u[n] = Saw(u[n - 1], t[f][n], visit)
      BY <1>2 DEF FollowedRun
    <3>3. other[u[n - 1]] = visit[u[n - 1]]
      <4> HIDE DEF N
      <4> QED BY <1>3, <3>1
    <3> QED
      BY <3>2, <3>3 DEF Saw
  <2> QED
    BY <2>1, <2>2
<1> DEFINE u1 == [n \in 0 .. N |-> u[n]]
<1>5. IsFollowed(u1, t, f, seen, other)
  <2>1. ASSUME NEW n \in 0 .. N
        PROVE  u1[n] = IF n = 0 THEN a ELSE Saw(u1[n - 1], t[f][n], other)
    <3> HIDE DEF N, a
    <3>1. CASE n = 0
      BY <1>4, <3>1
    <3>2. CASE n # 0
      <4>1. n \in 1 .. N /\ n - 1 \in 0 .. N
        BY <1>1, <3>2
      <4>2. u1[n] = u[n] /\ u1[n - 1] = u[n - 1]
        BY <4>1
      <4> HIDE DEF u1
      <4> QED
        BY <1>4, <3>2, <4>1, <4>2
    <3> QED
      BY <3>1, <3>2
  <2>2. u1 = [n \in 0 .. N |-> u1[n]]
    OBVIOUS
  <2> HIDE DEF u1
  <2>3. u1 = [n \in 0 .. N |-> IF n = 0 THEN a ELSE Saw(u1[n - 1], t[f][n], other)]
    <3> HIDE DEF N, a
    <3> QED BY <2>1, <2>2
  <2> QED
    BY <2>3 DEF IsFollowed, Saw, LinkKinds
<1> HIDE DEF u1
<1>6. PICK u2 : IsFollowed(u2, t, f, seen, other) /\ Followed(t, f, seen, other) = u2[N]
  BY <1>5, FollowedIs
<1>7. u2[0] = a /\ \A n \in 1 .. N : u2[n] = Saw(u2[n - 1], t[f][n], other)
  <2>1. u2 = [n \in 0 .. N |-> IF n = 0 THEN a ELSE Saw(u2[n - 1], t[f][n], other)]
    BY <1>6 DEF IsFollowed, Saw, LinkKinds
  <2> HIDE DEF N, a
  <2>2. u2[0] = a
    BY <1>1, <2>1
  <2>3. ASSUME NEW n \in 1 .. N PROVE u2[n] = Saw(u2[n - 1], t[f][n], other)
    <3>1. n \in 0 .. N /\ n # 0
      BY <1>1
    <3> QED
      BY <2>1, <3>1
  <2> QED
    BY <2>2, <2>3
<1> DEFINE P == {n \in 0 .. N : u2[n] = u[n]}
<1>8. 0 \in P /\ \A n \in 1 .. N : n - 1 \in P => n \in P
  <2> HIDE DEF N, a
  <2>1. 0 \in P
    BY <1>1, <1>4, <1>7
  <2>2. ASSUME NEW n \in 1 .. N, n - 1 \in P PROVE n \in P
    <3>1. n \in 0 .. N /\ u2[n - 1] = u[n - 1]
      BY <1>1, <2>2
    <3>2. u2[n] = u[n]
      BY <1>4, <1>7, <3>1
    <3> QED
      BY <3>1, <3>2
  <2> QED
    BY <2>1, <2>2
<1>9. \A n \in 0 .. N : n \in P
  <2> HIDE DEF P, N
  <2> QED BY <1>1, <1>8, Induction
<1>a. u2[N] = u[N]
  <2> HIDE DEF N
  <2> QED BY <1>1, <1>9
<1> QED
  BY <1>2, <1>6, <1>a

\* What is seen once file f has been visited, if w has what is seen after more.
OnceAt(w, t, seen, f) == IF f \in ToSet(seen) \/ t[f] = Absent THEN seen
                         ELSE Followed(t, f, seen, w)

LEMMA OnceAtGrows ==
  ASSUME NEW t \in Tree, NEW w \in Growing(t), NEW seen \in Seq(Files), NEW f \in Files
  PROVE  Grown(seen, OnceAt(w, t, seen, f), t)
<1>1. CASE f \in ToSet(seen) \/ t[f] = Absent
  BY <1>1 DEF OnceAt, Grown
<1>2. CASE f \notin ToSet(seen) /\ t[f] # Absent
  <2>1. w \in [Seq(Files) -> [Files -> Seq(Files)]]
    BY DEF Growing
  <2>2. PICK u : FollowedRun(u, t, f, seen, w) /\ Followed(t, f, seen, w) = u[Len(t[f])]
    BY <1>2, <2>1, FollowedSteps
  <2>3. Len(t[f]) \in 0 .. Len(t[f])
    BY <1>2, TextIs
  <2>4. Grown(seen, u[Len(t[f])], t)
    BY <1>2, <2>2, <2>3, GrownRun
  <2> QED
    BY <1>2, <2>2, <2>4 DEF OnceAt
<1> QED
  BY <1>1, <1>2

IsOnce(w, t) ==
  w = [seen \in Seq(Files) |->
        [f \in Files |-> IF f \in ToSet(seen) \/ t[f] = Absent THEN seen
                         ELSE Followed(t, f, seen, w)]]

LEMMA OnceIs ==
  ASSUME NEW t, NEW w0, IsOnce(w0, t)
  PROVE  \E w : IsOnce(w, t) /\ LoadedOnce(t) = w[<< >>][Root]
<1>1. IsOnce(CHOOSE w : IsOnce(w, t), t)
  OBVIOUS
<1>2. LoadedOnce(t) = (CHOOSE w : IsOnce(w, t))[<< >>][Root]
  BY DEF LoadedOnce, IsOnce
<1> QED
  BY <1>1, <1>2

LEMMA OnceExists ==
  ASSUME NEW t \in Tree
  PROVE  \E w \in Growing(t) : IsOnce(w, t)
<1> DEFINE C == Cardinality(Files)
           S == Growing(t)
           Round(w) == [q \in Seq(Files) |-> [f \in Files |-> OnceAt(w, t, q, f)]]
           step == [n \in 1 .. C |-> [w \in S |-> Round(w)]]
           a == [q \in Seq(Files) |-> [f \in Files |-> q]]
<1>1. C \in Nat
  BY OrderAssumption, FS_CardinalityType
<1>2. a \in S
  BY DEF Growing, Grown
<1>3. ASSUME NEW w \in S PROVE Round(w) \in S
  <2>1. \A q \in Seq(Files), f \in Files : Grown(q, OnceAt(w, t, q, f), t)
    BY OnceAtGrows
  <2>2. \A q \in Seq(Files), f \in Files : OnceAt(w, t, q, f) \in Seq(Files)
    BY <2>1 DEF Grown
  <2>3. Round(w) \in [Seq(Files) -> [Files -> Seq(Files)]]
    BY <2>2
  <2>4. \A q \in Seq(Files), f \in Files : Round(w)[q][f] = OnceAt(w, t, q, f)
    OBVIOUS
  <2> HIDE DEF Round
  <2> QED
    BY <2>1, <2>3, <2>4 DEF Growing
<1>4. step \in [1 .. C -> [S -> S]] /\ \A n \in 1 .. C, w \in S : step[n][w] = Round(w)
  <2> HIDE DEF S, Round, C
  <2> QED BY <1>3
<1> HIDE DEF step
<1>5. PICK o : IsRun(o, C, S, a, step)
  <2> HIDE DEF S, C, a
  <2> QED BY <1>1, <1>2, <1>4, Recursion
<1>6. o[0] = a /\ \A n \in 0 .. C : o[n] \in S
  <2> HIDE DEF S, C, a
  <2> QED BY <1>5 DEF IsRun
<1>7. \A n \in 1 .. C : o[n] = Round(o[n - 1])
  <2> HIDE DEF S, Round, C, a
  <2> SUFFICES ASSUME NEW n \in 1 .. C PROVE o[n] = Round(o[n - 1])
    OBVIOUS
  <2>1. n - 1 \in 0 .. C
    BY <1>1
  <2>2. o[n] = step[n][o[n - 1]]
    BY <1>5 DEF IsRun
  <2> QED
    BY <1>4, <1>6, <2>1, <2>2
<1> DEFINE Left(q) == Cardinality(Files \ ToSet(q))
<1>8. \A v \in SUBSET Files : IsFiniteSet(Files \ v) /\ Cardinality(Files \ v) \in 0 .. C
  BY OrderAssumption, <1>1, FS_Subset, FS_CardinalityType
<1>s. \A q \in Seq(Files) : ToSet(q) \in SUBSET Files
  BY DEF ToSet
<1>r. \A w : \A q \in Seq(Files) : Round(w)[q] = [f \in Files |-> OnceAt(w, t, q, f)]
  OBVIOUS
<1> DEFINE P == {n \in 0 .. C : \A q \in Seq(Files) : Left(q) <= n => Round(o[n])[q] = o[n][q]}
<1>9. 0 \in P
  <2> SUFFICES ASSUME NEW q \in Seq(Files), Left(q) <= 0
               PROVE  Round(o[0])[q] = o[0][q]
    <3> HIDE DEF Round, C, Left
    <3>1. 0 \in 0 .. C
      BY <1>1
    <3> QED
      BY <3>1
  <2>1. Files \ ToSet(q) = {}
    BY <1>8, <1>s, FS_EmptySet
  <2>2. \A f \in Files : OnceAt(o[0], t, q, f) = q
    BY <2>1 DEF OnceAt
  <2> QED
    BY <1>6, <1>r, <2>2
<1>a. ASSUME NEW n \in 1 .. C, n - 1 \in P PROVE n \in P
  <2>1. n \in 0 .. C /\ n - 1 \in 0 .. C
    BY <1>1
  <2> SUFFICES ASSUME NEW q \in Seq(Files), Left(q) <= n
               PROVE  Round(o[n])[q] = o[n][q]
    BY <2>1
  <2>2. ASSUME NEW f \in Files PROVE OnceAt(o[n], t, q, f) = OnceAt(o[n - 1], t, q, f)
    <3>1. CASE f \in ToSet(q) \/ t[f] = Absent
      BY <3>1 DEF OnceAt
    <3>2. CASE f \notin ToSet(q) /\ t[f] # Absent
      <4> DEFINE v == ToSet(q)
                 x == v \cup {f}
      <4>1. v \in SUBSET Files /\ x \in SUBSET Files /\ Files \ x = (Files \ v) \ {f}
        BY <1>s
      <4>2. Cardinality(Files \ x) = Cardinality(Files \ v) - 1
        BY <1>8, <3>2, <4>1, FS_RemoveElement
      <4>3. Cardinality(Files \ x) <= n - 1
        <5> HIDE DEF C, x
        <5>1. Cardinality(Files \ v) <= n
          OBVIOUS
        <5> HIDE DEF v
        <5>2. PICK k \in 0 .. C : k = Cardinality(Files \ v)
          BY <1>8, <4>1
        <5>3. k <= n /\ Cardinality(Files \ x) = k - 1
          BY <4>2, <5>1, <5>2
        <5> QED
          BY <1>1, <2>1, <5>3
      <4>4. ASSUME NEW p \in Seq(Files), x \subseteq ToSet(p) PROVE o[n][p] = o[n - 1][p]
        <5>1. ToSet(p) \in SUBSET Files /\ Files \ ToSet(p) \subseteq Files \ x
          BY <1>s, <4>4
        <5>2. Cardinality(Files \ ToSet(p)) <= Cardinality(Files \ x)
          <6> HIDE DEF x
          <6> QED BY <1>8, <4>1, <5>1, FS_Subset
        <5>3. Left(p) <= n - 1
          <6> HIDE DEF x, C
          <6>1. PICK k \in 0 .. C : k = Cardinality(Files \ ToSet(p))
            BY <1>8, <5>1
          <6>2. PICK j \in 0 .. C : j = Cardinality(Files \ x)
            BY <1>8, <4>1
          <6>3. k <= j /\ j <= n - 1
            BY <4>3, <5>2, <6>1, <6>2
          <6>4. k <= n - 1
            BY <1>1, <2>1, <6>3
          <6> QED
            BY <6>1, <6>4
        <5>4. Round(o[n - 1])[p] = o[n - 1][p]
          <6> HIDE DEF Round, Left, C
          <6> QED BY <1>a, <5>3
        <5> HIDE DEF Round
        <5> QED
          BY <1>7, <5>4
      <4>5. o[n - 1] \in Growing(t)
        BY <1>6, <2>1
      <4>6. Followed(t, f, q, o[n]) = Followed(t, f, q, o[n - 1])
        <5> HIDE DEF C
        <5> QED BY <3>2, <4>4, <4>5, FollowedOf
      <4> QED
        BY <3>2, <4>6 DEF OnceAt
    <3> QED
      BY <3>1, <3>2
  <2>4. o[n] = Round(o[n - 1])
    BY <1>7
  <2>5. Round(o[n])[q] = Round(o[n - 1])[q]
    BY <1>r, <2>2
  <2> HIDE DEF Round
  <2> QED
    BY <2>4, <2>5
<1>b. C \in P
  <2>1. \A n \in 0 .. C : n \in P
    <3> HIDE DEF P, C
    <3> QED BY <1>1, <1>9, <1>a, Induction
  <2> HIDE DEF P
  <2> QED BY <1>1, <2>1
<1>c. \A q \in Seq(Files) : Round(o[C])[q] = o[C][q]
  <2> HIDE DEF Round
  <2>1. ASSUME NEW q \in Seq(Files) PROVE Left(q) <= C
    <3> HIDE DEF C
    <3>1. PICK k \in 0 .. C : k = Cardinality(Files \ ToSet(q))
      BY <1>8, <1>s
    <3>2. k <= C
      BY <1>1
    <3> QED
      BY <3>1, <3>2
  <2> QED
    BY <1>b, <2>1
<1>d. o[C] = Round(o[C]) /\ o[C] \in Growing(t)
  <2>1. o[C] \in S
    <3> HIDE DEF S, C, a
    <3> QED BY <1>1, <1>6
  <2>2. o[C] \in [Seq(Files) -> [Files -> Seq(Files)]]
    BY <2>1 DEF Growing
  <2>3. o[C] = [q \in Seq(Files) |-> o[C][q]]
    <3> HIDE DEF C
    <3> QED BY <2>2
  <2>4. o[C] = [q \in Seq(Files) |-> Round(o[C])[q]]
    <3> HIDE DEF C, Round
    <3> QED BY <1>c, <2>3
  <2>5. Round(o[C]) = [q \in Seq(Files) |-> Round(o[C])[q]]
    OBVIOUS
  <2> HIDE DEF Round, C
  <2> QED
    BY <2>1, <2>4, <2>5
<1>e. IsOnce(o[C], t)
  BY <1>d DEF IsOnce, OnceAt
<1> QED
  BY <1>d, <1>e

\* What the definition of LoadedOnce says.
LEMMA OnceSteps ==
  ASSUME NEW t \in Tree
  PROVE  \E w \in Growing(t) : /\ \A q \in Seq(Files), f \in Files : w[q][f] = OnceAt(w, t, q, f)
                               /\ LoadedOnce(t) = w[<< >>][Root]
<1>1. PICK w0 \in Growing(t) : IsOnce(w0, t)
  BY OnceExists
<1>2. PICK w : IsOnce(w, t) /\ LoadedOnce(t) = w[<< >>][Root]
  BY <1>1, OnceIs
<1>3. w = [q \in Seq(Files) |-> [f \in Files |-> OnceAt(w, t, q, f)]]
  BY <1>2 DEF IsOnce, OnceAt
<1>4. w0 = [q \in Seq(Files) |-> [f \in Files |-> OnceAt(w0, t, q, f)]]
  BY <1>1 DEF IsOnce, OnceAt
<1>5. \A q \in Seq(Files) : /\ w[q] = [f \in Files |-> OnceAt(w, t, q, f)]
                            /\ w0[q] = [f \in Files |-> OnceAt(w0, t, q, f)]
  BY <1>3, <1>4
<1> DEFINE P == {v \in SUBSET Files : \A q \in Seq(Files) : v \subseteq ToSet(q) => w[q] = w0[q]}
<1>6. ASSUME NEW v \in SUBSET Files, \A f \in Files \ v : v \cup {f} \in P PROVE v \in P
  <2> SUFFICES ASSUME NEW q \in Seq(Files), v \subseteq ToSet(q) PROVE w[q] = w0[q]
    OBVIOUS
  <2>1. ASSUME NEW f \in Files PROVE OnceAt(w, t, q, f) = OnceAt(w0, t, q, f)
    <3>1. CASE f \in ToSet(q) \/ t[f] = Absent
      BY <3>1 DEF OnceAt
    <3>2. CASE f \notin ToSet(q) /\ t[f] # Absent
      <4>1. v \cup {f} \in P
        BY <1>6, <3>2
      <4>2. \A p \in Seq(Files) : ToSet(q) \cup {f} \subseteq ToSet(p) => w[p] = w0[p]
        BY <4>1
      <4>3. Followed(t, f, q, w) = Followed(t, f, q, w0)
        BY <3>2, <4>2, FollowedOf
      <4> QED
        BY <3>2, <4>3 DEF OnceAt
    <3> QED
      BY <3>1, <3>2
  <2> QED
    BY <1>5, <2>1
<1>7. {} \in P
  <2>1. \A v \in SUBSET Files : v \in P
    <3> HIDE DEF P
    <3> QED BY <1>6, OrderAssumption, Leaving
  <2> HIDE DEF P
  <2> QED BY <2>1
<1>8. \A q \in Seq(Files) : w[q] = w0[q]
  BY <1>7
<1>9. LoadedOnce(t) = w0[<< >>][Root]
  <2>1. << >> \in Seq(Files)
    OBVIOUS
  <2> QED
    BY <1>2, <1>8, <2>1
<1>a. \A q \in Seq(Files), f \in Files : w0[q][f] = OnceAt(w0, t, q, f)
  BY <1>5
<1> QED
  BY <1>9, <1>a

\* What a seen file leads to is seen too, if the file is not being read.
Known(t, seen, v) == \A g \in ToSet(seen) \ v : Closure(t, LinkKinds, {g}) \subseteq ToSet(seen)

\* The order of the files that are new in walk r, after those seen already.
LEMMA KnownAfter ==
  ASSUME NEW t \in Tree, NEW x, NEW q \in Seq(Files), NEW h \in Files, NEW fs \in Seq(Files),
         NEW r \in Seq(Files),
         Known(t, q, x), ToSet(fs) = Closure(t, LinkKinds, {h}), ToSet(r) = ToSet(q) \cup ToSet(fs)
  PROVE  Known(t, r, x)
<1> DEFINE D == Closure(t, LinkKinds, {h})
<1> SUFFICES ASSUME NEW g \in ToSet(r) \ x PROVE Closure(t, LinkKinds, {g}) \subseteq ToSet(r)
  BY DEF Known
<1>1. CASE g \in ToSet(q)
  BY <1>1 DEF Known
<1>2. CASE g \in D
  BY <1>2, ClosureOfClosure
<1> QED
  BY <1>1, <1>2

LEMMA ConcatLonger ==
  ASSUME NEW U, NEW a \in Seq(U), NEW b \in Seq(U), NEW c \in Seq(U)
  PROVE  a \o (b \o c) = (a \o b) \o c /\ a \o b \in Seq(U) /\ a \o << >> = a /\ << >> \o a = a
OBVIOUS

\* What a section does to the two walks.  Their files r.files and q agree.
Agreed(t, seen, x, r, q) == r.ok => /\ q = FirstOccurrences(seen \o r.files)
                                    /\ IsInjective(q) /\ Known(t, q, x)

LEMMA AgreedStays ==
  ASSUME NEW t \in Tree, NEW f \in Files, t[f] # Absent, NEW n \in 1 .. Len(t[f]),
         NEW seen \in Seq(Files), NEW x \in SUBSET Files,
         NEW inner \in [Files -> Walk], NEW o \in Growing(t),
         \A h \in Files : Describes(inner[h], t, LinkKinds, x, h),
         \A h \in Files : \A s \in Seq(Files) :
           inner[h].ok /\ IsInjective(s) /\ Known(t, s, x) =>
             o[s][h] = FirstOccurrences(s \o inner[h].files),
         NEW r \in Walk, NEW q \in Seq(Files), Agreed(t, seen, x, r, q)
  PROVE  Agreed(t, seen, x, Took(r, t[f][n], LinkKinds, inner), Saw(q, t[f][n], o))
<1> DEFINE e == t[f][n]
           r1 == Took(r, e, LinkKinds, inner)
           q1 == Saw(q, e, o)
<1>1. (e.kind = "macro" <=> e \in Macro) /\ (e.kind \in LinkKinds => e.file \in Files)
  BY SectionIs
<1>2. "macro" \notin LinkKinds
  BY DEF LinkKinds
<1> SUFFICES ASSUME r1.ok
             PROVE  /\ q1 = FirstOccurrences(seen \o r1.files)
                    /\ IsInjective(q1) /\ Known(t, q1, x)
  BY DEF Agreed
<1> HIDE DEF e
<1>3. r.files \in Seq(Files)
  BY DEF Walk
<1>4. CASE e.kind = "macro"
  <2>1. << >> \in Seq(Files) /\ <<e>> \in Seq(Macro)
    BY <1>1, <1>4
  <2>2. PICK m \in Walk : m = Found(<< >>, <<e>>) /\ m.ok /\ m.files = << >>
    BY <2>1, FoundIs
  <2>3. r1 = Then(r, m) /\ q1 = q
    BY <1>2, <1>4, <2>2 DEF Took, Saw
  <2>4. /\ Then(r, m).ok <=> r.ok /\ m.ok
        /\ r.ok /\ m.ok => Then(r, m).files = r.files \o m.files
    BY ThenIs
  <2>5. r.files \o m.files = r.files
    BY <1>3, <2>2, ConcatLonger
  <2>6. r.ok /\ r1.files = r.files
    BY <2>2, <2>3, <2>4, <2>5
  <2> HIDE DEF r1, q1
  <2> QED
    BY <2>3, <2>6 DEF Agreed
<1>5. CASE e.kind \in LinkKinds
  <2> DEFINE h == e.file
             m == inner[h]
  <2>1. h \in Files /\ m \in Walk
    BY <1>1, <1>5
  <2>2. m.files \in Seq(Files)
    BY <2>1 DEF Walk
  <2>3. r1 = Then(r, m) /\ q1 = o[q][h]
    BY <1>2, <1>5 DEF Took, Saw
  <2> HIDE DEF h
  <2>d. Describes(m, t, LinkKinds, x, h)
    BY <2>1
  <2>i. m.ok /\ IsInjective(q) /\ Known(t, q, x) => o[q][h] = FirstOccurrences(q \o m.files)
    BY <2>1
  <2> HIDE DEF m
  <2>4. /\ Then(r, m).ok <=> r.ok /\ m.ok
        /\ r.ok /\ m.ok => Then(r, m).files = r.files \o m.files
    BY <2>1, ThenIs
  <2>5. r.ok /\ m.ok /\ r1.files = r.files \o m.files
    BY <2>3, <2>4
  <2>6. q = FirstOccurrences(seen \o r.files) /\ IsInjective(q) /\ Known(t, q, x)
    BY <2>5 DEF Agreed
  <2> HIDE DEF r1, q1
  <2>7. q1 = FirstOccurrences(q \o m.files)
    BY <2>3, <2>5, <2>6, <2>i
  <2> DEFINE a == seen \o r.files
             c == q \o m.files
  <2>8. a \in Seq(Files) /\ c \in Seq(Files) /\ seen \o (r.files \o m.files) = a \o m.files
    <3>0. PICK rf \in Seq(Files), mf \in Seq(Files) : rf = r.files /\ mf = m.files
      BY <1>3, <2>2
    <3>a. seen \o (rf \o mf) = (seen \o rf) \o mf /\ seen \o rf \in Seq(Files)
      BY ConcatLonger
    <3>1. a \in Seq(Files) /\ seen \o (r.files \o m.files) = a \o m.files
      BY <3>0, <3>a
    <3>2. c \in Seq(Files)
      <4> HIDE DEF a
      <4> QED BY <2>2, ConcatLonger
    <3> QED
      BY <3>1, <3>2
  <2>9. FirstOccurrences(c) = FirstOccurrences(a \o m.files)
    <3>1. c = FirstOccurrences(a) \o m.files
      BY <2>6
    <3> HIDE DEF a, c
    <3> QED
      BY <2>2, <2>8, <3>1, FirstOfFirst
  <2>a. ToSet(c) = ToSet(q) \cup ToSet(m.files)
    BY <2>2, ConcatSet
  <2> HIDE DEF a, c
  <2>b. /\ FirstOccurrences(c) \in Seq(Files) /\ IsInjective(FirstOccurrences(c))
        /\ ToSet(FirstOccurrences(c)) = ToSet(c)
    BY <2>8, FirstSet
  <2>c. q1 = FirstOccurrences(c)
    BY <2>7 DEF c
  <2>e. ToSet(m.files) = Closure(t, LinkKinds, {h})
    BY <2>5, <2>d DEF Describes
  <2>f. Known(t, q1, x)
    BY <2>1, <2>2, <2>6, <2>a, <2>b, <2>c, <2>e, KnownAfter
  <2>g. q1 = FirstOccurrences(seen \o r1.files)
    BY <2>5, <2>8, <2>9, <2>c
  <2> QED
    BY <2>b, <2>c, <2>f, <2>g
<1>6. CASE e.kind # "macro" /\ e.kind \notin LinkKinds
  <2>1. r1 = r /\ q1 = q
    BY <1>6 DEF Took, Saw
  <2> HIDE DEF r1, q1
  <2> QED
    BY <2>1 DEF Agreed
<1> QED
  BY <1>4, <1>5, <1>6

\* The walk that visits every file once sees the files in the order in which the
\* other walk first reads them.
LEMMA OnceIsFirst ==
  ASSUME NEW t \in Tree, NEW w, VisitRun(w, t, LinkKinds),
         NEW o \in Growing(t), \A q \in Seq(Files), f \in Files : o[q][f] = OnceAt(o, t, q, f)
  PROVE  \A v \in SUBSET Files : \A f \in Files : \A q \in Seq(Files) :
           w[v][f].ok /\ IsInjective(q) /\ Known(t, q, v) =>
             o[q][f] = FirstOccurrences(q \o w[v][f].files)
<1> DEFINE Same(v) == \A f \in Files : \A q \in Seq(Files) :
                        w[v][f].ok /\ IsInjective(q) /\ Known(t, q, v) =>
                          o[q][f] = FirstOccurrences(q \o w[v][f].files)
           P == {v \in SUBSET Files : Same(v)}
<1>k. LinkKinds \subseteq LinkKinds
  OBVIOUS
<1>1. ASSUME NEW v \in SUBSET Files, \A f \in Files \ v : Same(v \cup {f}),
             NEW f \in Files, NEW seen \in Seq(Files),
             w[v][f].ok, IsInjective(seen), Known(t, seen, v)
      PROVE  o[seen][f] = FirstOccurrences(seen \o w[v][f].files)
  <2> DEFINE s == w[v][f]
             D == Closure(t, LinkKinds, {f})
             x == v \cup {f}
             N == Len(t[f])
  <2>1. Describes(s, t, LinkKinds, v, f) /\ s \in Walk /\ s = At(w, t, LinkKinds, v, f)
    <3>1. Describes(s, t, LinkKinds, v, f)
      BY <1>k, WalkIs
    <3>2. w[v] \in [Files -> Walk] /\ s = At(w, t, LinkKinds, v, f)
      BY DEF VisitRun
    <3> QED
      BY <3>1, <3>2
  <2>2. f \in D
    BY <1>k, ClosureIs
  <2>3. D \cap v = {} /\ ToSet(s.files) = D /\ s.files \in Seq(Files)
    BY <1>1, <2>1 DEF Describes, Walk
  <2>4. f \notin v /\ t[f] # Absent
    <3>1. t[f] # Absent
      BY <1>1, <2>1, BrokenIs DEF At
    <3> QED
      BY <2>2, <2>3, <3>1
  <2>5. CASE f \in ToSet(seen)
    <3>1. ToSet(s.files) \subseteq ToSet(seen)
      BY <1>1, <2>3, <2>4, <2>5 DEF Known
    <3>2. FirstOccurrences(seen \o s.files) = FirstOccurrences(seen)
      BY <2>3, <3>1, FirstOfKnown
    <3>3. FirstOccurrences(seen) = seen
      BY <1>1, FirstOfInjective
    <3>4. o[seen][f] = seen
      BY <2>5 DEF OnceAt
    <3> QED
      BY <3>2, <3>3, <3>4
  <2>6. CASE f \notin ToSet(seen)
    <3>1. x \in SUBSET Files /\ Same(x)
      BY <1>1, <2>4
    <3>2. PICK inner \in [Files -> Walk] : inner = w[x]
      BY <3>1 DEF VisitRun
    <3>3. PICK U : SplicedRun(U, t, f, LinkKinds, inner) /\ s = U[N]
      <4>1. s = Spliced(t, f, LinkKinds, inner)
        BY <2>1, <2>4, <3>2 DEF At
      <4> QED
        BY <1>k, <2>4, <4>1, SplicedSteps
    <3>4. PICK u : FollowedRun(u, t, f, seen, o) /\ o[seen][f] = u[N]
      <4>1. o \in [Seq(Files) -> [Files -> Seq(Files)]]
        BY DEF Growing
      <4>2. o[seen][f] = Followed(t, f, seen, o)
        BY <2>4, <2>6 DEF OnceAt
      <4>3. PICK u : FollowedRun(u, t, f, seen, o) /\ Followed(t, f, seen, o) = u[Len(t[f])]
        BY <2>4, <4>1, FollowedSteps
      <4> QED
        BY <4>2, <4>3
    <3>5. N \in Nat
      BY <2>4, TextIs
    <3>6. \A h \in Files : Describes(inner[h], t, LinkKinds, x, h)
      <4> HIDE DEF x
      <4> QED BY <1>k, <3>1, <3>2, WalkIs
    <3>7. \A h \in Files : \A q \in Seq(Files) :
            inner[h].ok /\ IsInjective(q) /\ Known(t, q, x) =>
              o[q][h] = FirstOccurrences(q \o inner[h].files)
      BY <3>1, <3>2
    <3> DEFINE Q(n) == Agreed(t, seen, x, U[n], u[n])
               R == {n \in 0 .. N : Q(n)}
    <3>8. Q(0)
      <4> DEFINE b == Append(seen, f)
      <4>1. U[0] = Found(<<f>>, << >>) /\ u[0] = b
        BY <3>3, <3>4 DEF SplicedRun, FollowedRun
      <4>2. U[0].files = <<f>>
        BY <4>1 DEF Found
      <4>3. b \in Seq(Files) /\ IsInjective(b) /\ ToSet(b) = ToSet(seen) \cup {f}
        BY <1>1, <2>6, AppendNew, AppendSet
      <4>4. seen \o <<f>> = b
        OBVIOUS
      <4> HIDE DEF b
      <4>5. FirstOccurrences(b) = b
        BY <4>3, FirstOfInjective
      <4>6. Known(t, b, x)
        BY <1>1, <4>3 DEF Known
      <4> QED
        BY <4>1, <4>2, <4>3, <4>4, <4>5, <4>6 DEF Agreed
    <3>9. ASSUME NEW n \in 1 .. N, Q(n - 1) PROVE Q(n)
      <4>1. n - 1 \in 0 .. N
        BY <3>5
      <4>2. /\ U[n - 1] \in Walk
            /\ U[n] = Took(U[n - 1], t[f][n], LinkKinds, inner)
        BY <3>3, <4>1 DEF SplicedRun
      <4>3. /\ u[n - 1] \in Seq(Files)
            /\ u[n] = Saw(u[n - 1], t[f][n], o)
        BY <3>4, <4>1 DEF FollowedRun
      <4>4. PICK r \in Walk, q \in Seq(Files) : r = U[n - 1] /\ q = u[n - 1]
        BY <4>2, <4>3
      <4>5. Agreed(t, seen, x, r, q)
        BY <3>9, <4>4
      <4> HIDE DEF x
      <4>6. Agreed(t, seen, x, Took(r, t[f][n], LinkKinds, inner), Saw(q, t[f][n], o))
        BY <2>4, <3>1, <3>6, <3>7, <4>5, AgreedStays
      <4> QED
        BY <4>2, <4>3, <4>4, <4>6
    <3>a. 0 \in R /\ \A n \in 1 .. N : n - 1 \in R => n \in R
      <4> HIDE DEF Q, N
      <4>1. 0 \in R
        BY <3>5, <3>8
      <4>2. ASSUME NEW n \in 1 .. N, n - 1 \in R PROVE n \in R
        <5>1. n \in 0 .. N /\ Q(n - 1)
          BY <3>5, <4>2
        <5> QED
          BY <3>9, <5>1
      <4> QED
        BY <4>1, <4>2
    <3>b. Q(N)
      <4>1. \A n \in 0 .. N : n \in R
        <5> HIDE DEF R, N
        <5> QED BY <3>5, <3>a, Induction
      <4> HIDE DEF N, Q
      <4> QED BY <3>5, <4>1
    <3> HIDE DEF N
    <3> QED
      BY <1>1, <3>3, <3>4, <3>b DEF Agreed
  <2> QED
    BY <2>5, <2>6
<1>2. ASSUME NEW v \in SUBSET Files, \A f \in Files \ v : v \cup {f} \in P PROVE v \in P
  BY <1>1, <1>2
<1>3. \A v \in SUBSET Files : v \in P
  <2> HIDE DEF P
  <2> QED BY <1>2, OrderAssumption, Leaving
<1> QED
  BY <1>3

-----------------------------------------------------------------------------
(***************************************************************************)
(* Many sequences in one.                                                  *)
(***************************************************************************)
IsFlat(w, s) == w = [i \in 1 .. Len(s) |-> IF i = 1 THEN s[i] ELSE w[i - 1] \o s[i]]

LEMMA FlatIs ==
  ASSUME NEW s, Len(s) # 0, NEW w0, IsFlat(w0, s)
  PROVE  \E w : IsFlat(w, s) /\ FlattenSeq(s) = w[Len(s)]
<1>1. IsFlat(CHOOSE w : IsFlat(w, s), s)
  OBVIOUS
<1>2. FlattenSeq(s) = (CHOOSE w : IsFlat(w, s))[Len(s)]
  BY DEF FlattenSeq, IsFlat
<1> QED
  BY <1>1, <1>2

LEMMA FlatExists ==
  ASSUME NEW U, NEW s \in Seq(Seq(U))
  PROVE  \E w : IsFlat(w, s)
<1> DEFINE N == Len(s)
           Q == Seq(U)
           step == [n \in 1 .. N |-> [q \in Q |-> IF n = 1 THEN s[n] ELSE q \o s[n]]]
<1>1. N \in Nat /\ << >> \in Q /\ \A n \in 1 .. N : s[n] \in Q
  OBVIOUS
<1>2. step \in [1 .. N -> [Q -> Q]]
      /\ \A n \in 1 .. N, q \in Q : step[n][q] = IF n = 1 THEN s[n] ELSE q \o s[n]
  <2>1. ASSUME NEW n \in 1 .. N, NEW q \in Q PROVE q \o s[n] \in Q
    BY <1>1, ConcatLonger
  <2> HIDE DEF N, Q
  <2> QED
    BY <1>1, <2>1
<1> HIDE DEF step, Q
<1>3. PICK o : IsRun(o, N, Q, << >>, step)
  <2> HIDE DEF N
  <2> QED BY <1>1, <1>2, Recursion
<1> DEFINE w == [i \in 1 .. N |-> o[i]]
<1>4. ASSUME NEW i \in 1 .. N PROVE w[i] = IF i = 1 THEN s[i] ELSE w[i - 1] \o s[i]
  <2> HIDE DEF N
  <2>1. i - 1 \in 0 .. N /\ o[i - 1] \in Q /\ o[i] = step[i][o[i - 1]]
    BY <1>1, <1>3 DEF IsRun
  <2>2. w[i] = IF i = 1 THEN s[i] ELSE o[i - 1] \o s[i]
    BY <1>2, <2>1
  <2>3. i # 1 => w[i - 1] = o[i - 1]
    BY <1>1
  <2> HIDE DEF w
  <2> QED
    BY <2>2, <2>3
<1>5. w = [i \in 1 .. N |-> w[i]]
  OBVIOUS
<1>6. IsFlat(w, s)
  <2> HIDE DEF w
  <2> QED BY <1>4, <1>5 DEF IsFlat
<1> QED
  BY <1>6

LEMMA FlatSet ==
  ASSUME NEW U, NEW s \in Seq(Seq(U))
  PROVE  /\ FlattenSeq(s) \in Seq(U)
         /\ ToSet(FlattenSeq(s)) = {x \in U : \E i \in DOMAIN s : x \in ToSet(s[i])}
<1> DEFINE N == Len(s)
           To(n) == {x \in U : \E i \in 1 .. n : x \in ToSet(s[i])}
<1>1. N \in Nat /\ DOMAIN s = 1 .. N /\ \A n \in 1 .. N : s[n] \in Seq(U)
  OBVIOUS
<1>2. CASE N = 0
  <2>1. FlattenSeq(s) = << >>
    BY <1>2 DEF FlattenSeq
  <2>2. ToSet(<< >>) = {} /\ DOMAIN s = {}
    <3>1. ToSet(<< >>) = {}
      BY OneSet
    <3> QED
      BY <1>2, <3>1
  <2> QED
    BY <2>1, <2>2
<1>3. CASE N # 0
  <2>1. PICK w : IsFlat(w, s) /\ FlattenSeq(s) = w[N]
    BY <1>3, FlatExists, FlatIs
  <2>2. \A i \in 1 .. N : w[i] = IF i = 1 THEN s[i] ELSE w[i - 1] \o s[i]
    <3> HIDE DEF N
    <3>1. w = [i \in 1 .. N |-> IF i = 1 THEN s[i] ELSE w[i - 1] \o s[i]]
      BY <2>1 DEF IsFlat, N
    <3> QED
      BY <3>1
  <2> DEFINE Q(n) == n # 0 => w[n] \in Seq(U) /\ ToSet(w[n]) = To(n)
             P == {n \in 0 .. N : Q(n)}
  <2>3. ASSUME NEW n \in 1 .. N, Q(n - 1) PROVE Q(n)
    <3>1. s[n] \in Seq(U) /\ ToSet(s[n]) \subseteq U
      BY <1>1 DEF ToSet
    <3>2. CASE n = 1
      <4>1. w[n] = s[n]
        BY <2>2, <3>2
      <4>2. To(n) = {x \in U : x \in ToSet(s[n])}
        BY <3>2
      <4> HIDE DEF To
      <4> QED
        BY <3>1, <4>1, <4>2
    <3>3. CASE n # 1
      <4>1. w[n] = w[n - 1] \o s[n]
        BY <2>2, <3>3
      <4>2. n - 1 # 0 /\ w[n - 1] \in Seq(U) /\ ToSet(w[n - 1]) = To(n - 1)
        <5> HIDE DEF To, N
        <5> QED BY <1>1, <2>3, <3>3
      <4>3. w[n - 1] \o s[n] \in Seq(U) /\ ToSet(w[n - 1] \o s[n]) = ToSet(w[n - 1]) \cup ToSet(s[n])
        BY <3>1, <4>2, ConcatLonger, ConcatSet
      <4>4. To(n) = To(n - 1) \cup {x \in U : x \in ToSet(s[n])}
        <5>1. 1 .. n = 1 .. n - 1 \cup {n}
          BY <1>1
        <5> QED
          BY <5>1
      <4> HIDE DEF To
      <4> QED
        BY <3>1, <4>1, <4>2, <4>3, <4>4
    <3> QED
      BY <3>2, <3>3
  <2>4. 0 \in P /\ \A n \in 1 .. N : n - 1 \in P => n \in P
    <3>1. Q(0)
      OBVIOUS
    <3> HIDE DEF Q, N
    <3>2. ASSUME NEW n \in 1 .. N, n - 1 \in P PROVE n \in P
      <4>1. n \in 0 .. N /\ Q(n - 1)
        BY <1>1, <3>2
      <4> QED
        BY <2>3, <4>1
    <3> QED
      BY <1>1, <3>1, <3>2
  <2>5. N \in P
    <3>1. \A n \in 0 .. N : n \in P
      <4> HIDE DEF P, N
      <4> QED BY <1>1, <2>4, Induction
    <3> HIDE DEF P
    <3> QED BY <1>1, <3>1
  <2> HIDE DEF To
  <2>6. w[N] \in Seq(U) /\ ToSet(w[N]) = To(N)
    BY <1>3, <2>5
  <2> QED
    BY <1>1, <2>1, <2>6 DEF To
<1> QED
  BY <1>2, <1>3

-----------------------------------------------------------------------------
(***************************************************************************)
(* The walks agree.                                                        *)
(***************************************************************************)
\* Readable, which counts links, says what Good says of closures.
LEMMA ReadableIsGood ==
  ASSUME NEW t \in Tree, NEW K, K \subseteq LinkKinds
  PROVE  /\ Readable(t, K) <=> Good(t, K, Root)
         /\ Reachable(t, K) = Closure(t, K, {Root})
<1>1. {Root} \in SUBSET Files
  BY OrderAssumption
<1>2. Reachable(t, K) = Closure(t, K, {Root})
  BY <1>1, WithinIsClosure DEF Reachable
<1>3. Closure(t, K, {Root}) \in SUBSET Files
  BY <1>1, ClosureIs
<1>4. ASSUME NEW g \in Files PROVE Within(t, Targets(t, g, K), K) = Closure(t, K, Targets(t, g, K))
  BY TargetsAre, WithinIsClosure
<1> QED
  BY <1>2, <1>3, <1>4 DEF Readable, Good

\* Fewer kinds of links lead to fewer files.
LEMMA FewerKinds ==
  ASSUME NEW t \in Tree, Good(t, LinkKinds, Root)
  PROVE  Good(t, {"include"}, Root)
<1> DEFINE I == {"include"}
           L == LinkKinds
<1>1. I \subseteq LinkKinds /\ L \subseteq LinkKinds
  BY DEF LinkKinds
<1>2. \A g \in Files : Targets(t, g, I) \subseteq Targets(t, g, L)
  BY <1>1 DEF Targets
<1>3. \A g \in Files : Targets(t, g, I) \in SUBSET Files /\ Targets(t, g, L) \in SUBSET Files
  BY <1>1, TargetsAre
<1> HIDE DEF I, L
<1>4. \A X \in SUBSET Files : Closed(t, L, X) => Closed(t, I, X)
  BY <1>2 DEF Closed
<1>5. \A F, G \in SUBSET Files : F \subseteq G => Closure(t, I, F) \subseteq Closure(t, L, G)
  BY <1>4 DEF Closure
<1>6. Root \in Files
  BY OrderAssumption
<1>7. \A g \in Closure(t, I, {Root}) : g \in Closure(t, L, {Root}) /\ g \in Files
  BY SMTT(30), <1>5, <1>6 DEF Closure
<1>8. \A g \in Files : Closure(t, I, Targets(t, g, I)) \subseteq Closure(t, L, Targets(t, g, L))
  BY <1>2, <1>3, <1>5
<1>9. \A g \in Closure(t, L, {Root}) : t[g] # Absent /\ g \notin Closure(t, L, Targets(t, g, L))
  BY DEF Good, L
<1> QED
  BY <1>7, <1>8, <1>9 DEF Good, I

\* The macros of all files, whichever are loaded.
LEMMA OrderHasAll ==
  ASSUME NEW t \in Tree, t[Root] # Absent, MacroOrder(t).ok
  PROVE  ToSet(MacroOrder(t).macros) = UNION {ToSet(MacrosIn(t, f)) : f \in Listing(t)}
<1> DEFINE K == LinkKinds
           r == KlipperMacros(t)
           rest == Only(FileSeq, Listing(t) \ ToSet(r.files))
           parts == [i \in DOMAIN rest |-> MacrosIn(t, rest[i])]
           D == Closure(t, K, {Root})
<1>1. r \in Walk /\ Describes(r, t, K, {}, Root)
  BY VisitDescribed DEF KlipperMacros, LinkKinds
<1>2. FileSeq \in Seq(Files) /\ ToSet(FileSeq) = Files
  BY OrderAssumption
<1>3. rest \in Seq(Files) /\ ToSet(rest) = Listing(t) \ ToSet(r.files)
  <2> DEFINE S == Listing(t) \ ToSet(r.files)
  <2>1. S \subseteq Files
    BY DEF Listing
  <2> HIDE DEF S
  <2>2. Only(FileSeq, S) \in Seq(Files \cap S) /\ ToSet(Only(FileSeq, S)) = ToSet(FileSeq) \cap S
    BY <1>2, OnlyIsSeq, OnlySet
  <2>3. Files \cap S = S
    BY <2>1
  <2>4. Only(FileSeq, S) \in Seq(Files)
    BY <2>2
  <2> QED
    BY <1>2, <2>2, <2>3, <2>4 DEF S
<1>4. ASSUME NEW f \in Listing(t)
      PROVE  MacrosIn(t, f) \in Seq(Macro) /\ ToSet(MacrosIn(t, f)) = ToSet(t[f]) \cap Macro
  <2>1. f \in Files /\ t[f] \in Seq(Sections)
    BY TextIs DEF Listing
  <2>2. Only(t[f], Macro) \in Seq(Sections \cap Macro) /\ ToSet(Only(t[f], Macro)) = ToSet(t[f]) \cap Macro
    BY <2>1, OnlyIsSeq, OnlySet
  <2>3. Sections \cap Macro = Macro
    BY DEF Sections
  <2> QED
    BY <2>2, <2>3 DEF MacrosIn
<1> HIDE DEF r, rest, D
<1>5. DOMAIN rest = 1 .. Len(rest) /\ Len(rest) \in Nat /\ \A i \in DOMAIN rest : rest[i] \in Listing(t)
  <2>1. \A i \in DOMAIN rest : rest[i] \in ToSet(rest)
    BY DEF ToSet
  <2> QED
    BY <1>3, <2>1
<1>6. parts \in Seq(Seq(Macro)) /\ DOMAIN parts = DOMAIN rest
      /\ \A i \in DOMAIN rest : parts[i] = MacrosIn(t, rest[i])
  <2>1. \A i \in DOMAIN rest : MacrosIn(t, rest[i]) \in Seq(Macro)
    BY <1>4, <1>5
  <2> QED
    BY <1>5, <2>1
<1>7. MacroOrder(t) = Then(r, Found(rest, FlattenSeq(parts)))
  BY DEF MacroOrder, r, rest
<1> HIDE DEF parts
<1> DEFINE flat == FlattenSeq(parts)
<1>8. flat \in Seq(Macro) /\ ToSet(flat) = {m \in Macro : \E i \in DOMAIN parts : m \in ToSet(parts[i])}
  BY <1>6, FlatSet
<1>9. ToSet(flat) = {m \in Macro : \E f \in Listing(t) \ ToSet(r.files) : m \in ToSet(MacrosIn(t, f))}
  <2>1. \A f : f \in ToSet(rest) <=> \E i \in DOMAIN rest : rest[i] = f
    BY DEF ToSet
  <2>2. \A i \in DOMAIN parts : ToSet(parts[i]) = ToSet(MacrosIn(t, rest[i]))
    BY <1>6
  <2>3. DOMAIN parts = DOMAIN rest
    BY <1>6
  <2> HIDE DEF flat
  <2>4. ToSet(flat) = {m \in Macro : \E i \in DOMAIN rest : m \in ToSet(MacrosIn(t, rest[i]))}
    BY <1>8, <2>2, <2>3
  <2>5. ToSet(flat) = {m \in Macro : \E f \in ToSet(rest) : m \in ToSet(MacrosIn(t, f))}
    BY <2>1, <2>4
  <2> QED
    BY <1>3, <2>5
<1> HIDE DEF flat
<1>a. PICK m \in Walk : m = Found(rest, flat) /\ m.ok /\ m.macros = flat
  BY <1>3, <1>8, FoundIs
<1>b. MacroOrder(t) = Then(r, m)
  BY <1>7, <1>a DEF flat
<1>c. /\ Then(r, m).ok <=> r.ok /\ m.ok
      /\ r.ok /\ m.ok => Then(r, m).macros = r.macros \o m.macros
  BY <1>1, ThenIs
<1>d. r.ok /\ MacroOrder(t).macros = r.macros \o flat
  BY <1>a, <1>b, <1>c
<1>e. ToSet(r.files) = D /\ ToSet(r.macros) = MacrosOf(t, D) /\ Good(t, K, Root)
  BY <1>1, <1>d DEF Describes, D
<1>f. ToSet(MacroOrder(t).macros) = ToSet(r.macros) \cup ToSet(flat)
  <2>1. r.macros \in Seq(Macro)
    BY <1>1 DEF Walk
  <2> QED
    BY <1>8, <1>d, <2>1, ConcatSet DEF flat
<1>g. D \subseteq Listing(t)
  BY <1>e DEF Good, Listing, D, Closure
<1>h. MacrosOf(t, D) = {m1 \in Macro : \E f \in D : m1 \in ToSet(MacrosIn(t, f))}
  BY <1>4, <1>g DEF MacrosOf
<1>i. \A f \in Listing(t) : ToSet(MacrosIn(t, f)) \subseteq Macro
  BY <1>4
<1> QED
  BY <1>9, <1>e, <1>f, <1>g, <1>h, <1>i

\* The order in which every file is shown once.
LEMMA OrderIsComplete ==
  ASSUME NEW t \in Tree
  PROVE  IsInjective(LoadOrder(t)) /\ ToSet(LoadOrder(t)) = Listing(t)
<1> DEFINE loaded == IF t[Root] = Absent THEN << >> ELSE LoadedOnce(t)
           S == Listing(t) \ ToSet(loaded)
           rest == Only(FileSeq, S)
<1>1. loaded \in Seq(Files) /\ IsInjective(loaded) /\ ToSet(loaded) \subseteq Listing(t)
  <2>1. << >> \in Seq(Files) /\ IsInjective(<< >>) /\ ToSet(<< >>) = {}
    <3>1. DOMAIN << >> = {} /\ << >> \in Seq(Files)
      OBVIOUS
    <3> QED
      BY <3>1 DEF IsInjective, ToSet
  <2>2. PICK w \in Growing(t) : LoadedOnce(t) = w[<< >>][Root]
    BY OnceSteps
  <2>3. Grown(<< >>, w[<< >>][Root], t)
    BY <2>1, OrderAssumption DEF Growing
  <2> QED
    BY <2>1, <2>2, <2>3 DEF Grown
<1>2. FileSeq \in Seq(Files) /\ ToSet(FileSeq) = Files /\ IsInjective(FileSeq) /\ S \subseteq Files
  BY OrderAssumption DEF Listing
<1>3. LoadOrder(t) = loaded \o rest
  BY DEF LoadOrder
<1>4. S = Listing(t) \ ToSet(loaded)
  OBVIOUS
<1> HIDE DEF loaded, S
<1>5. rest \in Seq(Files \cap S) /\ ToSet(rest) = ToSet(FileSeq) \cap S /\ IsInjective(rest)
  BY <1>2, OnlyIsSeq, OnlySet, OnlyInjective
<1>6. rest \in Seq(Files)
  BY <1>5
<1> HIDE DEF rest
<1>7. ToSet(loaded) \cap ToSet(rest) = {}
  BY <1>4, <1>5
<1>8. ToSet(loaded \o rest) = ToSet(loaded) \cup ToSet(rest) /\ IsInjective(loaded \o rest)
  BY <1>1, <1>5, <1>6, <1>7, ConcatSet, ConcatInjective
<1> QED
  BY <1>1, <1>2, <1>3, <1>4, <1>5, <1>8

\* The loaded files in the order in which they are first read.
LEMMA OnceAgrees ==
  ASSUME NEW t \in Tree, Visit(t, LinkKinds).ok
  PROVE  FirstOccurrences(Visit(t, LinkKinds).files) = LoadedOnce(t)
<1>1. PICK w : VisitRun(w, t, LinkKinds) /\ Visit(t, LinkKinds) = w[{}][Root]
  BY VisitSteps
<1>2. PICK o \in Growing(t) : /\ \A q \in Seq(Files), f \in Files : o[q][f] = OnceAt(o, t, q, f)
                              /\ LoadedOnce(t) = o[<< >>][Root]
  BY OnceSteps
<1>3. {} \in SUBSET Files /\ Root \in Files /\ << >> \in Seq(Files)
  BY OrderAssumption
<1>4. IsInjective(<< >>) /\ Known(t, << >>, {})
  <2>1. DOMAIN << >> = {}
    OBVIOUS
  <2> QED
    BY <2>1 DEF IsInjective, ToSet, Known
<1>5. \A v \in SUBSET Files : \A f \in Files : \A q \in Seq(Files) :
        w[v][f].ok /\ IsInjective(q) /\ Known(t, q, v) =>
          o[q][f] = FirstOccurrences(q \o w[v][f].files)
  BY <1>1, <1>2, OnceIsFirst
<1>6. o[<< >>][Root] = FirstOccurrences(<< >> \o w[{}][Root].files)
  BY <1>1, <1>3, <1>4, <1>5
<1>7. w[{}][Root].files \in Seq(Files)
  <2>1. w[{}][Root] \in Walk
    BY <1>1, <1>3 DEF VisitRun
  <2> QED
    BY <2>1 DEF Walk
<1>8. << >> \o w[{}][Root].files = w[{}][Root].files
  BY <1>7, ConcatLonger
<1> QED
  BY <1>1, <1>2, <1>6, <1>8

\* In every tree, whichever files it has and however they are linked, the walks
\* find exactly what can be reached, break off at a cycle or a missing file and
\* nowhere else, take every macro, and agree on the order of the files.
THEOREM WalksAlwaysAgree == \A t \in Tree : WalksAgree(t)
<1> SUFFICES ASSUME NEW t \in Tree, t[Root] # Absent
             PROVE  /\ KlipperFiles(t).ok = Readable(t, {"include"})
                    /\ KlipperMacros(t).ok = Readable(t, {"include", "dynamic"})
                    /\ Overview(t).ok = Readable(t, {"include", "dynamic"})
                    /\ MacroOrder(t).ok =>
                         ToSet(MacroOrder(t).macros) =
                           UNION {ToSet(MacrosIn(t, f)) : f \in Listing(t)}
                    /\ KlipperFiles(t).ok =>
                         ToSet(KlipperFiles(t).files) = Reachable(t, {"include"})
                    /\ KlipperMacros(t).ok =>
                         FirstOccurrences(KlipperMacros(t).files) = LoadedOnce(t)
                    /\ IsInjective(LoadOrder(t)) /\ ToSet(LoadOrder(t)) = Listing(t)
  BY DEF WalksAgree
<1> DEFINE I == {"include"}
           L == {"include", "dynamic"}
<1>1. I \subseteq LinkKinds /\ L = LinkKinds /\ L \subseteq LinkKinds
  BY DEF LinkKinds
<1>2. KlipperFiles(t) = Visit(t, I) /\ KlipperMacros(t) = Visit(t, L)
  BY DEF KlipperFiles, KlipperMacros
<1> HIDE DEF I, L
<1>3. /\ Visit(t, I) \in Walk /\ Describes(Visit(t, I), t, I, {}, Root)
      /\ Visit(t, L) \in Walk /\ Describes(Visit(t, L), t, L, {}, Root)
  BY <1>1, VisitDescribed
<1>4. Visit(t, I).ok \in BOOLEAN /\ Visit(t, L).ok \in BOOLEAN
  BY <1>3 DEF Walk
<1>5. (Visit(t, I).ok <=> Good(t, I, Root)) /\ (Visit(t, L).ok <=> Good(t, L, Root))
  BY <1>3 DEF Describes
<1>6. /\ Readable(t, I) <=> Good(t, I, Root)
      /\ Readable(t, L) <=> Good(t, L, Root)
      /\ Reachable(t, I) = Closure(t, I, {Root})
  BY <1>1, ReadableIsGood
<1>7. Readable(t, I) \in BOOLEAN /\ Readable(t, L) \in BOOLEAN
  BY DEF Readable
<1>8. KlipperFiles(t).ok = Readable(t, I) /\ KlipperMacros(t).ok = Readable(t, L)
  BY <1>2, <1>4, <1>5, <1>6, <1>7
<1>9. Overview(t).ok = Readable(t, L)
  <2>1. Overview(t).ok = (KlipperFiles(t).ok /\ KlipperMacros(t).ok)
    BY DEF Overview
  <2>2. Good(t, L, Root) => Good(t, I, Root)
    BY <1>1, FewerKinds DEF I
  <2> QED
    BY <1>6, <1>7, <1>8, <2>1, <2>2
<1>a. KlipperFiles(t).ok => ToSet(KlipperFiles(t).files) = Reachable(t, I)
  BY <1>2, <1>3, <1>6 DEF Describes
<1>b. KlipperMacros(t).ok => FirstOccurrences(KlipperMacros(t).files) = LoadedOnce(t)
  BY <1>1, <1>2, OnceAgrees
<1>c. MacroOrder(t).ok => ToSet(MacroOrder(t).macros) = UNION {ToSet(MacrosIn(t, f)) : f \in Listing(t)}
  BY OrderHasAll
<1>d. IsInjective(LoadOrder(t)) /\ ToSet(LoadOrder(t)) = Listing(t)
  BY OrderIsComplete
<1> QED
  BY <1>8, <1>9, <1>a, <1>b, <1>c, <1>d DEF I, L

-----------------------------------------------------------------------------
(***************************************************************************)
(* Which definition is the last one.                                       *)
(***************************************************************************)
LEMMA OnlyNone ==
  ASSUME NEW U, NEW s \in Seq(U), NEW S, ToSet(s) \cap S = {}
  PROVE  Only(s, S) = << >>
<1>1. Only(s, S) \in Seq(U \cap S)
  BY OnlyIsSeq
<1>2. ToSet(Only(s, S)) = {}
  BY OnlySet
<1> DEFINE q == Only(s, S)
<1> HIDE DEF q
<1>3. q \in Seq(U \cap S) /\ ToSet(q) = {}
  BY <1>1, <1>2 DEF q
<1>4. Len(q) = 0
  <2>1. Len(q) \in Nat /\ DOMAIN q = 1 .. Len(q)
    BY <1>3
  <2>2. \A i \in DOMAIN q : q[i] \in ToSet(q)
    BY DEF ToSet
  <2>3. SUFFICES ASSUME Len(q) # 0 PROVE FALSE
    OBVIOUS
  <2>4. 1 \in DOMAIN q
    BY <2>1, <2>3
  <2> QED
    BY <1>3, <2>2, <2>4
<1> QED
  BY <1>3, <1>4 DEF q

\* The members of S in s with one more element.
LEMMA OnlyAppend ==
  ASSUME NEW U, NEW s \in Seq(U), NEW x \in U, NEW S
  PROVE  Only(Append(s, x), S) = IF x \in S THEN Append(Only(s, S), x) ELSE Only(s, S)
<1> DEFINE N == Len(s)
           z == Append(s, x)
<1>1. /\ N \in Nat /\ z \in Seq(U) /\ Len(z) = N + 1 /\ z[N + 1] = x
      /\ \A n \in 1 .. N : z[n] = s[n]
  OBVIOUS
<1> HIDE DEF z
<1>2. PICK o : OnlyRun(o, s, S, U) /\ Only(s, S) = o[N]
  BY OnlySteps
<1>3. PICK p : OnlyRun(p, z, S, U) /\ Only(z, S) = p[Len(z)]
  BY <1>1, OnlySteps
<1> HIDE DEF N
<1>4. /\ o[0] = << >>
      /\ \A n \in 1 .. N : o[n] = IF s[n] \in S THEN Append(o[n - 1], s[n]) ELSE o[n - 1]
  BY <1>2 DEF OnlyRun, N
<1>5. /\ p[0] = << >>
      /\ \A n \in 1 .. N + 1 : p[n] = IF z[n] \in S THEN Append(p[n - 1], z[n]) ELSE p[n - 1]
  BY <1>1, <1>3 DEF OnlyRun
<1> DEFINE P == {n \in 0 .. N : p[n] = o[n]}
<1>6. 0 \in P
  BY <1>1, <1>4, <1>5
<1>7. ASSUME NEW n \in 1 .. N, n - 1 \in P PROVE n \in P
  <2>1. n \in 1 .. N + 1 /\ z[n] = s[n] /\ p[n - 1] = o[n - 1]
    BY <1>1, <1>7
  <2> QED
    BY <1>4, <1>5, <2>1
<1>8. \A n \in 0 .. N : n \in P
  <2> HIDE DEF P
  <2> QED BY <1>1, <1>6, <1>7, Induction
<1>9. p[N] = o[N]
  BY <1>1, <1>8
<1>a. N + 1 \in 1 .. N + 1 /\ (N + 1) - 1 = N
  BY <1>1
<1>b. p[N + 1] = IF x \in S THEN Append(p[N], x) ELSE p[N]
  BY <1>1, <1>5, <1>a
<1> QED
  BY <1>1, <1>2, <1>3, <1>9, <1>b DEF z

LEMMA OnlyOfNone == ASSUME NEW S PROVE Only(<< >>, S) = << >>
<1> DEFINE e == << >>
<1>1. e \in Seq({}) /\ ToSet(e) \cap S = {}
  BY DEF ToSet
<1> HIDE DEF e
<1>2. Only(e, S) = << >>
  BY <1>1, OnlyNone
<1> QED
  BY <1>2 DEF e

LEMMA OnlyConcat ==
  ASSUME NEW U, NEW a \in Seq(U), NEW b \in Seq(U), NEW S
  PROVE  Only(a \o b, S) = Only(a, S) \o Only(b, S)
<1> DEFINE N == Len(b)
           V == U \cap S
<1>1. PICK p : PrefixRun(p, b, U)
  BY Beginnings
<1>2. N \in Nat
  OBVIOUS
<1> DEFINE P == {n \in 0 .. N : Only(a \o p[n], S) = Only(a, S) \o Only(p[n], S)}
<1>3. Only(a, S) \in Seq(V)
  BY OnlyIsSeq
<1>4. 0 \in P
  <2>1. a \o << >> = a /\ p[0] = << >>
    BY <1>1 DEF PrefixRun
  <2>2. Only(a, S) \o << >> = Only(a, S)
    <3> DEFINE j == Only(a, S)
    <3>1. j \in Seq(V)
      BY <1>3
    <3> HIDE DEF j
    <3>2. j \o << >> = j
      BY <3>1
    <3> QED
      BY <3>2 DEF j
  <2>3. 0 \in 0 .. N /\ Only(p[0], S) = << >> /\ a \o p[0] = a
    BY <1>2, <2>1, OnlyOfNone
  <2>4. Only(a \o p[0], S) = Only(a, S) \o Only(p[0], S)
    BY <2>2, <2>3
  <2> QED
    BY <2>3, <2>4
<1>5. ASSUME NEW n \in 1 .. N, n - 1 \in P PROVE n \in P
  <2>0. p[n - 1] \in Seq(U) /\ b[n] \in U /\ p[n] = Append(p[n - 1], b[n])
    <3>1. n - 1 \in 0 .. N
      BY <1>2
    <3> QED
      BY <1>1, <3>1 DEF PrefixRun
  <2>1. PICK q \in Seq(U), x \in U : q = p[n - 1] /\ p[n] = Append(q, x)
    BY <2>0
  <2>2. a \o Append(q, x) = Append(a \o q, x) /\ a \o q \in Seq(U)
    BY ConcatAppend
  <2>3. PICK c \in Seq(U) : c = a \o q
    BY <2>2
  <2>4. Only(Append(c, x), S) = IF x \in S THEN Append(Only(c, S), x) ELSE Only(c, S)
    BY OnlyAppend
  <2>5. Only(Append(q, x), S) = IF x \in S THEN Append(Only(q, S), x) ELSE Only(q, S)
    BY OnlyAppend
  <2>6. Only(c, S) = Only(a, S) \o Only(q, S)
    BY <1>5, <2>1, <2>3
  <2>7. Only(q, S) \in Seq(V)
    BY OnlyIsSeq
  <2>8. x \in S => Only(a, S) \o Append(Only(q, S), x) = Append(Only(a, S) \o Only(q, S), x)
    <3> DEFINE j == Only(a, S)
               k == Only(q, S)
    <3>1. j \in Seq(V) /\ k \in Seq(V)
      BY <1>3, <2>7
    <3> HIDE DEF j, k
    <3>2. x \in S => j \o Append(k, x) = Append(j \o k, x)
      BY <3>1, ConcatAppend
    <3> QED
      BY <3>2 DEF j, k
  <2>9. Only(a \o p[n], S) = Only(a, S) \o Only(p[n], S)
    BY <2>1, <2>2, <2>3, <2>4, <2>5, <2>6, <2>8
  <2> QED
    BY <2>9
<1>6. \A n \in 0 .. N : n \in P
  <2> HIDE DEF P, N
  <2> QED BY <1>2, <1>4, <1>5, Induction
<1>7. N \in P
  BY <1>2, <1>6
<1> QED
  BY <1>1, <1>7 DEF PrefixRun

LEMMA OnlyOnly ==
  ASSUME NEW U, NEW s \in Seq(U), NEW S, NEW T, T \subseteq S
  PROVE  Only(Only(s, S), T) = Only(s, T)
<1> DEFINE N == Len(s)
           V == U \cap S
<1>1. PICK p : PrefixRun(p, s, U)
  BY Beginnings
<1>2. N \in Nat
  OBVIOUS
<1> DEFINE P == {n \in 0 .. N : Only(Only(p[n], S), T) = Only(p[n], T)}
<1>3. 0 \in P
  BY <1>1, <1>2, OnlyOfNone DEF PrefixRun
<1>4. ASSUME NEW n \in 1 .. N, n - 1 \in P PROVE n \in P
  <2>0. p[n - 1] \in Seq(U) /\ s[n] \in U /\ p[n] = Append(p[n - 1], s[n])
    <3>1. n - 1 \in 0 .. N
      BY <1>2
    <3> QED
      BY <1>1, <3>1 DEF PrefixRun
  <2>1. PICK q \in Seq(U), x \in U : q = p[n - 1] /\ p[n] = Append(q, x)
    BY <2>0
  <2>2. Only(Append(q, x), S) = IF x \in S THEN Append(Only(q, S), x) ELSE Only(q, S)
    BY OnlyAppend
  <2>3. Only(Append(q, x), T) = IF x \in T THEN Append(Only(q, T), x) ELSE Only(q, T)
    BY OnlyAppend
  <2>4. PICK k \in Seq(V) : k = Only(q, S)
    BY OnlyIsSeq
  <2>5. Only(k, T) = Only(q, T)
    BY <1>4, <2>1, <2>4
  <2>6. x \in S => Only(Append(k, x), T) = IF x \in T THEN Append(Only(k, T), x) ELSE Only(k, T)
    <3>1. x \in S => x \in V
      OBVIOUS
    <3> HIDE DEF V
    <3> QED BY <3>1, OnlyAppend
  <2>7. Only(Only(p[n], S), T) = Only(p[n], T)
    BY <2>1, <2>2, <2>3, <2>4, <2>5, <2>6
  <2> QED
    BY <2>7
<1>5. \A n \in 0 .. N : n \in P
  <2> HIDE DEF P, N
  <2> QED BY <1>2, <1>3, <1>4, Induction
<1>6. N \in P
  BY <1>2, <1>5
<1> QED
  BY <1>1, <1>6 DEF PrefixRun

\* q ends with the last element of r, if it has any.
EndsLike(q, r) == \/ q = << >>
                  \/ q # << >> /\ r # << >> /\ q[Len(q)] = r[Len(r)]

LEMMA ConcatEnds ==
  ASSUME NEW U, NEW a \in Seq(U), NEW b \in Seq(U), NEW r, EndsLike(a, r), EndsLike(b, r)
  PROVE  EndsLike(a \o b, r)
<1>1. CASE b = << >>
  <2>1. a \o b = a
    BY <1>1
  <2> QED
    BY <2>1
<1>2. CASE b # << >>
  <2>1. (a \o b) # << >> /\ (a \o b)[Len(a \o b)] = b[Len(b)]
    BY <1>2
  <2> QED
    BY <1>2, <2>1 DEF EndsLike
<1> QED
  BY <1>1, <1>2

\* Section e adds a macro to walk r, what the walk of another file has, or nothing,
\* and makes y of it.
Adds(e, r, y, inner, T) ==
  /\ r.ok
  /\ \/ e \in Macro /\ y.macros = r.macros \o <<e>>
     \/ e \notin Macro /\ \E h \in T : y.macros = r.macros \o inner[h].macros
     \/ e \notin Macro /\ y = r

LEMMA TookMacros ==
  ASSUME NEW t \in Tree, NEW f \in Files, t[f] # Absent, NEW n \in 1 .. Len(t[f]),
         NEW K, K \subseteq LinkKinds, NEW inner \in [Files -> Walk], NEW r \in Walk,
         Took(r, t[f][n], K, inner).ok
  PROVE  Adds(t[f][n], r, Took(r, t[f][n], K, inner), inner, Targets(t, f, K))
<1> DEFINE e == t[f][n]
           y == Took(r, e, K, inner)
<1>1. CASE e.kind = "macro"
  <2>1. e \in Macro
    BY <1>1, SectionIs
  <2> HIDE DEF e
  <2>2. << >> \in Seq(Files) /\ <<e>> \in Seq(Macro)
    BY <2>1
  <2>3. PICK m \in Walk : m = Found(<< >>, <<e>>) /\ m.ok /\ m.macros = <<e>>
    BY <2>2, FoundIs
  <2>4. y = Then(r, m)
    BY <1>1, <2>3 DEF Took, e
  <2>5. /\ Then(r, m).ok <=> r.ok /\ m.ok
        /\ r.ok /\ m.ok => Then(r, m).macros = r.macros \o m.macros
    BY ThenIs
  <2> QED
    BY <2>1, <2>3, <2>4, <2>5 DEF Adds, e
<1>2. CASE e.kind # "macro" /\ e.kind \in K
  <2>1. e.file \in Files /\ e \notin Macro
    BY <1>2, SectionIs
  <2>2. e.file \in Targets(t, f, K)
    <3>1. n \in DOMAIN t[f]
      BY TextIs
    <3> QED
      BY <1>2, <3>1 DEF Targets
  <2>3. PICK m \in Walk : m = inner[e.file]
    BY <2>1
  <2>4. y = Then(r, m)
    BY <1>2, <2>3 DEF Took
  <2>5. /\ Then(r, m).ok <=> r.ok /\ m.ok
        /\ r.ok /\ m.ok => Then(r, m).macros = r.macros \o m.macros
    BY ThenIs
  <2>6. r.ok /\ y.macros = r.macros \o inner[e.file].macros
    BY <2>3, <2>4, <2>5
  <2> QED
    BY <2>1, <2>2, <2>6 DEF Adds
<1>3. CASE e.kind # "macro" /\ e.kind \notin K
  <2>1. e \notin Macro
    BY <1>3, SectionIs
  <2>2. y = r
    BY <1>3 DEF Took
  <2> QED
    BY <2>1, <2>2 DEF Adds
<1> QED
  BY <1>1, <1>2, <1>3

\* When the links of f lead to no macro in S, f's own ones are left.
HasOwn(t, f, K, inner, S) ==
  Spliced(t, f, K, inner).ok /\ (\A h \in Targets(t, f, K) : Only(inner[h].macros, S) = << >>)
    => Only(Spliced(t, f, K, inner).macros, S) = Only(t[f], S)

LEMMA OwnMacros ==
  ASSUME NEW t \in Tree, NEW f \in Files, t[f] # Absent,
         NEW K, K \subseteq LinkKinds, NEW inner \in [Files -> Walk], NEW S, S \subseteq Macro
  PROVE  HasOwn(t, f, K, inner, S)
<1> SUFFICES ASSUME Spliced(t, f, K, inner).ok,
                    \A h \in Targets(t, f, K) : Only(inner[h].macros, S) = << >>
             PROVE  Only(Spliced(t, f, K, inner).macros, S) = Only(t[f], S)
  BY DEF HasOwn
<1> DEFINE N == Len(t[f])
           c == t[f]
<1>1. PICK u : SplicedRun(u, t, f, K, inner) /\ Spliced(t, f, K, inner) = u[N]
  BY SplicedSteps
<1>2. N \in Nat /\ c \in Seq(Sections)
  BY TextIs
<1>3. PICK o : OnlyRun(o, c, S, Sections) /\ Only(c, S) = o[N]
  BY <1>2, OnlySteps
<1>4. /\ \A n \in 0 .. N : u[n] \in Walk
      /\ u[0] = Found(<<f>>, << >>)
      /\ \A n \in 1 .. N : u[n] = Took(u[n - 1], c[n], K, inner)
  BY <1>1 DEF SplicedRun
<1>5. /\ o[0] = << >>
      /\ \A n \in 1 .. N : o[n] = IF c[n] \in S THEN Append(o[n - 1], c[n]) ELSE o[n - 1]
      /\ \A n \in 0 .. N : o[n] \in Seq(Sections \cap S)
  BY <1>3 DEF OnlyRun
<1> DEFINE P == {n \in 0 .. N : u[n].ok => Only(u[n].macros, S) = o[n]}
<1>6. 0 \in P
  <2>1. u[0].macros = << >>
    BY <1>4 DEF Found
  <2> QED
    BY <1>2, <1>5, <2>1, OnlyOfNone
<1>7. ASSUME NEW n \in 1 .. N, n - 1 \in P PROVE n \in P
  <2>0. n \in 0 .. N /\ n - 1 \in 0 .. N
    BY <1>2
  <2>1. SUFFICES ASSUME u[n].ok PROVE Only(u[n].macros, S) = o[n]
    BY <2>0
  <2>2. PICK r \in Walk : r = u[n - 1]
    BY <1>4, <2>0
  <2>3. PICK y \in Walk : y = u[n] /\ y = Took(r, c[n], K, inner) /\ y.ok
    BY <1>4, <2>0, <2>1, <2>2
  <2>4. /\ r.ok
        /\ \/ c[n] \in Macro /\ y.macros = r.macros \o <<c[n]>>
           \/ c[n] \notin Macro /\ \E h \in Targets(t, f, K) : y.macros = r.macros \o inner[h].macros
           \/ c[n] \notin Macro /\ y = r
    <3> HIDE DEF P
    <3>1. n \in 1 .. Len(t[f]) /\ Took(r, t[f][n], K, inner).ok
      BY <2>3
    <3>2. Adds(t[f][n], r, Took(r, t[f][n], K, inner), inner, Targets(t, f, K))
      BY <3>1, TookMacros
    <3> QED
      BY <2>3, <3>2 DEF Adds
  <2>5. r.macros \in Seq(Macro) /\ Only(r.macros, S) = o[n - 1]
    BY <1>7, <2>2, <2>4 DEF Walk
  <2>a. o[n] = IF c[n] \in S THEN Append(o[n - 1], c[n]) ELSE o[n - 1]
    BY <1>5
  <2> HIDE DEF P
  <2>6. CASE c[n] \in Macro /\ y.macros = r.macros \o <<c[n]>>
    <3>1. PICK q \in Seq(Macro), x \in Macro : q = r.macros /\ x = c[n]
      BY <2>5, <2>6
    <3>2. q \o <<x>> = Append(q, x)
      OBVIOUS
    <3>3. Only(Append(q, x), S) = IF x \in S THEN Append(Only(q, S), x) ELSE Only(q, S)
      BY OnlyAppend
    <3> QED
      BY <2>3, <2>5, <2>6, <2>a, <3>1, <3>2, <3>3
  <2>7. CASE c[n] \notin Macro /\ \E h \in Targets(t, f, K) : y.macros = r.macros \o inner[h].macros
    <3>1. PICK h \in Targets(t, f, K) : y.macros = r.macros \o inner[h].macros
      BY <2>7
    <3>2. h \in Files
      BY TargetsAre
    <3>3. PICK q \in Seq(Macro), g \in Seq(Macro) : q = r.macros /\ g = inner[h].macros
      BY <2>5, <3>2 DEF Walk
    <3>4. Only(q \o g, S) = Only(q, S) \o Only(g, S)
      BY OnlyConcat
    <3>5. Only(g, S) = << >> /\ Only(q, S) = o[n - 1]
      BY <2>5, <3>1, <3>3
    <3>6. o[n - 1] \o << >> = o[n - 1]
      BY <1>5, <2>0
    <3>7. Only(q \o g, S) = o[n - 1]
      BY <3>4, <3>5, <3>6
    <3>8. c[n] \notin S
      BY <2>7
    <3>9. y.macros = q \o g
      BY <3>1, <3>3
    <3> QED
      BY <2>3, <2>a, <3>7, <3>8, <3>9
  <2>8. CASE c[n] \notin Macro /\ y = r
    BY <2>3, <2>5, <2>8, <2>a
  <2> QED
    BY <2>4, <2>6, <2>7, <2>8
<1>8. \A n \in 0 .. N : n \in P
  <2> HIDE DEF P, N
  <2> QED BY <1>2, <1>6, <1>7, Induction
<1>9. N \in P
  BY <1>2, <1>8
<1> QED
  BY <1>1, <1>3, <1>9

\* When f has no macro in S itself, what it takes ends as what its links lead to.
LEMMA OthersMacros ==
  ASSUME NEW t \in Tree, NEW f \in Files, t[f] # Absent,
         NEW K, K \subseteq LinkKinds, NEW inner \in [Files -> Walk], NEW S,
         Spliced(t, f, K, inner).ok, ToSet(t[f]) \cap S = {}, NEW z,
         \A h \in Targets(t, f, K) : EndsLike(Only(inner[h].macros, S), z)
  PROVE  EndsLike(Only(Spliced(t, f, K, inner).macros, S), z)
<1> DEFINE N == Len(t[f])
           c == t[f]
<1>1. PICK u : SplicedRun(u, t, f, K, inner) /\ Spliced(t, f, K, inner) = u[N]
  BY SplicedSteps
<1>2. N \in Nat /\ c \in Seq(Sections) /\ DOMAIN c = 1 .. N
  BY TextIs
<1>3. \A n \in 1 .. N : c[n] \notin S
  BY <1>2 DEF ToSet
<1>4. /\ \A n \in 0 .. N : u[n] \in Walk
      /\ u[0] = Found(<<f>>, << >>)
      /\ \A n \in 1 .. N : u[n] = Took(u[n - 1], c[n], K, inner)
  BY <1>1 DEF SplicedRun
<1> DEFINE P == {n \in 0 .. N : u[n].ok => EndsLike(Only(u[n].macros, S), z)}
<1>6. 0 \in P
  <2>1. u[0].macros = << >>
    BY <1>4 DEF Found
  <2>2. Only(u[0].macros, S) = << >> /\ 0 \in 0 .. N
    BY <1>2, <2>1, OnlyOfNone
  <2> QED
    BY <2>2 DEF EndsLike
<1>7. ASSUME NEW n \in 1 .. N, n - 1 \in P PROVE n \in P
  <2>0. n \in 0 .. N /\ n - 1 \in 0 .. N
    BY <1>2
  <2>1. SUFFICES ASSUME u[n].ok PROVE EndsLike(Only(u[n].macros, S), z)
    BY <2>0
  <2>2. PICK r \in Walk : r = u[n - 1]
    BY <1>4, <2>0
  <2>3. PICK y \in Walk : y = u[n] /\ y = Took(r, c[n], K, inner) /\ y.ok
    BY <1>4, <2>0, <2>1, <2>2
  <2>4. /\ r.ok
        /\ \/ c[n] \in Macro /\ y.macros = r.macros \o <<c[n]>>
           \/ c[n] \notin Macro /\ \E h \in Targets(t, f, K) : y.macros = r.macros \o inner[h].macros
           \/ c[n] \notin Macro /\ y = r
    <3> HIDE DEF P
    <3>1. n \in 1 .. Len(t[f]) /\ Took(r, t[f][n], K, inner).ok
      BY <2>3
    <3>2. Adds(t[f][n], r, Took(r, t[f][n], K, inner), inner, Targets(t, f, K))
      BY <3>1, TookMacros
    <3> QED
      BY <2>3, <3>2 DEF Adds
  <2>5. r.macros \in Seq(Macro) /\ EndsLike(Only(r.macros, S), z)
    BY <1>7, <2>2, <2>4 DEF Walk
  <2> HIDE DEF P
  <2>6. CASE c[n] \in Macro /\ y.macros = r.macros \o <<c[n]>>
    <3>1. PICK q \in Seq(Macro), x \in Macro : q = r.macros /\ x = c[n]
      BY <2>5, <2>6
    <3>2. q \o <<x>> = Append(q, x)
      OBVIOUS
    <3>3. Only(Append(q, x), S) = IF x \in S THEN Append(Only(q, S), x) ELSE Only(q, S)
      BY OnlyAppend
    <3>4. x \notin S
      BY <1>3, <3>1
    <3>5. Only(y.macros, S) = Only(r.macros, S)
      BY <2>6, <3>1, <3>2, <3>3, <3>4
    <3> QED
      BY <2>3, <2>5, <3>5
  <2>7. CASE c[n] \notin Macro /\ \E h \in Targets(t, f, K) : y.macros = r.macros \o inner[h].macros
    <3>1. PICK h \in Targets(t, f, K) : y.macros = r.macros \o inner[h].macros
      BY <2>7
    <3>2. h \in Files
      BY TargetsAre
    <3>3. PICK q \in Seq(Macro), g \in Seq(Macro) : q = r.macros /\ g = inner[h].macros
      BY <2>5, <3>2 DEF Walk
    <3>4. Only(q \o g, S) = Only(q, S) \o Only(g, S)
      BY OnlyConcat
    <3>5. PICK a \in Seq(Macro \cap S), b \in Seq(Macro \cap S) : a = Only(q, S) /\ b = Only(g, S)
      BY OnlyIsSeq
    <3>6. EndsLike(a, z) /\ EndsLike(b, z)
      BY <2>5, <3>1, <3>3, <3>5
    <3>7. EndsLike(a \o b, z)
      BY <3>6, ConcatEnds
    <3>8. y.macros = q \o g
      BY <3>1, <3>3
    <3> QED
      BY <2>3, <3>4, <3>5, <3>7, <3>8
  <2>8. CASE c[n] \notin Macro /\ y = r
    BY <2>3, <2>5, <2>8
  <2> QED
    BY <2>4, <2>6, <2>7, <2>8
<1>8. \A n \in 0 .. N : n \in P
  <2> HIDE DEF P, N
  <2> QED BY <1>2, <1>6, <1>7, Induction
<1>9. N \in P
  BY <1>2, <1>8
<1> QED
  BY <1>1, <1>9

\* Walk r from f while the files in v are being read, when file d alone has macros
\* in S: as they are in d, none while d is being read, else as they end in d.
Defines(r, t, v, f, d, S) ==
  r.ok => /\ d \in v => Only(r.macros, S) = << >>
          /\ f = d => Only(r.macros, S) = Only(t[d], S)
          /\ EndsLike(Only(r.macros, S), Only(t[d], S))

\* By induction over the files that are being read.
LEMMA WalkDefines ==
  ASSUME NEW t \in Tree, NEW K, K \subseteq LinkKinds, NEW w, VisitRun(w, t, K),
         NEW d \in Files, NEW S, S \subseteq Macro,
         \A g \in Files \ {d} : t[g] # Absent => ToSet(t[g]) \cap S = {}
  PROVE  \A v \in SUBSET Files : \A f \in Files : Defines(w[v][f], t, v, f, d, S)
<1> DEFINE P == {v \in SUBSET Files : \A f \in Files : Defines(w[v][f], t, v, f, d, S)}
<1>1. ASSUME NEW v \in SUBSET Files, \A f \in Files \ v : v \cup {f} \in P, NEW f \in Files
      PROVE  Defines(w[v][f], t, v, f, d, S)
  <2> DEFINE T == Targets(t, f, K)
             x == v \cup {f}
             s == w[v][f]
             End == Only(t[d], S)
  <2>1. SUFFICES ASSUME s.ok
                 PROVE  /\ d \in v => Only(s.macros, S) = << >>
                        /\ f = d => Only(s.macros, S) = End
                        /\ EndsLike(Only(s.macros, S), End)
    BY DEF Defines
  <2>2. s = At(w, t, K, v, f)
    BY DEF VisitRun
  <2>3. f \notin v /\ t[f] # Absent
    BY <2>1, <2>2, BrokenIs DEF At
  <2>4. x \in SUBSET Files /\ x \in P
    BY <1>1, <2>3
  <2>5. PICK inner \in [Files -> Walk] : inner = w[x]
    BY <2>4 DEF VisitRun
  <2>6. s = Spliced(t, f, K, inner)
    BY <2>2, <2>3, <2>5 DEF At
  <2>7. T \subseteq Files /\ \A h \in T : inner[h].ok
    <3>1. SplicedSets(Spliced(t, f, K, inner), t, f, K, inner)
      BY <2>3, SplicedIsOf
    <3>2. Spliced(t, f, K, inner).ok
      BY <2>1, <2>6
    <3>3. \A h \in T : inner[h].ok
      BY <3>1, <3>2 DEF SplicedSets
    <3> QED
      BY <3>3, TargetsAre
  <2>8. ASSUME NEW h \in T
        PROVE  /\ d \in x => Only(inner[h].macros, S) = << >>
               /\ EndsLike(Only(inner[h].macros, S), End)
    <3>1. h \in Files /\ inner[h].ok
      BY <2>7
    <3>2. Defines(inner[h], t, x, h, d, S)
      BY <2>4, <2>5, <3>1
    <3> QED
      BY <3>1, <3>2 DEF Defines
  <2>9. Spliced(t, f, K, inner).ok
    BY <2>1, <2>6
  <2> HIDE DEF s, P
  <2>10. ASSUME d \in x PROVE Only(s.macros, S) = Only(t[f], S)
    <3>1. \A h \in T : Only(inner[h].macros, S) = << >>
      BY <2>8, <2>10
    <3>2. Only(Spliced(t, f, K, inner).macros, S) = Only(t[f], S)
      <4>1. t[f] # Absent /\ Spliced(t, f, K, inner).ok /\ S \subseteq Macro
        BY <2>3, <2>9
      <4>2. \A h \in Targets(t, f, K) : Only(inner[h].macros, S) = << >>
        BY <3>1
      <4> HIDE DEF T, End, x
      <4>3. HasOwn(t, f, K, inner, S)
        BY <4>1, OwnMacros
      <4> QED
        BY <4>1, <4>2, <4>3 DEF HasOwn
    <3> QED
      BY <2>6, <3>2
  <2>11. ASSUME f # d PROVE ToSet(t[f]) \cap S = {} /\ Only(t[f], S) = << >>
    <3>1. ToSet(t[f]) \cap S = {}
      BY <2>3, <2>11
    <3>2. t[f] \in Seq(Sections)
      BY <2>3, TextIs
    <3> QED
      BY <3>1, <3>2, OnlyNone
  <2>12. CASE f = d
    <3>1. Only(s.macros, S) = End /\ d \notin v
      BY <2>3, <2>10, <2>12
    <3>2. EndsLike(End, End)
      BY DEF EndsLike
    <3> QED
      BY <3>1, <3>2
  <2>13. CASE f # d
    <3>1. d \in v => Only(s.macros, S) = << >>
      BY <2>10, <2>11, <2>13
    <3>2. EndsLike(Only(s.macros, S), End)
      <4> HIDE DEF End
      <4>1. \A h \in T : EndsLike(Only(inner[h].macros, S), End)
        BY <2>8
      <4>2. EndsLike(Only(Spliced(t, f, K, inner).macros, S), End)
        BY <2>3, <2>9, <2>11, <2>13, <4>1, OthersMacros
      <4> QED
        BY <2>6, <4>2
    <3> QED
      BY <2>13, <3>1, <3>2
  <2> QED
    BY <2>12, <2>13
<1>2. ASSUME NEW v \in SUBSET Files, \A f \in Files \ v : v \cup {f} \in P PROVE v \in P
  BY <1>1, <1>2
<1>3. \A v \in SUBSET Files : v \in P
  <2> HIDE DEF P
  <2> QED BY <1>2, OrderAssumption, Leaving
<1> QED
  BY <1>3

Called(n) == {e \in Macro : e.name = n}

\* When the files are read and only d, which is loaded, defines macro n, the last
\* definition in d is the one that Klipper ends up with.
LEMMA EffectiveIs ==
  ASSUME NEW t \in Tree, t[Root] # Absent, KlipperMacros(t).ok, NEW n,
         NEW d \in Closure(t, LinkKinds, {Root}),
         \A g \in Files \ {d} : t[g] # Absent => ToSet(t[g]) \cap Called(n) = {}
  PROVE  Effective(t, n) = IF Only(t[d], Called(n)) = << >> THEN Absent
                           ELSE Only(t[d], Called(n))[Len(Only(t[d], Called(n)))].body
<1> DEFINE S == Called(n)
           K == LinkKinds
           r == Visit(t, K)
           found == Only(r.macros, S)
           own == Only(t[d], S)
<1>1. K \subseteq LinkKinds /\ S \subseteq Macro /\ Root \in Files /\ {Root} \in SUBSET Files
  BY OrderAssumption DEF Called
<1>2. Closure(t, K, {Root}) \in SUBSET Files
  BY <1>1, ClosureIs
<1>3. d \in Files
  BY <1>2
<1>4. KlipperMacros(t) = r /\ r.ok
  BY DEF KlipperMacros, LinkKinds
<1>5. r \in Walk /\ Describes(r, t, K, {}, Root)
  BY <1>1, VisitDescribed
<1>6. EndsLike(found, own)
  <2>1. PICK w : VisitRun(w, t, K) /\ r = w[{}][Root]
    BY <1>1, VisitSteps
  <2>2. \A v \in SUBSET Files : \A f \in Files : Defines(w[v][f], t, v, f, d, S)
    <3> HIDE DEF S, K
    <3>1. \A g \in Files \ {d} : t[g] # Absent => ToSet(t[g]) \cap S = {}
      BY DEF S
    <3> QED
      BY <1>1, <1>3, <2>1, <3>1, WalkDefines
  <2>3. {} \in SUBSET Files
    OBVIOUS
  <2>4. Defines(w[{}][Root], t, {}, Root, d, S)
    BY <1>1, <2>2, <2>3
  <2> HIDE DEF r, S, K
  <2>5. Defines(r, t, {}, Root, d, S)
    BY <2>1, <2>4
  <2> QED
    BY <1>4, <2>5 DEF Defines
<1>7. own # << >> => found # << >>
  <2>1. t[d] # Absent
    BY <1>4, <1>5 DEF Describes, Good
  <2>2. t[d] \in Seq(Sections) /\ r.macros \in Seq(Macro)
    BY <1>3, <1>5, <2>1, TextIs DEF Walk
  <2>3. own \in Seq(Sections \cap S) /\ ToSet(own) = ToSet(t[d]) \cap S
    BY <2>2, OnlyIsSeq, OnlySet
  <2>4. ToSet(found) = ToSet(r.macros) \cap S
    BY <2>2, OnlySet
  <2>5. ToSet(r.macros) = MacrosOf(t, Closure(t, K, {Root}))
    BY <1>4, <1>5 DEF Describes
  <2>6. ToSet(t[d]) \cap S \subseteq ToSet(found)
    BY <1>1, <2>4, <2>5 DEF MacrosOf
  <2> HIDE DEF own, found
  <2>7. SUFFICES ASSUME own # << >>, found = << >> PROVE FALSE
    OBVIOUS
  <2>8. 1 \in DOMAIN own
    BY <2>3, <2>7
  <2>9. own[1] \in ToSet(own)
    BY <2>8 DEF ToSet
  <2>10. ToSet(found) = {}
    BY <2>7, OneSet
  <2> QED
    BY <2>3, <2>6, <2>9, <2>10
<1>8. Effective(t, n) = IF found = << >> THEN Absent ELSE found[Len(found)].body
  BY <1>4 DEF Effective, Called
<1> HIDE DEF found, own
<1>9. Effective(t, n) = IF own = << >> THEN Absent ELSE own[Len(own)].body
  BY <1>6, <1>7, <1>8 DEF EndsLike
<1> QED
  BY <1>9 DEF own

=============================================================================
