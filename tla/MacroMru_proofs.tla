-------------------------- MODULE MacroMru_proofs --------------------------
(***************************************************************************)
(* The proof that the macro store implements MruHistory: version numbers,  *)
(* checksums, promotion, pruning by number and rollback together behave as *)
(* a most-recently-used list of the contents of each macro.                *)
(***************************************************************************)
EXTENDS MacroScan_proofs, SequenceTheorems, WellFoundedInduction

-----------------------------------------------------------------------------
(***************************************************************************)
(* The history of one macro.  A listing enumerates its rows in the order   *)
(* of their numbers; there is exactly one, and its meanings are what Kept  *)
(* says.                                                                   *)
(***************************************************************************)

Meanings == {Meaning[t] : t \in Texts}

Rank(own, r) == Cardinality({o \in own : o.version <= r.version})

Nth(own, i) == CHOOSE r \in own : Rank(own, r) = i

History(own) == [i \in 1 .. Cardinality(own) |-> Meaning[Nth(own, i).text]]

Listing(own, k, e) ==
  /\ k \in Nat /\ e \in [1 .. k -> own]
  /\ \A r \in own : \E i \in 1 .. k : e[i] = r
  /\ \A x, y \in 1 .. k : x < y => e[x].version < e[y].version

\* A set of numbers has a least one.
LEMMA LeastNumber ==
  ASSUME NEW T, T \subseteq Nat, T # {}
  PROVE  \E x \in T : \A y \in T : x <= y
<1>1. PICK x \in T : \A y \in T : ~(<<y, x>> \in OpToRel(<, Nat))
  BY NatLessThanWellFounded, WFMin
<1>2. ASSUME NEW y \in T PROVE x <= y
  <2>1. x \in Nat /\ y \in Nat
    OBVIOUS
  <2>2. ~(y < x)
    <3>1. y < x => <<y, x>> \in OpToRel(<, Nat)
      BY <2>1 DEF OpToRel
    <3> QED
      BY <1>1, <3>1
  <2> QED
    BY <2>1, <2>2
<1> QED
  BY <1>2

\* Finitely many rows, no two with the same number.
Orderly(own) == /\ IsFiniteSet(own) /\ own \in SUBSET Row
                /\ \A r, s \in own : r.version = s.version => r = s

LEMMA KeptIsHistory ==
  ASSUME NEW R, NEW p \in Profiles, NEW f \in Files, NEW n \in Names
  PROVE  Kept(R)[<<p, f, n>>] = History(Own(R, p, f, n))
<1>1. <<p, f, n>> \in AllMacros
  BY DEF AllMacros
<1>2. \A m \in AllMacros : Kept(R)[m] = History(Own(R, m[1], m[2], m[3]))
  BY Zenon DEF Kept, History, Nth, Rank
<1>3. Kept(R)[<<p, f, n>>]
        = History(Own(R, <<p, f, n>>[1], <<p, f, n>>[2], <<p, f, n>>[3]))
  BY <1>1, <1>2, Zenon
<1>4. <<p, f, n>>[1] = p /\ <<p, f, n>>[2] = f /\ <<p, f, n>>[3] = n
  OBVIOUS
<1> QED
  BY <1>3, <1>4, Zenon

\* The rank of a row is its place.
LEMMA RankIsPlace ==
  ASSUME NEW own \in SUBSET Row, NEW k, NEW e, Listing(own, k, e), NEW i \in 1 .. k
  PROVE  Rank(own, e[i]) = i
<1> DEFINE below == {o \in own : o.version <= e[i].version}
           F == [x \in 1 .. i |-> e[x]]
<1>1. k \in Nat /\ i \in Nat /\ \A x \in 1 .. i : x \in 1 .. k
  BY DEF Listing
<1>2. \A x \in 1 .. k : e[x] \in own /\ e[x].version \in Nat
  BY DEF Listing, Row
<1>3. \A x, y \in 1 .. k : x < y => e[x].version < e[y].version
  BY DEF Listing
<1>4. \A x \in 1 .. k : e[x].version <= e[i].version <=> x <= i
  <2>1. ASSUME NEW x \in 1 .. k PROVE e[x].version <= e[i].version <=> x <= i
    <3>1. x < i => e[x].version < e[i].version
      BY <1>3
    <3>2. i < x => e[i].version < e[x].version
      BY <1>3
    <3> QED
      BY <1>1, <1>2, <3>1, <3>2
  <2> QED
    BY <2>1
<1>5. F \in [1 .. i -> below]
  BY <1>1, <1>2, <1>4
<1>6. \A r \in below : \E x \in 1 .. i : F[x] = r
  <2>1. \A r \in own : \E x \in 1 .. k : e[x] = r
    BY DEF Listing
  <2>2. \A x \in 1 .. k : x <= i => x \in 1 .. i
    BY <1>1
  <2> QED
    BY <1>4, <2>1, <2>2
<1>7. \A x, y \in 1 .. i : F[x] = F[y] => x = y
  <2>1. ASSUME NEW x \in 1 .. i, NEW y \in 1 .. i, F[x] = F[y] PROVE x = y
    <3>1. x \in 1 .. k /\ y \in 1 .. k /\ e[x] = e[y]
      BY <1>1, <2>1
    <3>2. ~(x < y) /\ ~(y < x)
      BY <1>2, <1>3, <3>1
    <3> QED
      BY <3>2
  <2> QED
    BY <2>1
<1> HIDE DEF below, F
<1>8. ExistsBijection(1 .. i, below)
  <2>1. F \in Bijection(1 .. i, below)
    BY <1>5, <1>6, <1>7, Fun_IsBij
  <2> QED
    BY <2>1 DEF ExistsBijection
<1>9. Cardinality(below) = i
  BY <1>1, <1>8, FS_CountingElements
<1> QED
  BY <1>9 DEF below, Rank

\* The history is what any listing spells out.
LEMMA ListingHistory ==
  ASSUME NEW own \in SUBSET Row, NEW k, NEW e, Listing(own, k, e)
  PROVE  History(own) = [i \in 1 .. k |-> Meaning[e[i].text]]
<1>1. k \in Nat /\ e \in [1 .. k -> own] /\ \A r \in own : \E i \in 1 .. k : e[i] = r
  BY DEF Listing
<1>2. \A i \in 1 .. k : Rank(own, e[i]) = i
  BY RankIsPlace
<1>3. Cardinality(own) = k
  <2>1. \A x, y \in 1 .. k : e[x] = e[y] => x = y
    BY <1>2
  <2>2. e \in Bijection(1 .. k, own)
    BY <1>1, <2>1, Fun_IsBij
  <2>3. ExistsBijection(1 .. k, own)
    BY <2>2 DEF ExistsBijection
  <2> QED
    BY <1>1, <2>3, FS_CountingElements
<1>4. ASSUME NEW i \in 1 .. k PROVE Nth(own, i) = e[i]
  <2>1. e[i] \in own /\ Rank(own, e[i]) = i
    BY <1>1, <1>2
  <2>2. \A r \in own : Rank(own, r) = i => r = e[i]
    BY <1>1, <1>2
  <2> QED
    BY <2>1, <2>2 DEF Nth
<1> QED
  BY <1>3, <1>4 DEF History

\* Every orderly set of rows has a listing.
LEMMA ListingExists ==
  ASSUME NEW own, Orderly(own)
  PROVE  \E k, e : Listing(own, k, e)
<1> DEFINE N == Cardinality(own)
           F == [r \in own |-> Rank(own, r)]
           below(r) == {o \in own : o.version <= r.version}
<1>1. /\ IsFiniteSet(own) /\ own \in SUBSET Row
      /\ \A r, s \in own : r.version = s.version => r = s
      /\ \A r \in own : r.version \in Nat
  BY DEF Orderly, Row
<1>2. N \in Nat
  BY <1>1, FS_CardinalityType
<1>3. ASSUME NEW r \in own
      PROVE  /\ IsFiniteSet(below(r)) /\ Rank(own, r) = Cardinality(below(r))
             /\ Rank(own, r) \in 1 .. N
  <2>1. below(r) \in SUBSET own /\ r \in below(r)
    BY <1>1
  <2>2. Rank(own, r) = Cardinality(below(r))
    BY DEF Rank
  <2> HIDE DEF below
  <2>3. IsFiniteSet(below(r)) /\ Cardinality(below(r)) <= N
    BY <1>1, <2>1, FS_Subset
  <2>4. Cardinality(below(r)) \in Nat /\ Cardinality(below(r)) # 0
    BY <2>1, <2>3, FS_CardinalityType, FS_EmptySet
  <2> HIDE DEF N
  <2> QED
    BY <1>2, <2>2, <2>3, <2>4
<1>4. ASSUME NEW r \in own, NEW s \in own, r.version < s.version
      PROVE  Rank(own, r) < Rank(own, s)
  <2>1. below(r) \in SUBSET below(s) /\ s \in below(s) /\ s \notin below(r)
    BY <1>1, <1>4
  <2> HIDE DEF below
  <2>2. /\ Cardinality(below(r)) <= Cardinality(below(s))
        /\ Cardinality(below(s)) # Cardinality(below(r))
    BY <1>3, <2>1, FS_Subset
  <2> QED
    BY <1>2, <1>3, <2>2
<1>5. \A r, s \in own : Rank(own, r) = Rank(own, s) => r = s
  <2>1. ASSUME NEW r \in own, NEW s \in own, Rank(own, r) = Rank(own, s) PROVE r = s
    <3>1. ~(r.version < s.version) /\ ~(s.version < r.version)
      <4> HIDE DEF N, below
      <4>1. Rank(own, r) \in 1 .. N /\ Rank(own, s) \in 1 .. N
        BY <1>3
      <4>2. r.version < s.version => Rank(own, r) < Rank(own, s)
        BY <1>4
      <4>3. s.version < r.version => Rank(own, s) < Rank(own, r)
        BY <1>4
      <4> QED
        BY <1>2, <2>1, <4>1, <4>2, <4>3
    <3> QED
      BY <1>1, <3>1
  <2> QED
    BY <2>1
<1>6. F \in [own -> 1 .. N] /\ \A r, s \in own : F[r] = F[s] => r = s
  BY <1>3, <1>5
<1>7. F \in Injection(own, 1 .. N)
  BY <1>6, Fun_IsInj
<1>8. IsFiniteSet(1 .. N) /\ Cardinality(1 .. N) = N
  BY <1>2, FS_Interval
<1>9. F \in Surjection(own, 1 .. N)
  <2>1. N = Cardinality(own)
    OBVIOUS
  <2> HIDE DEF N, F
  <2> QED
    BY <1>7, <1>8, <2>1, FS_Injection
<1>10. \A i \in 1 .. N : \E r \in own : Rank(own, r) = i
  <2>1. \A i \in 1 .. N : \E r \in own : F[r] = i
    BY <1>9 DEF Surjection
  <2> QED
    BY <2>1
<1> DEFINE e == [i \in 1 .. N |-> Nth(own, i)]
<1> HIDE DEF N, F, below
<1>11. \A i \in 1 .. N : Nth(own, i) \in own /\ Rank(own, Nth(own, i)) = i
  BY <1>10 DEF Nth
<1>12. Listing(own, N, e)
  <2>1. e \in [1 .. N -> own]
    BY <1>11
  <2>2. \A r \in own : \E i \in 1 .. N : e[i] = r
    BY <1>3, <1>5, <1>11
  <2>3. ASSUME NEW x \in 1 .. N, NEW y \in 1 .. N, x < y
        PROVE  e[x].version < e[y].version
    <3>1. e[x] \in own /\ e[y] \in own /\ Rank(own, e[x]) = x /\ Rank(own, e[y]) = y
      BY <1>11
    <3> HIDE DEF e
    <3>2. ~(e[y].version < e[x].version)
      BY <1>2, <1>4, <2>3, <3>1
    <3>3. e[x].version # e[y].version
      BY <1>1, <1>2, <2>3, <3>1
    <3> QED
      BY <1>1, <3>1, <3>2, <3>3
  <2> HIDE DEF e
  <2> QED
    BY <1>2, <2>1, <2>2, <2>3 DEF Listing
<1> QED
  BY <1>12

-----------------------------------------------------------------------------
(***************************************************************************)
(* Lists written out.                                                      *)
(***************************************************************************)

LEMMA WrittenOut ==
  ASSUME NEW S, NEW k \in Nat, NEW h, h \in [1 .. k -> S]
  PROVE  h \in Seq(S) /\ Len(h) = k /\ DOMAIN h = 1 .. k
OBVIOUS

LEMMA HistoryType ==
  ASSUME NEW own \in SUBSET Row, NEW k, NEW e, Listing(own, k, e)
  PROVE  /\ History(own) \in Seq(Meanings) /\ Len(History(own)) = k
         /\ DOMAIN History(own) = 1 .. k
         /\ \A i \in 1 .. k : History(own)[i] = Meaning[e[i].text]
<1>1. History(own) = [i \in 1 .. k |-> Meaning[e[i].text]]
  BY ListingHistory
<1>2. k \in Nat /\ \A i \in 1 .. k : e[i] \in Row
  BY DEF Listing
<1>3. \A i \in 1 .. k : Meaning[e[i].text] \in Meanings
  BY <1>2 DEF Row, Meanings
<1>4. History(own) \in [1 .. k -> Meanings]
  BY <1>1, <1>3
<1> QED
  BY <1>1, <1>2, <1>4, WrittenOut

LEMMA AppendOut ==
  ASSUME NEW S, NEW h \in Seq(S), NEW c \in S, NEW g \in Seq(S), Len(g) = Len(h) + 1,
         \A i \in 1 .. Len(h) : g[i] = h[i], g[Len(h) + 1] = c
  PROVE  g = Append(h, c)
<1>1. /\ Append(h, c) \in Seq(S) /\ Len(Append(h, c)) = Len(h) + 1
      /\ \A i \in 1 .. Len(h) : Append(h, c)[i] = h[i]
      /\ Append(h, c)[Len(h) + 1] = c
  BY AppendProperties
<1>2. Len(h) \in Nat
  BY LenProperties
<1>3. \A i \in 1 .. Len(g) : g[i] = Append(h, c)[i]
  <2>1. ASSUME NEW i \in 1 .. Len(g) PROVE g[i] = Append(h, c)[i]
    <3>1. i \in 1 .. Len(h) \/ i = Len(h) + 1
      BY <1>2
    <3> QED
      BY <1>1, <3>1
  <2> QED
    BY <2>1
<1> QED
  BY <1>1, <1>3, SeqEqual

LEMMA RemoveOut ==
  ASSUME NEW S, NEW h \in Seq(S), NEW j \in DOMAIN h
  PROVE  /\ Mru!RemoveAt(h, j) \in Seq(S) /\ Len(Mru!RemoveAt(h, j)) = Len(h) - 1
         /\ \A i \in 1 .. Len(h) - 1 :
              Mru!RemoveAt(h, j)[i] = IF i < j THEN h[i] ELSE h[i + 1]
<1> DEFINE a == SubSeq(h, 1, j - 1)
           b == SubSeq(h, j + 1, Len(h))
<1>1. Len(h) \in Nat /\ j \in 1 .. Len(h) /\ \A i \in 1 .. Len(h) : h[i] \in S
  BY LenProperties, ElementOfSeq
<1>2. /\ a \in Seq(S) /\ Len(a) = j - 1
      /\ \A i \in 1 .. j - 1 : a[i] = h[i]
  <2>1. 1 \in Int /\ j - 1 \in Int /\ \A i \in 1 .. j - 1 : h[i] \in S
    BY <1>1
  <2>2. /\ a \in Seq(S) /\ Len(a) = (IF 1 <= j - 1 THEN (j - 1) - 1 + 1 ELSE 0)
        /\ \A i \in 1 .. (j - 1) - 1 + 1 : a[i] = h[1 + i - 1]
    BY <2>1, SubSeqProperties
  <2> HIDE DEF a
  <2>3. \A i \in 1 .. j - 1 : i \in 1 .. (j - 1) - 1 + 1 /\ 1 + i - 1 = i
    BY <1>1
  <2>4. Len(a) = j - 1
    BY <1>1, <2>2
  <2> QED
    BY <2>2, <2>3, <2>4
<1>3. /\ b \in Seq(S) /\ Len(b) = Len(h) - j
      /\ \A i \in 1 .. Len(h) - j : b[i] = h[j + i]
  <2>1. j + 1 \in Int /\ Len(h) \in Int /\ \A i \in j + 1 .. Len(h) : h[i] \in S
    BY <1>1
  <2>2. /\ b \in Seq(S) /\ Len(b) = (IF j + 1 <= Len(h) THEN Len(h) - (j + 1) + 1 ELSE 0)
        /\ \A i \in 1 .. Len(h) - (j + 1) + 1 : b[i] = h[(j + 1) + i - 1]
    BY <2>1, SubSeqProperties
  <2> HIDE DEF b
  <2>3. \A i \in 1 .. Len(h) - j : i \in 1 .. Len(h) - (j + 1) + 1 /\ (j + 1) + i - 1 = j + i
    BY <1>1
  <2>4. Len(b) = Len(h) - j
    BY <1>1, <2>2
  <2> QED
    BY <2>2, <2>3, <2>4
<1>4. Mru!RemoveAt(h, j) = a \o b
  BY DEF Mru!RemoveAt
<1> HIDE DEF a, b
<1>5. /\ a \o b \in Seq(S) /\ Len(a \o b) = Len(a) + Len(b)
      /\ \A i \in 1 .. Len(a) + Len(b) : (a \o b)[i] = IF i <= Len(a) THEN a[i] ELSE b[i - Len(a)]
  BY <1>2, <1>3, ConcatProperties
<1>6. ASSUME NEW i \in 1 .. Len(h) - 1
      PROVE  (a \o b)[i] = IF i < j THEN h[i] ELSE h[i + 1]
  <2>1. i \in 1 .. Len(a) + Len(b)
    BY <1>1, <1>2, <1>3
  <2>2. CASE i < j
    <3>1. i <= Len(a) /\ i \in 1 .. j - 1
      BY <1>1, <1>2, <2>2
    <3> QED
      BY <1>2, <1>5, <2>1, <2>2, <3>1
  <2>3. CASE ~(i < j)
    <3>1. ~(i <= Len(a)) /\ i - Len(a) \in 1 .. Len(h) - j /\ j + (i - Len(a)) = i + 1
      BY <1>1, <1>2, <2>3
    <3>2. b[i - Len(a)] = h[i + 1]
      BY <1>3, <3>1
    <3> QED
      BY <1>5, <2>1, <2>3, <3>1, <3>2
  <2> QED
    BY <2>2, <2>3
<1>7. Len(a \o b) = Len(h) - 1
  BY <1>1, <1>2, <1>3, <1>5
<1> QED
  BY <1>4, <1>5, <1>6, <1>7

-----------------------------------------------------------------------------
(***************************************************************************)
(* What the operations on the rows of a macro do to its history.           *)
(***************************************************************************)

\* Rewriting flags and numbers keeps it, as long as it keeps the order.
LEMMA RewrittenHistory ==
  ASSUME NEW own, Orderly(own), NEW new \in SUBSET Row, NEW F,
         new = {F[r] : r \in own},
         \A r \in own : F[r].text = r.text,
         \A r, s \in own : r.version < s.version => F[r].version < F[s].version
  PROVE  History(new) = History(own)
<1>1. PICK k, e : Listing(own, k, e)
  BY ListingExists
<1>2. k \in Nat /\ (\A i \in 1 .. k : e[i] \in own) /\ own \in SUBSET Row
  BY <1>1 DEF Listing, Orderly
<1> DEFINE d == [i \in 1 .. k |-> F[e[i]]]
<1>3. Listing(new, k, d)
  <2>1. d \in [1 .. k -> new]
    BY <1>2
  <2>2. \A x \in new : \E i \in 1 .. k : d[i] = x
    BY <1>1 DEF Listing
  <2>3. \A x, y \in 1 .. k : x < y => d[x].version < d[y].version
    BY <1>1, <1>2 DEF Listing
  <2> HIDE DEF d
  <2> QED
    BY <1>2, <2>1, <2>2, <2>3 DEF Listing
<1>4. \A i \in 1 .. k : d[i].text = e[i].text
  BY <1>2
<1> HIDE DEF d
<1>5. History(new) = [i \in 1 .. k |-> Meaning[d[i].text]]
  BY <1>3, ListingHistory
<1>6. History(own) = [i \in 1 .. k |-> Meaning[e[i].text]]
  BY <1>1, <1>2, ListingHistory
<1> QED
  BY <1>4, <1>5, <1>6

\* A row above all others is the newest entry.
LEMMA AddedHistory ==
  ASSUME NEW own, Orderly(own), NEW new \in Row, \A r \in own : r.version < new.version
  PROVE  History(own \cup {new}) = Append(History(own), Meaning[new.text])
<1>1. PICK k, e : Listing(own, k, e)
  BY ListingExists
<1>2. k \in Nat /\ (\A i \in 1 .. k : e[i] \in own) /\ own \in SUBSET Row
  BY <1>1 DEF Listing, Orderly
<1> DEFINE d == [i \in 1 .. k + 1 |-> IF i = k + 1 THEN new ELSE e[i]]
<1>3. \A i \in 1 .. k + 1 : i = k + 1 \/ i \in 1 .. k
  BY <1>2
<1>4. \A i \in 1 .. k : d[i] = e[i] /\ i \in 1 .. k + 1
  BY <1>2
<1>5. d[k + 1] = new /\ k + 1 \in 1 .. k + 1
  BY <1>2
<1>6. Listing(own \cup {new}, k + 1, d)
  <2>1. d \in [1 .. k + 1 -> own \cup {new}]
    BY <1>2, <1>3
  <2> HIDE DEF d
  <2>2. \A x \in own \cup {new} : \E i \in 1 .. k + 1 : d[i] = x
    BY <1>1, <1>4, <1>5 DEF Listing
  <2>3. ASSUME NEW x \in 1 .. k + 1, NEW y \in 1 .. k + 1, x < y
        PROVE  d[x].version < d[y].version
    <3>1. x \in 1 .. k
      BY <1>2, <1>3, <2>3
    <3>2. CASE y = k + 1
      BY <1>2, <1>4, <1>5, <3>1, <3>2
    <3>3. CASE y \in 1 .. k
      BY <1>1, <1>4, <2>3, <3>1, <3>3 DEF Listing
    <3> QED
      BY <1>3, <3>2, <3>3
  <2> QED
    BY <1>2, <2>1, <2>2, <2>3 DEF Listing
<1> HIDE DEF d
<1> DEFINE h == History(own)
           g == History(own \cup {new})
<1>7. /\ h \in Seq(Meanings) /\ Len(h) = k
      /\ \A i \in 1 .. k : h[i] = Meaning[e[i].text]
  BY <1>1, <1>2, HistoryType
<1>8. /\ g \in Seq(Meanings) /\ Len(g) = k + 1
      /\ \A i \in 1 .. k + 1 : g[i] = Meaning[d[i].text]
  <2> DEFINE all == own \cup {new}
  <2>1. all \in SUBSET Row /\ Listing(all, k + 1, d) /\ g = History(all)
    BY <1>2, <1>6
  <2> HIDE DEF all, g
  <2> QED
    BY <2>1, HistoryType
<1>9. Meaning[new.text] \in Meanings
  BY DEF Meanings, Row
<1> HIDE DEF h, g
<1>10. (\A i \in 1 .. Len(h) : g[i] = h[i]) /\ g[Len(h) + 1] = Meaning[new.text]
  BY <1>4, <1>5, <1>7, <1>8
<1>11. g = Append(h, Meaning[new.text])
  BY <1>7, <1>8, <1>9, <1>10, AppendOut
<1> QED
  BY <1>11 DEF h, g

\* A row that is dropped takes its entry along.
LEMMA RemovedHistory ==
  ASSUME NEW own, Orderly(own), NEW r \in own
  PROVE  \E j \in DOMAIN History(own) :
           /\ History(own)[j] = Meaning[r.text]
           /\ History(own \ {r}) = Mru!RemoveAt(History(own), j)
<1>1. PICK k, e : Listing(own, k, e)
  BY ListingExists
<1>2. k \in Nat /\ (\A i \in 1 .. k : e[i] \in own) /\ own \in SUBSET Row
  BY <1>1 DEF Listing, Orderly
<1>3. \A x, y \in 1 .. k : x < y => e[x].version < e[y].version
  BY <1>1 DEF Listing
<1>4. PICK j \in 1 .. k : e[j] = r
  BY <1>1 DEF Listing
<1> DEFINE d == [i \in 1 .. k - 1 |-> IF i < j THEN e[i] ELSE e[i + 1]]
<1>5. \A i \in 1 .. k : e[i].version \in Nat
  BY <1>2 DEF Row
<1>6. \A i \in 1 .. k - 1 : i \in 1 .. k /\ i + 1 \in 1 .. k /\ i \in Nat /\ j \in Nat
  BY <1>2
<1>7. \A i \in 1 .. k : i # j => e[i] # r
  BY <1>2, <1>3, <1>4, <1>5
<1>8. Listing(own \ {r}, k - 1, d)
  <2>1. d \in [1 .. k - 1 -> own \ {r}]
    <3>1. ASSUME NEW i \in 1 .. k - 1 PROVE d[i] \in own \ {r}
      <4>1. d[i] = IF i < j THEN e[i] ELSE e[i + 1]
        OBVIOUS
      <4> QED
        BY <1>2, <1>6, <1>7, <4>1
    <3> QED
      BY <3>1
  <2>2. \A x \in own \ {r} : \E i \in 1 .. k - 1 : d[i] = x
    <3>1. ASSUME NEW x \in own \ {r} PROVE \E i \in 1 .. k - 1 : d[i] = x
      <4>1. PICK z \in 1 .. k : e[z] = x
        BY <1>1 DEF Listing
      <4>2. z # j
        BY <1>4, <4>1
      <4>3. CASE z < j
        <5>1. z \in 1 .. k - 1 /\ d[z] = x
          BY <1>2, <4>1, <4>3
        <5> QED
          BY <5>1
      <4>4. CASE z > j
        <5>1. z - 1 \in 1 .. k - 1 /\ ~(z - 1 < j) /\ (z - 1) + 1 = z
          BY <1>2, <4>4
        <5>2. d[z - 1] = x
          BY <4>1, <5>1
        <5> QED
          BY <5>1, <5>2
      <4> QED
        BY <1>2, <4>2, <4>3, <4>4
    <3> QED
      BY <3>1
  <2>3. ASSUME NEW x \in 1 .. k - 1, NEW y \in 1 .. k - 1, x < y
        PROVE  d[x].version < d[y].version
    <3>1. d[x] = (IF x < j THEN e[x] ELSE e[x + 1]) /\ d[y] = (IF y < j THEN e[y] ELSE e[y + 1])
      OBVIOUS
    <3> HIDE DEF d
    <3>2. /\ e[x].version < e[y].version
          /\ e[x].version < e[y + 1].version
          /\ e[x + 1].version < e[y + 1].version
      BY <1>3, <1>6, <2>3
    <3> QED
      BY <1>6, <2>3, <3>1, <3>2
  <2> HIDE DEF d
  <2>4. k - 1 \in Nat
    BY <1>2
  <2> QED
    BY <2>1, <2>2, <2>3, <2>4 DEF Listing
<1>9. \A i \in 1 .. k - 1 : d[i] = IF i < j THEN e[i] ELSE e[i + 1]
  OBVIOUS
<1> HIDE DEF d
<1> DEFINE h == History(own)
           g == History(own \ {r})
<1>10. /\ h \in Seq(Meanings) /\ Len(h) = k /\ DOMAIN h = 1 .. k
       /\ \A i \in 1 .. k : h[i] = Meaning[e[i].text]
  BY <1>1, <1>2, HistoryType
<1>11. /\ g \in Seq(Meanings) /\ Len(g) = k - 1
       /\ \A i \in 1 .. k - 1 : g[i] = Meaning[d[i].text]
  <2> DEFINE rest == own \ {r}
  <2>1. rest \in SUBSET Row /\ Listing(rest, k - 1, d) /\ g = History(rest)
    BY <1>2, <1>8
  <2> HIDE DEF rest, g
  <2> QED
    BY <2>1, HistoryType
<1> HIDE DEF h, g
<1>12. /\ Mru!RemoveAt(h, j) \in Seq(Meanings) /\ Len(Mru!RemoveAt(h, j)) = k - 1
       /\ \A i \in 1 .. k - 1 :
            Mru!RemoveAt(h, j)[i] = IF i < j THEN h[i] ELSE h[i + 1]
  <2>1. j \in DOMAIN h
    BY <1>10
  <2> QED
    BY <1>10, <2>1, RemoveOut
<1>13. \A i \in 1 .. k - 1 : g[i] = Mru!RemoveAt(h, j)[i]
  BY <1>6, <1>9, <1>10, <1>11, <1>12
<1>14. g = Mru!RemoveAt(h, j)
  BY <1>11, <1>12, <1>13, SeqEqual
<1> QED
  BY <1>4, <1>10, <1>14 DEF h, g

\* Promoting a version moves its entry to the end.
LEMMA PromotedHistory ==
  ASSUME NEW own, Orderly(own), NEW m \in own, NEW l, Top(own, l), NEW t \in Texts,
         Meaning[m.text] = Meaning[t]
  PROVE  History(Promoted(own, m, l, t)) \in Mru!Moved(History(own), Meaning[t])
<1> DEFINE G == [r \in own |-> PromotedRow(m, l, t, r)]
           rest == own \ {m}
           moved == {G[r] : r \in rest}
<1>1. /\ IsFiniteSet(own) /\ own \in SUBSET Row
      /\ \A r, s \in own : r.version = s.version => r = s
      /\ \A r \in own : r \in Row /\ r.version \in Nat
  BY DEF Orderly, Row
<1>2. l \in own /\ \A o \in own : o.version <= l.version
  BY DEF Top
<1>3. \A r \in own : /\ G[r].version = Number(m, l, r)
                     /\ G[r].text = (IF r = m THEN t ELSE r.text)
  BY <1>1, PromotedFields
<1>4. Promoted(own, m, l, t) \in SUBSET Row
  BY <1>1, <1>2, PromotedType
<1>5. Promoted(own, m, l, t) = moved \cup {G[m]}
  <2>1. Promoted(own, m, l, t) = {PromotedRow(m, l, t, r) : r \in own}
    BY PromotedRows
  <2> QED
    BY <2>1
<1> HIDE DEF G
<1>6. moved \in SUBSET Row /\ G[m] \in Row
  BY <1>4, <1>5
<1>7. \A r \in rest : r \in own /\ r # m
  OBVIOUS
<1>8. Orderly(rest)
  <2>1. IsFiniteSet(rest)
    BY <1>1, FS_Subset
  <2> HIDE DEF rest
  <2> QED
    BY <1>1, <1>7, <2>1 DEF Orderly
<1>9. \A r, s \in rest : r.version < s.version => G[r].version < G[s].version
  <2> HIDE DEF rest
  <2>1. ASSUME NEW r \in rest, NEW s \in rest, r.version < s.version
        PROVE  G[r].version < G[s].version
    <3>1. r \in own /\ s \in own /\ r # m /\ s # m
      BY <1>7
    <3>2. /\ G[r].version = (IF m.version < r.version THEN r.version - 1 ELSE r.version)
          /\ G[s].version = (IF m.version < s.version THEN s.version - 1 ELSE s.version)
      BY <1>3, <3>1 DEF Number
    <3>3. r.version # m.version /\ s.version # m.version
      BY <1>1, <3>1
    <3>4. r.version \in Nat /\ s.version \in Nat /\ m.version \in Nat
      BY <1>1, <3>1
    <3> QED
      BY <2>1, <3>2, <3>3, <3>4
  <2> QED
    BY <2>1
<1>10. \A r \in rest : G[r].text = r.text /\ G[r].version < l.version
  <2> HIDE DEF rest
  <2>1. ASSUME NEW r \in rest PROVE G[r].text = r.text /\ G[r].version < l.version
    <3>1. r \in own /\ r # m /\ r.version # m.version /\ r.version <= l.version
          /\ m.version <= l.version
      BY <1>1, <1>2, <1>7
    <3>2. r.version \in Nat /\ m.version \in Nat /\ l.version \in Nat
      BY <1>1, <1>2, <3>1
    <3>3. G[r].version = (IF m.version < r.version THEN r.version - 1 ELSE r.version)
      BY <1>3, <3>1 DEF Number
    <3>4. G[r].version < l.version
      BY <3>1, <3>2, <3>3
    <3> QED
      BY <1>3, <3>1, <3>4
  <2> QED
    BY <2>1
<1>11. G[m].version = l.version /\ G[m].text = t
  BY <1>3 DEF Number
<1>12. History(moved) = History(rest)
  BY <1>6, <1>8, <1>9, <1>10, RewrittenHistory
<1>13. Orderly(moved)
  <2>1. IsFiniteSet(moved)
    <3> DEFINE K == [r \in rest |-> G[r]]
    <3>1. IsFiniteSet(rest) /\ K \in [rest -> moved] /\ moved = {K[r] : r \in rest}
      BY <1>8 DEF Orderly
    <3> HIDE DEF K, rest, moved
    <3> QED
      BY <3>1, FiniteImage
  <2>2. \A x, y \in moved : x.version = y.version => x = y
    <3>1. ASSUME NEW r \in rest, NEW s \in rest, G[r].version = G[s].version PROVE G[r] = G[s]
      <4>1. /\ ~(r.version < s.version) /\ ~(s.version < r.version)
            /\ r \in own /\ s \in own
        <5>1. G[r] \in moved /\ G[s] \in moved
          OBVIOUS
        <5>2. G[r].version \in Nat /\ G[s].version \in Nat
          <6> HIDE DEF moved, rest
          <6> QED
            BY <1>6, <5>1 DEF Row
        <5> HIDE DEF rest
        <5> QED
          BY <1>7, <1>9, <3>1, <5>2
      <4>2. r.version = s.version
        BY <1>1, <4>1
      <4> QED
        BY <1>1, <4>1, <4>2
    <3> HIDE DEF rest
    <3> QED
      BY <3>1
  <2> HIDE DEF moved
  <2> QED
    BY <1>6, <2>1, <2>2 DEF Orderly
<1>14. \A x \in moved : x.version < G[m].version
  BY <1>10, <1>11
<1>15. PICK j \in DOMAIN History(own) :
         /\ History(own)[j] = Meaning[m.text]
         /\ History(rest) = Mru!RemoveAt(History(own), j)
  BY RemovedHistory
<1> HIDE DEF moved, rest
<1>16. History(moved \cup {G[m]}) = Append(History(moved), Meaning[G[m].text])
  BY <1>6, <1>13, <1>14, AddedHistory
<1>17. History(Promoted(own, m, l, t)) = Append(Mru!RemoveAt(History(own), j), Meaning[t])
  BY <1>5, <1>11, <1>12, <1>15, <1>16, Zenon
<1>18. j \in {i \in DOMAIN History(own) : History(own)[i] = Meaning[t]}
  BY <1>15
<1> QED
  BY <1>17, <1>18, Zenon DEF Mru!Moved

\* The rows above a number are the end of the history.
LEMMA SuffixHistory ==
  ASSUME NEW own, Orderly(own), NEW v \in Int
  PROVE  LET high == {r \in own : r.version > v}
         IN  \E q \in 1 .. Len(History(own)) + 1 :
               /\ History(high) = SubSeq(History(own), q, Len(History(own)))
               /\ Cardinality(high) = Len(History(own)) - q + 1
<1>1. PICK k, e : Listing(own, k, e)
  BY ListingExists
<1>2. k \in Nat /\ (\A i \in 1 .. k : e[i] \in own) /\ own \in SUBSET Row
  BY <1>1 DEF Listing, Orderly
<1>3. \A x, y \in 1 .. k : x < y => e[x].version < e[y].version
  BY <1>1 DEF Listing
<1>4. \A i \in 1 .. k : e[i].version \in Nat
  BY <1>2 DEF Row
<1> DEFINE high == {r \in own : r.version > v}
           T == {i \in 1 .. k + 1 : i = k + 1 \/ e[i] \in high}
<1>5. PICK q \in T : \A i \in T : q <= i
  <2>1. T \subseteq Nat /\ k + 1 \in T
    BY <1>2
  <2> HIDE DEF T
  <2> QED
    BY <2>1, LeastNumber
<1>6. q \in 1 .. k + 1 /\ q \in Nat /\ \A i \in 1 .. k : e[i] \in high <=> q <= i
  <2>1. q \in 1 .. k + 1 /\ q \in Nat /\ (q = k + 1 \/ e[q] \in high)
    BY <1>2, <1>5
  <2>2. ASSUME NEW i \in 1 .. k PROVE e[i] \in high <=> q <= i
    <3>1. e[i] \in high => q <= i
      <4>1. e[i] \in high => i \in T
        BY <1>2
      <4> HIDE DEF T
      <4> QED
        BY <1>5, <4>1
    <3>2. ASSUME q <= i PROVE e[i] \in high
      <4>1. q \in 1 .. k /\ e[q] \in high
        BY <1>2, <2>1, <3>2
      <4>2. e[q].version <= e[i].version
        <5>1. q = i \/ e[q].version < e[i].version
          BY <1>2, <1>3, <2>1, <3>2, <4>1
        <5> QED
          BY <1>4, <4>1, <5>1
      <4>3. e[i].version > v
        BY <1>4, <4>1, <4>2
      <4> QED
        BY <1>2, <4>3
    <3> QED
      BY <3>1, <3>2
  <2> QED
    BY <2>1, <2>2
<1> HIDE DEF T
<1> DEFINE w == k - q + 1
           d == [i \in 1 .. w |-> e[i + q - 1]]
<1>7. w \in Nat /\ \A i \in 1 .. w : /\ i + q - 1 \in 1 .. k /\ q <= i + q - 1
                                     /\ i \in Nat /\ q + i - 1 = i + q - 1
  BY <1>2, <1>6
<1>8. high \in SUBSET Row /\ high \in SUBSET own
  BY <1>2
<1> HIDE DEF high, w
<1>9. Listing(high, w, d)
  <2>1. d \in [1 .. w -> high]
    BY <1>6, <1>7
  <2>2. \A r \in high : \E i \in 1 .. w : d[i] = r
    <3>1. ASSUME NEW r \in high PROVE \E i \in 1 .. w : d[i] = r
      <4>1. PICK z \in 1 .. k : e[z] = r
        BY <1>1, <1>8 DEF Listing
      <4>2. q <= z
        BY <1>6, <4>1
      <4>3. z - q + 1 \in 1 .. w /\ (z - q + 1) + q - 1 = z
        BY <1>2, <1>6, <4>2 DEF w
      <4>4. d[z - q + 1] = r
        BY <4>1, <4>3
      <4> QED
        BY <4>3, <4>4
    <3> QED
      BY <3>1
  <2>3. ASSUME NEW x \in 1 .. w, NEW y \in 1 .. w, x < y
        PROVE  d[x].version < d[y].version
    <3>1. d[x] = e[x + q - 1] /\ d[y] = e[y + q - 1]
      OBVIOUS
    <3>2. x + q - 1 < y + q - 1
      BY <1>6, <1>7, <2>3
    <3> QED
      BY <1>3, <1>7, <3>1, <3>2
  <2> HIDE DEF d
  <2> QED
    BY <1>7, <2>1, <2>2, <2>3 DEF Listing
<1>10. \A i \in 1 .. w : d[i] = e[i + q - 1]
  OBVIOUS
<1> HIDE DEF d
<1> DEFINE h == History(own)
           g == History(high)
<1>11. /\ h \in Seq(Meanings) /\ Len(h) = k
       /\ \A i \in 1 .. k : h[i] = Meaning[e[i].text]
  BY <1>1, <1>2, HistoryType
<1>12. /\ g \in Seq(Meanings) /\ Len(g) = w
       /\ \A i \in 1 .. w : g[i] = Meaning[d[i].text]
  BY <1>8, <1>9, HistoryType
<1>13. Cardinality(high) = w
  <2>1. DOMAIN g = 1 .. Cardinality(high)
    BY DEF History
  <2>2. DOMAIN g = 1 .. w
    <3> HIDE DEF g
    <3> QED
      BY <1>12
  <2>3. Cardinality(high) \in Nat
    <3>1. IsFiniteSet(high)
      BY <1>8, FS_Subset DEF Orderly
    <3> QED
      BY <3>1, FS_CardinalityType
  <2> QED
    BY <1>7, <2>1, <2>2, <2>3
<1> HIDE DEF h, g
<1> DEFINE b == SubSeq(h, q, Len(h))
<1>14. /\ b \in Seq(Meanings) /\ Len(b) = w
       /\ \A i \in 1 .. w : b[i] = h[i + q - 1]
  <2>1. q \in Int /\ Len(h) \in Int /\ \A i \in q .. Len(h) : h[i] \in Meanings
    <3>1. \A i \in q .. Len(h) : i \in 1 .. Len(h)
      BY <1>2, <1>6, <1>11
    <3> QED
      BY <1>2, <1>6, <1>11, <3>1, ElementOfSeq
  <2>2. /\ b \in Seq(Meanings) /\ Len(b) = (IF q <= Len(h) THEN Len(h) - q + 1 ELSE 0)
        /\ \A i \in 1 .. Len(h) - q + 1 : b[i] = h[q + i - 1]
    BY <2>1, SubSeqProperties
  <2> HIDE DEF b
  <2>3. Len(b) = w
    BY <1>2, <1>6, <1>11, <2>2 DEF w
  <2>4. \A i \in 1 .. w : b[i] = h[q + i - 1]
    BY <1>11, <2>2 DEF w
  <2> QED
    BY <1>7, <2>2, <2>3, <2>4
<1> HIDE DEF b
<1>15. \A i \in 1 .. w : g[i] = b[i]
  <2>1. ASSUME NEW i \in 1 .. w PROVE g[i] = b[i]
    <3>1. g[i] = Meaning[e[i + q - 1].text]
      BY <1>10, <1>12
    <3>2. b[i] = h[i + q - 1] /\ i + q - 1 \in 1 .. k
      BY <1>7, <1>14
    <3> QED
      BY <1>11, <3>1, <3>2
  <2> QED
    BY <2>1
<1>16. g = b
  BY <1>12, <1>14, <1>15, SeqEqual
<1>17. q \in 1 .. Len(h) + 1 /\ Cardinality(high) = Len(h) - q + 1
  BY <1>6, <1>11, <1>13 DEF w
<1> QED
  BY <1>16, <1>17 DEF b, g, h, high

\* A new meaning on top and the lowest numbers pruned: the newest of the old
\* entries stay, no more than fit beside the new one.
LEMMA PrunedHistory ==
  ASSUME NEW own, Orderly(own), NEW l, Top(own, l), NEW new \in Row,
         new.version = l.version + 1
  PROVE  History({r \in own : r.version + MaxVersions > l.version + 1} \cup {new})
           \in Mru!Appended(History(own), Meaning[new.text])
<1> DEFINE v == l.version + 1 - MaxVersions
           high == {r \in own : r.version > v}
           h == History(own)
<1>1. /\ IsFiniteSet(own) /\ own \in SUBSET Row
      /\ \A r, s \in own : r.version = s.version => r = s
      /\ \A r \in own : r \in Row /\ r.version \in Nat
  BY DEF Orderly, Row
<1>2. l \in own /\ \A o \in own : o.version <= l.version
  BY DEF Top
<1>3. MaxVersions \in Nat /\ MaxVersions > 0 /\ l.version \in Nat /\ v \in Int
  BY <1>1, <1>2, BoundsAssumption
<1>4. {r \in own : r.version + MaxVersions > l.version + 1} = high
  <2>1. \A r \in own : r.version + MaxVersions > l.version + 1 <=> r.version > v
    BY <1>1, <1>3
  <2> QED
    BY <2>1
<1>5. PICK q \in 1 .. Len(h) + 1 : /\ History(high) = SubSeq(h, q, Len(h))
                                   /\ Cardinality(high) = Len(h) - q + 1
  <2> HIDE DEF v
  <2> QED
    BY <1>3, SuffixHistory
<1>6. high \in SUBSET own /\ \A r \in high : r.version > v
  OBVIOUS
<1> HIDE DEF high, v
<1>7. Orderly(high)
  <2>1. IsFiniteSet(high)
    BY <1>1, <1>6, FS_Subset
  <2> QED
    BY <1>1, <1>6, <2>1 DEF Orderly
<1>8. Cardinality(high) <= MaxVersions - 1
  <2> DEFINE a == l.version + 2 - MaxVersions
             F == [r \in high |-> r.version]
             b == l.version
  <2>1. /\ IsFiniteSet(a .. l.version)
        /\ Cardinality(a .. l.version) = IF a > l.version THEN 0 ELSE l.version - a + 1
    <3>1. a \in Int /\ b \in Int /\ b = l.version
      BY <1>3
    <3> HIDE DEF a, b
    <3>2. IsFiniteSet(a .. b) /\ Cardinality(a .. b) = IF a > b THEN 0 ELSE b - a + 1
      BY <3>1, FS_Interval
    <3> QED
      BY <3>1, <3>2
  <2>2. \A r \in high : F[r] \in a .. l.version
    BY <1>1, <1>2, <1>3, <1>6 DEF v
  <2>3. \A r, s \in high : F[r] = F[s] => r = s
    BY <1>1, <1>6
  <2>4. F \in Injection(high, a .. l.version)
    <3>1. F \in [high -> a .. l.version]
      BY <2>2
    <3> HIDE DEF F
    <3> QED
      BY <2>3, <3>1, Fun_IsInj
  <2>5. Cardinality(a .. l.version) = MaxVersions - 1
    BY <1>3, <2>1
  <2> HIDE DEF a, F
  <2>6. Cardinality(high) <= Cardinality(a .. l.version)
    BY <2>1, <2>4, FS_Injection
  <2> QED
    BY <2>5, <2>6
<1>9. History(high \cup {new}) = Append(History(high), Meaning[new.text])
  <2>1. \A r \in high : r.version < new.version
    BY <1>1, <1>2, <1>6
  <2> QED
    BY <1>7, <2>1, AddedHistory
<1>10. Len(h) \in Nat
  <2>1. PICK k, e : Listing(own, k, e)
    BY ListingExists
  <2> QED
    BY <1>1, <2>1, HistoryType DEF Listing
<1> HIDE DEF h
<1>11. q \in {k \in 1 .. Len(h) + 1 : Len(h) - k + 2 <= MaxVersions}
  BY <1>3, <1>5, <1>8, <1>10
<1>12. History(high \cup {new}) = Append(SubSeq(h, q, Len(h)), Meaning[new.text])
  BY <1>5, <1>9
<1>13. History(high \cup {new}) \in Mru!Appended(h, Meaning[new.text])
  BY <1>11, <1>12, Zenon DEF Mru!Appended
<1> QED
  BY <1>4, <1>13 DEF h

\* A macro without rows has no history.
LEMMA NoHistory == History({}) = << >>
<1>1. Cardinality({}) = 0
  BY FS_EmptySet
<1>2. 1 .. 0 = {}
  OBVIOUS
<1>3. History({}) = [i \in {} |-> Meaning[Nth({}, i).text]]
  BY <1>1, <1>2, Zenon DEF History
<1> QED
  BY <1>3

\* Taking a record touches its meaning in the history of its macro.
LEMMA UpsertedHistory ==
  ASSUME NEW own, Orderly(own), NEW p \in Profiles, NEW rec \in Record,
         OneMacro(own, p, rec.file, rec.name), NEW new \in Upserted(own, p, rec)
  PROVE  History(new) \in Mru!Touched(History(own), Meaning[rec.text])
<1> DEFINE N(v) == NewRow(p, rec.file, rec.name, v, rec.text, FALSE)
           c == Meaning[rec.text]
           h == History(own)
<1>1. own \in SUBSET Row /\ \A r \in own : r.version \in Nat
  BY DEF Orderly, Row
<1>2. rec.file \in Files /\ rec.name \in Names /\ rec.text \in Texts
  BY DEF Record
<1>3. \A v \in Nat \ {0} : N(v) \in Row /\ N(v).version = v /\ N(v).text = rec.text
  <2>1. ASSUME NEW v \in Nat \ {0}
        PROVE  N(v) \in Row /\ N(v).version = v /\ N(v).text = rec.text
    <3>1. N(v) \in Row
      BY <1>2, NewRowType
    <3>2. N(v).version = v /\ N(v).text = rec.text
      BY DEF NewRow
    <3> QED
      BY <3>1, <3>2
  <2> QED
    BY <2>1
<1>4. \/ own = {} /\ new = {N(1)}
      \/ \E l \in own : /\ Top(own, l)
                        /\ \A r \in own : Meaning[r.text] # Meaning[rec.text]
                        /\ new = {r \in own : r.version + MaxVersions > l.version + 1}
                                   \cup {N(l.version + 1)}
      \/ \E l \in own, m \in own : /\ Top(own, l)
                                   /\ Meaning[m.text] = Meaning[rec.text]
                                   /\ new = Promoted(own, m, l, rec.text)
  BY <1>1, UpsertedCases, Zenon
<1> HIDE DEF N
<1>5. PICK k, e : Listing(own, k, e)
  BY ListingExists
<1>6. /\ h \in Seq(Meanings) /\ Len(h) = k /\ DOMAIN h = 1 .. k /\ k \in Nat
      /\ \A i \in 1 .. k : h[i] = Meaning[e[i].text]
      /\ \A i \in 1 .. k : e[i] \in own
      /\ \A r \in own : \E i \in 1 .. k : e[i] = r
  <2>1. /\ k \in Nat /\ \A i \in 1 .. k : e[i] \in own
        /\ \A r \in own : \E i \in 1 .. k : e[i] = r
    BY <1>5 DEF Listing
  <2> QED
    BY <1>1, <1>5, <2>1, HistoryType
<1>7. c \in Mru!ToSet(h) <=> \E i \in 1 .. k : h[i] = c
  <2> HIDE DEF h, c
  <2> QED
    BY <1>6 DEF Mru!ToSet
<1>8. CASE own = {} /\ new = {N(1)}
  <2>1. h = << >> /\ k = 0
    <3>1. h = << >>
      BY <1>8, NoHistory
    <3> HIDE DEF h
    <3> QED
      BY <1>6, <3>1
  <2>2. N(1) \in Row /\ N(1).version = 1 /\ N(1).text = rec.text
    BY <1>3
  <2>3. Orderly({}) /\ own = {}
    BY <1>8, FS_EmptySet DEF Orderly
  <2>4. History({} \cup {N(1)}) = Append(History({}), c)
    BY <2>2, <2>3, AddedHistory
  <2>5. {} \cup {N(1)} = new
    BY <1>8
  <2>6. History(new) = Append(h, c)
    BY <2>3, <2>4, <2>5
  <2>7. c \notin Mru!ToSet(h)
    <3> HIDE DEF h, c
    <3> QED
      BY <1>7, <2>1
  <2> HIDE DEF h, c
  <2>8. SubSeq(h, 1, Len(h)) = h
    BY <2>1
  <2>9. 1 \in {q \in 1 .. Len(h) + 1 : Len(h) - q + 2 <= MaxVersions}
    BY <1>6, <2>1, BoundsAssumption
  <2>10. Append(SubSeq(h, 1, Len(h)), c) \in Mru!Appended(h, c)
    BY <2>9 DEF Mru!Appended
  <2>11. History(new) \in Mru!Touched(h, c)
    BY <2>6, <2>7, <2>8, <2>10 DEF Mru!Touched
  <2> QED
    BY <2>11 DEF h, c
<1>9. ASSUME NEW l \in own, Top(own, l),
             \A r \in own : Meaning[r.text] # Meaning[rec.text],
             new = {r \in own : r.version + MaxVersions > l.version + 1}
                     \cup {N(l.version + 1)}
      PROVE  History(new) \in Mru!Touched(h, c)
  <2>1. l.version + 1 \in Nat \ {0}
    BY <1>1
  <2>2. /\ N(l.version + 1) \in Row /\ N(l.version + 1).version = l.version + 1
        /\ N(l.version + 1).text = rec.text
    BY <1>3, <2>1
  <2>3. History(new) \in Mru!Appended(h, Meaning[N(l.version + 1).text])
    BY <1>9, <2>2, PrunedHistory
  <2>4. \A i \in 1 .. k : h[i] # c
    BY <1>6, <1>9
  <2>5. c = Meaning[N(l.version + 1).text]
    BY <2>2
  <2> HIDE DEF h, c
  <2>6. c \notin Mru!ToSet(h)
    BY <1>7, <2>4
  <2> QED
    BY <2>3, <2>5, <2>6 DEF Mru!Touched
<1>10. ASSUME NEW l \in own, NEW m \in own, Top(own, l),
              Meaning[m.text] = Meaning[rec.text], new = Promoted(own, m, l, rec.text)
       PROVE  History(new) \in Mru!Touched(h, c)
  <2>1. History(new) \in Mru!Moved(h, c)
    BY <1>2, <1>10, PromotedHistory
  <2>2. \E i \in 1 .. k : h[i] = c
    BY <1>6, <1>10
  <2> HIDE DEF h, c
  <2>3. c \in Mru!ToSet(h)
    BY <1>7, <2>2
  <2> QED
    BY <2>1, <2>3 DEF Mru!Touched
<1> QED
  BY <1>4, <1>8, <1>9, <1>10

-----------------------------------------------------------------------------
(***************************************************************************)
(* From the rows of one macro to the whole store.                          *)
(***************************************************************************)

\* Kept, macro by macro.
LEMMA KeptBy ==
  ASSUME NEW R, NEW K, K = [m \in AllMacros |-> K[m]],
         \A p \in Profiles, f \in Files, n \in Names : K[<<p, f, n>>] = History(Own(R, p, f, n))
  PROVE  Kept(R) = K
<1>1. ASSUME NEW m \in AllMacros PROVE Kept(R)[m] = K[m]
  <2>1. m = <<m[1], m[2], m[3]>> /\ m[1] \in Profiles /\ m[2] \in Files /\ m[3] \in Names
    BY DEF AllMacros
  <2>2. Kept(R)[<<m[1], m[2], m[3]>>] = K[<<m[1], m[2], m[3]>>]
    BY <2>1, KeptIsHistory
  <2> QED
    BY <2>1, <2>2, Zenon
<1>2. Kept(R) = [m \in AllMacros |-> Kept(R)[m]]
  BY Zenon DEF Kept
<1> QED
  BY <1>1, <1>2

\* Changing one macro.
LEMMA KeptExcept ==
  ASSUME NEW R, NEW S, NEW p \in Profiles, NEW f \in Files, NEW n \in Names, NEW h,
         History(Own(S, p, f, n)) = h,
         \A q \in Profiles, g \in Files, k \in Names :
           q # p \/ g # f \/ k # n => Own(S, q, g, k) = Own(R, q, g, k)
  PROVE  Kept(S) = [Kept(R) EXCEPT ![<<p, f, n>>] = h]
<1> DEFINE K == [Kept(R) EXCEPT ![<<p, f, n>>] = h]
<1>1. Kept(R) = [m \in AllMacros |-> Kept(R)[m]]
  BY Zenon DEF Kept
<1>2. <<p, f, n>> \in AllMacros
  BY DEF AllMacros
<1>3. K = [m \in AllMacros |-> K[m]]
  BY <1>1
<1>4. ASSUME NEW q \in Profiles, NEW g \in Files, NEW k \in Names
      PROVE  K[<<q, g, k>>] = History(Own(S, q, g, k))
  <2>1. <<q, g, k>> \in AllMacros
    BY DEF AllMacros
  <2>2. CASE q = p /\ g = f /\ k = n
    <3>1. K[<<p, f, n>>] = h
      BY <1>1, <1>2
    <3> HIDE DEF K
    <3> QED
      BY <2>2, <3>1
  <2>3. CASE q # p \/ g # f \/ k # n
    <3>1. <<q, g, k>> # <<p, f, n>>
      BY <2>3
    <3>2. K[<<q, g, k>>] = Kept(R)[<<q, g, k>>]
      BY <1>1, <2>1, <3>1
    <3>3. Kept(R)[<<q, g, k>>] = History(Own(R, q, g, k))
      BY KeptIsHistory
    <3> HIDE DEF K
    <3> QED
      BY <2>3, <3>2, <3>3
  <2> QED
    BY <2>2, <2>3
<1> HIDE DEF K
<1>5. Kept(S) = K
  BY <1>3, <1>4, KeptBy
<1> QED
  BY <1>5 DEF K

\* An empty table keeps nothing.
LEMMA KeptNothing == Kept({}) = Mru!Nothing
<1>1. Mru!Nothing = [m \in AllMacros |-> Mru!Nothing[m]]
  BY DEF Mru!Nothing
<1>2. ASSUME NEW p \in Profiles, NEW f \in Files, NEW n \in Names
      PROVE  Mru!Nothing[<<p, f, n>>] = History(Own({}, p, f, n))
  <2>1. <<p, f, n>> \in AllMacros
    BY DEF AllMacros
  <2>2. Own({}, p, f, n) = {}
    BY DEF Own
  <2> QED
    BY <2>1, <2>2, NoHistory DEF Mru!Nothing
<1> QED
  BY <1>1, <1>2, KeptBy

\* In the table as in a run's view, the rows of every macro are orderly.
LEMMA OwnOrderly ==
  ASSUME NEW R \in SUBSET Row, Tidy(R), Unique(R), NEW p, NEW f, NEW n
  PROVE  Orderly(Own(R, p, f, n)) /\ OneMacro(Own(R, p, f, n), p, f, n)
<1>1. Own(R, p, f, n) \in SUBSET R /\ OneMacro(Own(R, p, f, n), p, f, n)
  BY OwnOneMacro
<1>2. IsFiniteSet(Own(R, p, f, n))
  BY <1>1, FS_Subset DEF Tidy
<1>3. \A r, s \in Own(R, p, f, n) : r.version = s.version => r = s
  BY <1>1 DEF OneMacro, Unique
<1> QED
  BY <1>1, <1>2, <1>3 DEF Orderly

-----------------------------------------------------------------------------
(***************************************************************************)
(* The steps.  Only a run that holds the lock has a view of its own.       *)
(***************************************************************************)

IdleViews == \A j \in Jobs : job[j].phase # "indexing" => job[j].work = {}

Drafts == [j \in Jobs |-> Kept(job[j].work)]

Writing == {j \in Jobs : job[j].phase = "indexing"}

\* What the refinement mapping makes of a step.
LEMMA NoDraft ==
  ASSUME \A j \in Jobs : /\ job'[j].phase = "indexing" <=> job[j].phase = "indexing"
                         /\ job'[j].work = job[j].work
  PROVE  Drafts' = Drafts /\ Writing' = Writing
BY DEF Drafts, Writing

\* Starting a run and reading the files leave the store alone.
LEMMA ReadingStutters ==
  ASSUME TypeOK, IdleViews, NEW j \in Jobs,
         (\E p \in Profiles, mark \in BOOLEAN : StartIndex(j, p, mark)) \/ ReadFile(j)
  PROVE  IdleViews' /\ UNCHANGED Mru!vars
<1>1. job \in [Jobs -> Job] /\ IdleJob.work = {}
  BY DEF TypeOK, IdleJob
<1>2. CASE \E p \in Profiles, mark \in BOOLEAN : StartIndex(j, p, mark)
  <2>1. PICK p, mark : StartIndex(j, p, mark)
    BY <1>2
  <2> DEFINE x == [IdleJob EXCEPT !.phase = "reading", !.profile = p, !.mark = mark]
  <2>2. x.work = {} /\ x.phase = "reading"
    BY DEF IdleJob
  <2> HIDE DEF x
  <2>3. job' = [job EXCEPT ![j] = x] /\ rows' = rows /\ job[j].phase = "idle"
    BY <2>1 DEF StartIndex, x
  <2>4. \A i \in Jobs : /\ job'[i].phase = "indexing" <=> job[i].phase = "indexing"
                        /\ job'[i].work = job[i].work
    BY <1>1, <2>2, <2>3 DEF IdleViews
  <2>5. IdleViews'
    BY <2>4 DEF IdleViews
  <2> QED
    BY <2>3, <2>4, <2>5, NoDraft DEF Mru!vars, Drafts, Writing
<1>3. CASE ReadFile(j)
  <2>1. \A i \in Jobs : /\ job'[i].phase = "indexing" <=> job[i].phase = "indexing"
                        /\ job'[i].work = job[i].work
    BY <1>1, <1>3 DEF ReadFile, Job
  <2>2. rows' = rows
    BY <1>3, ReadFileRows
  <2>3. IdleViews'
    BY <2>1 DEF IdleViews
  <2> QED
    BY <2>1, <2>2, <2>3, NoDraft DEF Mru!vars, Drafts, Writing
<1> QED
  BY <1>2, <1>3

\* Opening the transaction opens the draft.
LEMMA BeginOpens ==
  ASSUME TypeOK, IdleViews, NEW j \in Jobs, BeginTransaction(j)
  PROVE  IdleViews' /\ Mru!Open(j)
<1>1. job \in [Jobs -> Job]
  BY DEF TypeOK
<1>2. /\ \A i \in Jobs \ {j} : job'[i] = job[i]
      /\ job'[j].work = rows /\ job'[j].phase = "indexing"
  BY <1>1 DEF BeginTransaction, Job
<1>3. Unlocked /\ rows' = rows
  BY DEF BeginTransaction
<1>4. IdleViews'
  BY <1>2 DEF IdleViews
<1>5. Writing = {} /\ Writing' = {j}
  BY <1>2, <1>3 DEF Writing, Unlocked
<1>6. Drafts' = [Drafts EXCEPT ![j] = Kept(rows)]
  BY <1>2 DEF Drafts
<1> QED
  BY <1>3, <1>4, <1>5, <1>6 DEF Mru!Open, Writing, Drafts

\* An EXCEPT of an EXCEPT.
LEMMA NestedExcept ==
  ASSUME NEW I, NEW f, f = [x \in I |-> f[x]], NEW i \in I, NEW m, NEW h, NEW g,
         g = [f[i] EXCEPT ![m] = h]
  PROVE  [f EXCEPT ![i][m] = h] = [f EXCEPT ![i] = g]
OBVIOUS

\* Taking a record touches one history of the draft.
LEMMA RecordTouches ==
  ASSUME TypeOK, UniqueVersions, TidyInv, IdleViews, NEW j \in Jobs, IndexRecord(j)
  PROVE  /\ IdleViews'
         /\ \E m \in AllMacros, c \in Meanings : Mru!Touch(j, m, c)
<1>1. PICK p, rec, new : Takes(j, p, rec, new)
  BY Taking
<1> DEFINE f == rec.file
           n == rec.name
           m == <<p, f, n>>
           c == Meaning[rec.text]
           own == Own(job[j].work, p, f, n)
           work2 == (job[j].work \ own) \cup new
<1>2. /\ p \in Profiles /\ rec \in Record /\ f \in Files /\ n \in Names /\ rec.text \in Texts
      /\ OneMacro(new, p, f, n) /\ new \in Upserted(own, p, rec) /\ OneMacro(own, p, f, n)
      /\ job'[j].work = work2 /\ rows' = rows
      /\ job'[j].phase = "indexing" /\ job[j].phase = "indexing"
      /\ \A k \in Jobs \ {j} : job'[k] = job[k]
  BY <1>1 DEF Takes, Record
<1>3. m \in AllMacros /\ c \in Meanings
  BY <1>2 DEF AllMacros, Meanings
<1>4. job[j].work \in SUBSET Row
  BY DEF TypeOK, Job
<1>5. Orderly(own)
  BY <1>4, OwnOrderly DEF TidyInv, UniqueVersions
<1>6. History(new) \in Mru!Touched(History(own), c)
  <2> HIDE DEF own
  <2> QED
    BY <1>2, <1>5, UpsertedHistory
<1>7. \A g \in Files, k \in Names :
        Own(work2, p, g, k) = IF g = f /\ k = n THEN new ELSE Own(job[j].work, p, g, k)
  BY <1>2, ReplacedOwn
<1>8. \A q \in Profiles, g \in Files, k \in Names :
        q # p => Own(work2, q, g, k) = Own(job[j].work, q, g, k)
  BY <1>2 DEF Own, OneMacro
<1> HIDE DEF work2, f, n
<1>9. Kept(work2) = [Kept(job[j].work) EXCEPT ![m] = History(new)]
  <2>1. History(Own(work2, p, f, n)) = History(new)
    BY <1>2, <1>7
  <2>2. \A q \in Profiles, g \in Files, k \in Names :
          q # p \/ g # f \/ k # n => Own(work2, q, g, k) = Own(job[j].work, q, g, k)
    BY <1>7, <1>8
  <2> HIDE DEF own
  <2> QED
    BY <1>2, <2>1, <2>2, KeptExcept
<1>10. Kept(job[j].work)[m] = History(own)
  BY <1>2, KeptIsHistory
<1> HIDE DEF own, m, c
<1>11. Drafts[j] = Kept(job[j].work)
  BY DEF Drafts
<1>12. Drafts' = [Drafts EXCEPT ![j] = Kept(work2)]
  BY <1>2 DEF Drafts
<1>13. Drafts' = [Drafts EXCEPT ![j][m] = History(new)]
  <2>1. Drafts = [x \in Jobs |-> Drafts[x]]
    BY DEF Drafts
  <2>2. Kept(work2) = [Drafts[j] EXCEPT ![m] = History(new)]
    BY <1>9, <1>11
  <2>3. [Drafts EXCEPT ![j][m] = History(new)] = [Drafts EXCEPT ![j] = Kept(work2)]
    BY <2>1, <2>2, NestedExcept
  <2> QED
    BY <1>12, <2>3, Zenon
<1>14. History(new) \in Mru!Touched(Drafts[j][m], c)
  BY <1>6, <1>10, <1>11, Zenon
<1>15. j \in Writing /\ Writing' = Writing /\ Kept(rows)' = Kept(rows)
  BY <1>2 DEF Writing
<1>16. Mru!Touch(j, m, c)
  BY <1>13, <1>14, <1>15, Zenon DEF Mru!Touch, Writing, Drafts
<1>17. IdleViews'
  BY <1>2 DEF IdleViews
<1> QED
  BY <1>3, <1>16, <1>17

\* Committing publishes the draft: settling the flags changes no history.
LEMMA FinishPublishes ==
  ASSUME TypeOK, UniqueVersions, TidyInv, IdleViews, NEW j \in Jobs, FinishIndex(j)
  PROVE  IdleViews' /\ Mru!Publish(j)
<1> DEFINE work == job[j].work
           p == job[j].profile
<1>1. /\ job \in [Jobs -> Job] /\ IdleJob.work = {} /\ IdleJob.phase = "idle"
      /\ job[j].phase = "indexing" /\ job' = [job EXCEPT ![j] = IdleJob]
      /\ rows' = {r \in work : r.profile # p}
                   \cup {Settled(j, r) : r \in {r \in work : r.profile = p}}
      /\ p \in Profiles /\ work \in SUBSET Row
  BY DEF FinishIndex, TypeOK, Job, IdleJob
<1>2. rows' \in SUBSET Row
  <2>1. TypeOK'
    <3>1. Indexing
      BY DEF Indexing
    <3> QED
      BY <3>1, IndexingType
  <2> QED
    BY <2>1 DEF TypeOK
<1>3. Kept(rows') = Kept(work)
  <2>1. Kept(work) = [m \in AllMacros |-> Kept(work)[m]]
    BY Zenon DEF Kept
  <2>2. ASSUME NEW q \in Profiles, NEW f \in Files, NEW n \in Names
        PROVE  Kept(work)[<<q, f, n>>] = History(Own(rows', q, f, n))
    <3>1. Kept(work)[<<q, f, n>>] = History(Own(work, q, f, n))
      BY KeptIsHistory
    <3>2. CASE q # p
      <4>1. \A r \in work : Settled(j, r).profile = r.profile
        BY SettledFields
      <4>2. Own(rows', q, f, n) = Own(work, q, f, n)
        BY <1>1, <3>2, <4>1 DEF Own
      <4> QED
        BY <3>1, <4>2
    <3>3. CASE q = p
      <4> DEFINE own == Own(work, p, f, n)
                 new == Own(rows', p, f, n)
                 F == [r \in own |-> Settled(j, r)]
      <4>1. new = {Settled(j, r) : r \in own}
        BY PublishedOwn
      <4>2. own \in SUBSET work /\ new \in SUBSET Row
        BY <1>2 DEF Own
      <4>3. Orderly(own)
        BY <1>1, OwnOrderly DEF TidyInv, UniqueVersions
      <4>4. \A r \in own : Settled(j, r).version = r.version /\ Settled(j, r).text = r.text
        BY <4>2, SettledFields
      <4> HIDE DEF own, new
      <4>5. new = {F[r] : r \in own}
        BY <4>1
      <4>6. \A r \in own : F[r].text = r.text
        BY <4>4
      <4>7. \A r, s \in own : r.version < s.version => F[r].version < F[s].version
        BY <4>4
      <4> HIDE DEF F
      <4>8. History(new) = History(own)
        BY <4>2, <4>3, <4>5, <4>6, <4>7, RewrittenHistory
      <4> QED
        BY <3>1, <3>3, <4>8 DEF own, new
    <3> QED
      BY <3>2, <3>3
  <2> HIDE DEF work
  <2> QED
    BY <2>1, <2>2, KeptBy
<1>4. /\ job'[j].work = {} /\ job'[j].phase = "idle"
      /\ \A i \in Jobs \ {j} : job'[i] = job[i]
  BY <1>1
<1>5. IdleViews'
  BY <1>4 DEF IdleViews
<1>6. j \in Writing /\ Writing' = Writing \ {j}
  BY <1>1, <1>4 DEF Writing
<1>7. Drafts' = [Drafts EXCEPT ![j] = Mru!Nothing]
  <2>1. Kept(job'[j].work) = Mru!Nothing
    BY <1>4, KeptNothing
  <2> QED
    BY <1>4, <2>1 DEF Drafts
<1>8. Kept(rows') = Drafts[j]
  BY <1>3 DEF Drafts
<1> QED
  BY <1>5, <1>6, <1>7, <1>8, Zenon DEF Mru!Publish, Mru!Close, Writing, Drafts

\* Rolling back discards the draft, if there is one.
LEMMA AbortDiscards ==
  ASSUME TypeOK, IdleViews, NEW j \in Jobs, AbortIndex(j)
  PROVE  IdleViews' /\ (Mru!Discard(j) \/ UNCHANGED Mru!vars)
<1>1. /\ job \in [Jobs -> Job] /\ IdleJob.work = {} /\ IdleJob.phase = "idle"
      /\ job' = [job EXCEPT ![j] = IdleJob] /\ rows' = rows
  BY DEF AbortIndex, TypeOK, IdleJob
<1>2. /\ job'[j].work = {} /\ job'[j].phase = "idle"
      /\ \A i \in Jobs \ {j} : job'[i] = job[i]
  BY <1>1
<1>3. IdleViews'
  BY <1>2 DEF IdleViews
<1>4. CASE job[j].phase = "indexing"
  <2>1. j \in Writing /\ Writing' = Writing \ {j}
    BY <1>2, <1>4 DEF Writing
  <2>2. Drafts' = [Drafts EXCEPT ![j] = Mru!Nothing]
    <3>1. Kept(job'[j].work) = Mru!Nothing
      BY <1>2, KeptNothing
    <3> QED
      BY <1>2, <3>1 DEF Drafts
  <2>3. Kept(rows') = Kept(rows)
    BY <1>1
  <2> QED
    BY <1>3, <2>1, <2>2, <2>3, Zenon DEF Mru!Discard, Mru!Close, Writing, Drafts
<1>5. CASE job[j].phase # "indexing"
  <2>1. \A i \in Jobs : /\ job'[i].phase = "indexing" <=> job[i].phase = "indexing"
                        /\ job'[i].work = job[i].work
    BY <1>2, <1>5 DEF IdleViews
  <2> QED
    BY <1>1, <1>3, <2>1, NoDraft DEF Mru!vars, Drafts, Writing
<1> QED
  BY <1>4, <1>5

\* What happens between two runs leaves their views alone; most of it needs the lock.
LEMMA UserSteps ==
  ASSUME Editing \/ Restoring \/ Importing \/ Removing, IdleViews
  PROVE  UNCHANGED job /\ IdleViews' /\ Drafts' = Drafts /\ Writing' = Writing
<1>1. UNCHANGED job
  BY DEF Editing, DownloadFile, EditSection, DeleteSource,
         Restoring, SelectVersion, ReadVersion, WriteRestore, FailRestore,
         Importing, ImportShare, ImportOnline, AutoImport, ImportAndActivate,
         Removing, PurgeAllDeleted, RemoveDeleted, RemoveInactive
<1> QED
  BY <1>1 DEF IdleViews, Drafts, Writing

\* Edits and restores are about the files: the one that reads a row for a restore
\* clears a flag.
LEMMA RestoringStutters ==
  ASSUME TypeOK, UniqueVersions, TidyInv, IdleViews, Editing \/ Restoring
  PROVE  UNCHANGED Mru!vars
<1>1. Kept(rows') = Kept(rows)
  <2>1. CASE rows' = rows
    BY <2>1
  <2>2. ASSUME NEW s \in Sessions,
               rows' = {[o EXCEPT !.isNew = @ /\ o \notin Selected(s)] : o \in rows}
        PROVE  Kept(rows') = Kept(rows)
    <3> DEFINE F == [o \in rows |-> [o EXCEPT !.isNew = @ /\ o \notin Selected(s)]]
    <3>1. rows \in SUBSET Row
      BY DEF TypeOK
    <3>2. \A o \in rows : /\ F[o].profile = o.profile /\ F[o].file = o.file
                          /\ F[o].name = o.name /\ F[o].version = o.version
                          /\ F[o].text = o.text /\ F[o] \in Row
      <4>1. ASSUME NEW o \in rows
            PROVE  /\ F[o].profile = o.profile /\ F[o].file = o.file
                   /\ F[o].name = o.name /\ F[o].version = o.version
                   /\ F[o].text = o.text /\ F[o] \in Row
        <5> DEFINE b == o.isNew /\ o \notin Selected(s)
        <5>1. o \in Row /\ b \in BOOLEAN
          BY <3>1 DEF Row
        <5>2. F[o] = [o EXCEPT !.isNew = b]
          OBVIOUS
        <5> HIDE DEF F, b
        <5> QED
          BY <5>1, <5>2 DEF Row
      <4> QED
        BY <4>1
    <3>3. rows' = {F[o] : o \in rows}
      BY <2>2
    <3> HIDE DEF F
    <3>4. Kept(rows) = [m \in AllMacros |-> Kept(rows)[m]]
      BY Zenon DEF Kept
    <3>5. ASSUME NEW p \in Profiles, NEW f \in Files, NEW n \in Names
          PROVE  Kept(rows)[<<p, f, n>>] = History(Own(rows', p, f, n))
      <4> DEFINE own == Own(rows, p, f, n)
                 new == Own(rows', p, f, n)
      <4>1. Orderly(own)
        BY <3>1, OwnOrderly DEF TidyInv, UniqueVersions
      <4>2. new = {F[r] : r \in own}
        BY <3>2, <3>3 DEF Own
      <4>3. own \subseteq rows
        BY DEF Own
      <4> HIDE DEF own, new
      <4>4. new \in SUBSET Row
        BY <3>2, <4>2, <4>3
      <4>5. \A r \in own : F[r].text = r.text
        BY <3>2, <4>3
      <4>6. \A r, x \in own : r.version < x.version => F[r].version < F[x].version
        BY <3>2, <4>3
      <4>7. History(new) = History(own)
        BY <4>1, <4>2, <4>4, <4>5, <4>6, RewrittenHistory
      <4>8. Kept(rows)[<<p, f, n>>] = History(own)
        BY KeptIsHistory DEF own
      <4> QED
        BY <4>7, <4>8 DEF own, new
    <3> QED
      BY <3>4, <3>5, KeptBy
  <2>3. \/ rows' = rows
        \/ \E s \in Sessions :
             rows' = {[o EXCEPT !.isNew = @ /\ o \notin Selected(s)] : o \in rows}
    BY DEF Editing, DownloadFile, EditSection, DeleteSource,
           Restoring, SelectVersion, ReadVersion, WriteRestore, FailRestore
  <2> QED
    BY <2>1, <2>2, <2>3
<1>2. Drafts' = Drafts /\ Writing' = Writing
  BY UserSteps
<1> QED
  BY <1>1, <1>2 DEF Mru!vars, Drafts, Writing

\* An import appends to one history.
LEMMA ImportAppends ==
  ASSUME TypeOK, UniqueVersions, TidyInv, IdleViews, Importing
  PROVE  \E m \in AllMacros, c \in Meanings : Mru!Import(m, c)
<1>1. PICK p \in Profiles, f \in Files, n \in Names, v \in Nat \ {0}, t \in Texts :
        /\ Unlocked /\ UNCHANGED job
        /\ \A r \in Own(rows, p, f, n) : r.version < v
        /\ rows' = rows \cup {NewRow(p, f, n, v, t, TRUE)}
  BY ImportedRow
<1> DEFINE new == NewRow(p, f, n, v, t, TRUE)
           own == Own(rows, p, f, n)
           m == <<p, f, n>>
           c == Meaning[t]
<1>2. /\ new \in Row /\ new.version = v /\ new.text = t
      /\ new.profile = p /\ new.file = f /\ new.name = n
  <2>1. new \in Row
    BY NewRowType
  <2> QED
    BY <2>1 DEF NewRow
<1>3. m \in AllMacros /\ c \in Meanings
  BY DEF AllMacros, Meanings
<1>4. Orderly(own)
  BY OwnOrderly DEF TypeOK, TidyInv, UniqueVersions
<1>5. rows' = rows \cup {new} /\ \A r \in own : r.version < v
  BY <1>1
<1> HIDE DEF new
<1>6. Own(rows', p, f, n) = own \cup {new}
  BY <1>2, <1>5 DEF Own
<1>7. \A q \in Profiles, g \in Files, k \in Names :
        q # p \/ g # f \/ k # n => Own(rows', q, g, k) = Own(rows, q, g, k)
  BY <1>2, <1>5 DEF Own
<1>8. Kept(rows)[m] = History(own)
  BY KeptIsHistory
<1> HIDE DEF own, c
<1>9. History(own \cup {new}) = Append(History(own), Meaning[new.text])
  BY <1>2, <1>4, <1>5, AddedHistory
<1>10. History(Own(rows', p, f, n)) = Append(Kept(rows)[m], c)
  BY <1>2, <1>6, <1>8, <1>9 DEF c
<1>11. Kept(rows') = [Kept(rows) EXCEPT ![m] = Append(Kept(rows)[m], c)]
  <2> DEFINE h == Append(Kept(rows)[m], c)
  <2>1. History(Own(rows', p, f, n)) = h
    BY <1>10
  <2> HIDE DEF h
  <2>2. Kept(rows') = [Kept(rows) EXCEPT ![m] = h]
    BY <1>7, <2>1, KeptExcept
  <2> QED
    BY <2>2 DEF h
<1> HIDE DEF m
<1>12. Writing = {} /\ Drafts' = Drafts /\ Writing' = Writing
  BY <1>1, UserSteps DEF Writing, Unlocked
<1>13. Mru!Import(m, c)
  BY <1>11, <1>12 DEF Mru!Import, Writing, Drafts
<1> QED
  BY <1>3, <1>13

\* Removing a version removes an entry.
LEMMA InactiveRemoved ==
  ASSUME TypeOK, UniqueVersions, TidyInv, IdleViews, NEW r \in rows, RemoveInactive(r)
  PROVE  \E m \in AllMacros : \E i \in DOMAIN Kept(rows)[m] : Mru!RemoveOne(m, i)
<1> DEFINE p == r.profile
           f == r.file
           n == r.name
           m == <<p, f, n>>
           own == Own(rows, p, f, n)
<1>1. p \in Profiles /\ f \in Files /\ n \in Names
  BY DEF TypeOK, Row
<1>2. m \in AllMacros
  BY <1>1 DEF AllMacros
<1>3. Orderly(own) /\ r \in own
  <2>1. Orderly(own)
    BY OwnOrderly DEF TypeOK, TidyInv, UniqueVersions
  <2> QED
    BY <2>1 DEF Own
<1>4. rows' = rows \ {r} /\ Unlocked
  BY DEF RemoveInactive
<1>5. Own(rows', p, f, n) = own \ {r}
  BY <1>4 DEF Own
<1>6. \A q \in Profiles, g \in Files, k \in Names :
        q # p \/ g # f \/ k # n => Own(rows', q, g, k) = Own(rows, q, g, k)
  BY <1>4 DEF Own
<1>7. Kept(rows)[m] = History(own)
  BY <1>1, KeptIsHistory
<1> HIDE DEF own, p, f, n
<1>8. PICK i \in DOMAIN History(own) : History(own \ {r}) = Mru!RemoveAt(History(own), i)
  BY <1>3, RemovedHistory
<1> DEFINE h == Mru!RemoveAt(Kept(rows)[m], i)
<1>9. History(Own(rows', p, f, n)) = h
  BY <1>5, <1>7, <1>8
<1> HIDE DEF h
<1>10. Kept(rows') = [Kept(rows) EXCEPT ![m] = h]
  BY <1>1, <1>6, <1>9, KeptExcept
<1>11. Writing = {} /\ Drafts' = Drafts /\ Writing' = Writing
  <2>1. Removing
    BY DEF Removing
  <2> QED
    BY <1>4, <2>1, UserSteps DEF Writing, Unlocked
<1>12. i \in DOMAIN Kept(rows)[m]
  BY <1>7, <1>8
<1> HIDE DEF m
<1>13. Mru!RemoveOne(m, i)
  BY <1>10, <1>11 DEF Mru!RemoveOne, Writing, Drafts, h
<1> QED
  BY <1>2, <1>12, <1>13

\* Removing all rows of some macros forgets them.
LEMMA RowsForgotten ==
  ASSUME IdleViews, Removing, Unlocked, NEW M \in SUBSET AllMacros,
         \A p \in Profiles, f \in Files, n \in Names :
           Own(rows', p, f, n) = IF <<p, f, n>> \in M THEN {} ELSE Own(rows, p, f, n)
  PROVE  Mru!Forget(M)
<1> DEFINE K == [m \in AllMacros |-> IF m \in M THEN << >> ELSE Kept(rows)[m]]
<1>1. ASSUME NEW p \in Profiles, NEW f \in Files, NEW n \in Names
      PROVE  K[<<p, f, n>>] = History(Own(rows', p, f, n))
  <2>1. <<p, f, n>> \in AllMacros
    BY DEF AllMacros
  <2>2. Kept(rows)[<<p, f, n>>] = History(Own(rows, p, f, n))
    BY KeptIsHistory
  <2>3. K[<<p, f, n>>] = IF <<p, f, n>> \in M THEN << >> ELSE Kept(rows)[<<p, f, n>>]
    BY <2>1
  <2> HIDE DEF K
  <2> QED
    BY <2>2, <2>3, NoHistory
<1>2. K = [m \in AllMacros |-> K[m]]
  OBVIOUS
<1> HIDE DEF K
<1>3. Kept(rows') = K
  BY <1>1, <1>2, KeptBy
<1>4. Writing = {} /\ Drafts' = Drafts /\ Writing' = Writing
  BY UserSteps DEF Writing, Unlocked
<1> QED
  BY <1>3, <1>4, Zenon DEF Mru!Forget, Writing, Drafts, K

LEMMA RemovingForgets ==
  ASSUME TypeOK, UniqueVersions, TidyInv, IdleViews, Removing
  PROVE  \/ \E M \in SUBSET AllMacros : Mru!Forget(M)
         \/ \E m \in AllMacros : \E i \in DOMAIN Kept(rows)[m] : Mru!RemoveOne(m, i)
<1>1. CASE \E r \in rows : RemoveInactive(r)
  BY <1>1, InactiveRemoved
<1>2. ASSUME NEW p \in Profiles, NEW f \in Files, NEW n \in Names, RemoveDeleted(p, f, n)
      PROVE  \E M \in SUBSET AllMacros : Mru!Forget(M)
  <2>1. {<<p, f, n>>} \in SUBSET AllMacros
    BY DEF AllMacros
  <2>2. rows' = rows \ Own(rows, p, f, n) /\ Unlocked
    BY <1>2 DEF RemoveDeleted
  <2>3. ASSUME NEW q \in Profiles, NEW g \in Files, NEW k \in Names
        PROVE  Own(rows', q, g, k) = IF <<q, g, k>> \in {<<p, f, n>>} THEN {}
                                     ELSE Own(rows, q, g, k)
    <3>1. <<q, g, k>> \in {<<p, f, n>>} <=> q = p /\ g = f /\ k = n
      OBVIOUS
    <3> QED
      BY <2>2, <3>1 DEF Own
  <2>4. Mru!Forget({<<p, f, n>>})
    BY <2>1, <2>2, <2>3, RowsForgotten
  <2> QED
    BY <2>1, <2>4
<1>3. ASSUME NEW p \in Profiles, PurgeAllDeleted(p)
      PROVE  \E M \in SUBSET AllMacros : Mru!Forget(M)
  <2> DEFINE doomed == {r \in rows : /\ r.profile = p /\ r.isDeleted
                                     /\ \A o \in rows : o.file = r.file /\ o.name = r.name
                                                       => o.version <= r.version}
             M == {m \in AllMacros : \E d \in doomed : m[2] = d.file /\ m[3] = d.name}
  <2>1. /\ Unlocked
        /\ rows' = {r \in rows : \A d \in doomed : r.file # d.file \/ r.name # d.name}
    BY <1>3 DEF PurgeAllDeleted
  <2> HIDE DEF doomed
  <2>2. ASSUME NEW q \in Profiles, NEW g \in Files, NEW k \in Names
        PROVE  Own(rows', q, g, k) = IF <<q, g, k>> \in M THEN {} ELSE Own(rows, q, g, k)
    <3>1. <<q, g, k>> \in M <=> \E d \in doomed : g = d.file /\ k = d.name
      <4>1. <<q, g, k>> \in AllMacros /\ <<q, g, k>>[2] = g /\ <<q, g, k>>[3] = k
        BY DEF AllMacros
      <4> QED
        BY <4>1
    <3> HIDE DEF M
    <3>2. CASE <<q, g, k>> \in M
      <4>1. Own(rows', q, g, k) = {}
        BY <2>1, <3>1, <3>2 DEF Own
      <4> QED
        BY <3>2, <4>1
    <3>3. CASE <<q, g, k>> \notin M
      <4>1. Own(rows', q, g, k) = Own(rows, q, g, k)
        BY <2>1, <3>1, <3>3 DEF Own
      <4> QED
        BY <3>3, <4>1
    <3> QED
      BY <3>2, <3>3
  <2>3. M \in SUBSET AllMacros
    OBVIOUS
  <2> HIDE DEF M
  <2>4. Mru!Forget(M)
    BY <2>1, <2>2, <2>3, RowsForgotten
  <2> QED
    BY <2>3, <2>4
<1> QED
  BY <1>1, <1>2, <1>3 DEF Removing

-----------------------------------------------------------------------------
(***************************************************************************)
(* The refinement.                                                         *)
(***************************************************************************)

LEMMA IdleViewsInit == Init => IdleViews
BY DEF Init, IdleViews, IdleJob

LEMMA InitMaps == Init => Mru!Init
<1> SUFFICES ASSUME Init PROVE Mru!Init
  OBVIOUS
<1>1. rows = {} /\ \A j \in Jobs : job[j].work = {} /\ job[j].phase = "idle"
  BY DEF Init, IdleJob
<1>2. Kept(rows) = Mru!Nothing
  BY <1>1, KeptNothing
<1>3. Drafts = [j \in Jobs |-> Mru!Nothing]
  BY <1>1, KeptNothing DEF Drafts
<1>4. Writing = {}
  BY <1>1 DEF Writing
<1> QED
  BY <1>2, <1>3, <1>4, Zenon DEF Mru!Init, Drafts, Writing

\* Every step maps to a step of the list or to a stutter.
LEMMA NextMaps ==
  ASSUME TypeOK, UniqueVersions, TidyInv, IdleViews, Next
  PROVE  IdleViews' /\ (Mru!Next \/ UNCHANGED Mru!vars)
<1>1. CASE Indexing
  <2>1. PICK j \in Jobs : \/ \E p \in Profiles, mark \in BOOLEAN : StartIndex(j, p, mark)
                          \/ ReadFile(j) \/ BeginTransaction(j) \/ IndexRecord(j)
                          \/ FinishIndex(j) \/ AbortIndex(j)
    BY <1>1 DEF Indexing
  <2>2. CASE (\E p \in Profiles, mark \in BOOLEAN : StartIndex(j, p, mark)) \/ ReadFile(j)
    BY <2>2, ReadingStutters
  <2>3. CASE BeginTransaction(j)
    <3>1. IdleViews' /\ Mru!Open(j)
      BY <2>3, BeginOpens
    <3> QED
      BY <3>1, Zenon DEF Mru!Next
  <2>4. CASE IndexRecord(j)
    <3>1. IdleViews' /\ \E m \in AllMacros, c \in Meanings : Mru!Touch(j, m, c)
      BY <2>4, RecordTouches
    <3> QED
      BY <3>1, Zenon DEF Mru!Next, Meanings
  <2>5. CASE FinishIndex(j)
    <3>1. IdleViews' /\ Mru!Publish(j)
      BY <2>5, FinishPublishes
    <3> QED
      BY <3>1, Zenon DEF Mru!Next
  <2>6. CASE AbortIndex(j)
    <3>1. IdleViews' /\ (Mru!Discard(j) \/ UNCHANGED Mru!vars)
      BY <2>6, AbortDiscards
    <3> QED
      BY <3>1, Zenon DEF Mru!Next
  <2> QED
    BY <2>1, <2>2, <2>3, <2>4, <2>5, <2>6, Zenon
<1>2. CASE Editing \/ Restoring
  BY <1>2, RestoringStutters, UserSteps, Zenon
<1>3. CASE Importing
  <2>1. IdleViews' /\ \E m \in AllMacros, c \in Meanings : Mru!Import(m, c)
    BY <1>3, ImportAppends, UserSteps, Zenon
  <2> QED
    BY <2>1, Zenon DEF Mru!Next, Meanings
<1>4. CASE Removing
  <2>1. /\ IdleViews'
        /\ \/ \E M \in SUBSET AllMacros : Mru!Forget(M)
           \/ \E m \in AllMacros : \E i \in DOMAIN Kept(rows)[m] : Mru!RemoveOne(m, i)
    BY <1>4, RemovingForgets, UserSteps, Zenon
  <2> QED
    BY <2>1, Zenon DEF Mru!Next
<1> QED
  BY <1>1, <1>2, <1>3, <1>4 DEF Next

\* Version numbers, checksums, promotions, pruning, rollback and the order in which
\* SQLite serialises overlapping runs, imports and removals of any number of printers
\* and tabs behave as a most-recently-used list of contents for every macro: an
\* indexed content moves to the end of its list or is appended to it, at most
\* version_history_size entries stay with a new one, and a run shows all of its
\* changes or none (_upsert_macro_record, _promote_existing_version_to_latest,
\* index_macros).
THEOREM MacroStoreIsMru == Spec => ImplementsMru
<1>1. Init => Mru!Init
  BY InitMaps
<1>2. TypeOK /\ UniqueVersions /\ TidyInv /\ IdleViews /\ [Next]_vars
      => IdleViews' /\ [Mru!Next]_Mru!vars
  <2>1. ASSUME TypeOK, UniqueVersions, TidyInv, IdleViews, Next
        PROVE  IdleViews' /\ [Mru!Next]_Mru!vars
    BY <2>1, NextMaps, Zenon
  <2>2. ASSUME IdleViews, UNCHANGED vars
        PROVE  IdleViews' /\ UNCHANGED Mru!vars
    <3>1. rows' = rows /\ job' = job
      BY <2>2 DEF vars
    <3>2. IdleViews' /\ Drafts' = Drafts /\ Writing' = Writing
      BY <2>2, <3>1 DEF IdleViews, Drafts, Writing
    <3> QED
      BY <3>1, <3>2 DEF Mru!vars, Drafts, Writing
  <2> QED
    BY <2>1, <2>2, Zenon
<1> QED
  BY <1>1, <1>2, IdleViewsInit, TypeCorrect, VersionsAreUnique, TidyInvariant, PTL
  DEF Spec, ImplementsMru, Mru!Spec

=============================================================================
