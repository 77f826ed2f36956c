---------------------------- MODULE RawDirProofs ----------------------------
(* The directory tree, for names, contents and trees of any number and paths
   of any length: set_file and get_file walk every path to the same place, a
   set is all or nothing, materialize writes exactly the files in whatever
   order their names have, and every step is one of FileMap.  The walk is a
   recursion over the path and the loop of materialize takes the least file
   that is left, so the first part is about natural numbers. *)
EXTENDS RawDir, WellFoundedInduction, FiniteSetTheorems, SequenceTheorems, TLAPS

----------------------------------------------------------------------------
(* Induction, over sets of numbers. *)

(* A set of natural numbers that is not empty has a least element. *)
LEMMA Least ==
    ASSUME NEW T, T \subseteq Nat, T # {}
    PROVE  \E n \in T : \A m \in T : n <= m
<1>1. PICK x \in T : \A y \in T : ~ (<<y, x>> \in OpToRel(<, Nat))
    BY NatLessThanWellFounded, WFMin
<1>2. ASSUME NEW y \in T PROVE x <= y
    <2>1. x \in Nat /\ y \in Nat
        OBVIOUS
    <2>2. y < x => <<y, x>> \in OpToRel(<, Nat)
        BY <2>1 DEF OpToRel
    <2>3. ~ (y < x)
        BY <1>1, <2>2
    <2> QED BY <2>1, <2>3
<1> QED BY <1>2

(* A set of numbers that has 0, and n + 1 whenever it has n, has them all. *)
LEMMA Induction ==
    ASSUME NEW S, 0 \in S, \A n \in Nat : n \in S => n + 1 \in S
    PROVE  \A n \in Nat : n \in S
<1> DEFINE T == Nat \ S
<1>1. SUFFICES ASSUME T # {} PROVE FALSE
    OBVIOUS
<1>2. T \subseteq Nat
    OBVIOUS
<1> HIDE DEF T
<1>3. PICK x \in T : \A y \in T : x <= y
    BY <1>1, <1>2, Least
<1>4. x \in Nat /\ x \notin S
    BY DEF T
<1>5. x - 1 \in Nat /\ x - 1 + 1 = x /\ x - 1 < x
    BY <1>4
<1>6. x - 1 \in T
    BY <1>4, <1>5 DEF T
<1> QED BY <1>2, <1>3, <1>5, <1>6

----------------------------------------------------------------------------
(* Paths and the directories above them. *)

(* Paths are the sequences of names of the lengths considered. *)
LEMMA PathFacts ==
    /\ \A p \in Paths : p \in Seq(Names) /\ Len(p) \in 1 .. MaxLen /\ p # <<>>
    /\ \A p \in Seq(Names) : Len(p) \in 1 .. MaxLen => p \in Paths
<1> USE RawDirAssumption
<1>1. ASSUME NEW p \in Paths PROVE p \in Seq(Names) /\ Len(p) \in 1 .. MaxLen /\ p # <<>>
    <2>1. PICK n \in 1 .. MaxLen : p \in [1 .. n -> Names]
        BY DEF Paths
    <2>2. n \in Nat /\ p \in Seq(Names) /\ Len(p) = n
        BY <2>1
    <2> QED BY <2>1, <2>2
<1>2. ASSUME NEW p \in Seq(Names), Len(p) \in 1 .. MaxLen PROVE p \in Paths
    BY <1>2 DEF Paths
<1> QED BY <1>1, <1>2

(* A directory above p is a proper prefix of p. *)
LEMMA ParentFacts ==
    ASSUME NEW p \in Paths, NEW q \in Parents(p)
    PROVE  /\ q \in Paths
           /\ Len(q) < Len(p)
           /\ q # p
           /\ \A i \in 1 .. Len(q) : q[i] = p[i]
           /\ Parents(q) \subseteq Parents(p)
<1>1. p \in Seq(Names) /\ Len(p) \in 1 .. MaxLen
    BY PathFacts
<1>2. PICK n \in 1 .. Len(p) - 1 : q = SubSeq(p, 1, n)
    BY DEF Parents
<1>3. /\ q \in Seq(Names) /\ Len(q) = n
      /\ \A i \in 1 .. n : q[i] = p[i]
    BY <1>1, <1>2
<1>4. q \in Paths
    BY <1>1, <1>3, PathFacts, RawDirAssumption
<1>5. ASSUME NEW r \in Parents(q) PROVE r \in Parents(p)
    <2>1. PICK m \in 1 .. n - 1 : r = SubSeq(q, 1, m)
        BY <1>3 DEF Parents
    <2>2. SubSeq(q, 1, m) = SubSeq(p, 1, m)
        <3>1. /\ SubSeq(q, 1, m) \in Seq(Names) /\ Len(SubSeq(q, 1, m)) = m
              /\ \A i \in 1 .. m : SubSeq(q, 1, m)[i] = q[i]
            BY <1>3, <2>1
        <3>2. /\ SubSeq(p, 1, m) \in Seq(Names) /\ Len(SubSeq(p, 1, m)) = m
              /\ \A i \in 1 .. m : SubSeq(p, 1, m)[i] = p[i]
            BY <1>1, <1>2, <2>1
        <3> QED BY <1>3, <2>1, <3>1, <3>2, SeqEqual
    <2> QED BY <1>1, <2>1, <2>2 DEF Parents
<1> QED BY <1>1, <1>3, <1>4, <1>5

(* The directories above a path are above each other. *)
LEMMA ParentsAreAChain ==
    ASSUME NEW p \in Paths, NEW q \in Parents(p), NEW a \in Parents(p)
    PROVE  q = a \/ q \in Parents(a) \/ a \in Parents(q)
<1>1. p \in Seq(Names) /\ Len(p) \in 1 .. MaxLen
    BY PathFacts
<1>2. PICK m \in 1 .. Len(p) - 1 : q = SubSeq(p, 1, m)
    BY DEF Parents
<1>3. PICK n \in 1 .. Len(p) - 1 : a = SubSeq(p, 1, n)
    BY DEF Parents
<1>4. ASSUME NEW k \in 1 .. Len(p) - 1, NEW l \in 1 .. Len(p) - 1, k < l
      PROVE  SubSeq(p, 1, k) \in Parents(SubSeq(p, 1, l))
    <2> DEFINE s == SubSeq(p, 1, l)
    <2>1. /\ s \in Seq(Names) /\ Len(s) = l
          /\ \A i \in 1 .. l : s[i] = p[i]
        BY <1>1
    <2>2. /\ SubSeq(p, 1, k) \in Seq(Names) /\ Len(SubSeq(p, 1, k)) = k
          /\ \A i \in 1 .. k : SubSeq(p, 1, k)[i] = p[i]
        BY <1>1
    <2> HIDE DEF s
    <2>3. /\ SubSeq(s, 1, k) \in Seq(Names) /\ Len(SubSeq(s, 1, k)) = k
          /\ \A i \in 1 .. k : SubSeq(s, 1, k)[i] = s[i]
        BY <1>4, <2>1
    <2>4. SubSeq(p, 1, k) = SubSeq(s, 1, k)
        BY <1>4, <2>1, <2>2, <2>3, SeqEqual
    <2> QED BY <1>4, <2>1, <2>4 DEF s, Parents
<1> QED BY <1>2, <1>3, <1>4

(* A path that agrees with p as far as it goes, and is shorter, is above p. *)
LEMMA PrefixIsParent ==
    ASSUME NEW p \in Paths, NEW q \in Paths, Len(q) <= Len(p),
           \A i \in 1 .. Len(q) : q[i] = p[i]
    PROVE  q = p \/ q \in Parents(p)
<1>1. /\ p \in Seq(Names) /\ Len(p) \in 1 .. MaxLen
      /\ q \in Seq(Names) /\ Len(q) \in 1 .. MaxLen
    BY PathFacts
<1>2. CASE Len(q) = Len(p)
    BY <1>1, <1>2, SeqEqual
<1>3. CASE Len(q) < Len(p)
    <2>1. /\ SubSeq(p, 1, Len(q)) \in Seq(Names)
          /\ Len(SubSeq(p, 1, Len(q))) = Len(q)
          /\ \A i \in 1 .. Len(q) : SubSeq(p, 1, Len(q))[i] = p[i]
        BY <1>1, <1>3
    <2>2. q = SubSeq(p, 1, Len(q))
        BY <1>1, <2>1, SeqEqual
    <2>3. Len(q) \in 1 .. Len(p) - 1
        BY <1>1, <1>3
    <2>4. SubSeq(p, 1, Len(q)) \in Parents(p)
        BY <2>3 DEF Parents
    <2> QED BY <2>2, <2>4
<1> QED BY <1>1, <1>2, <1>3

----------------------------------------------------------------------------
(* The order in which materialize visits the files. *)

(* No path of S lies under another, as no file of a tree does. *)
Apart(S) == \A p, q \in S : p \notin Parents(q)

(* Two paths, neither of which lies under the other, differ in a name. *)
LEMMA BeforeTotal ==
    ASSUME NEW p \in Paths, NEW q \in Paths, p # q,
           p \notin Parents(q), q \notin Parents(p)
    PROVE  Before(p, q) \/ Before(q, p)
<1> DEFINE D == {n \in 1 .. MaxLen : n <= Len(p) /\ n <= Len(q) /\ p[n] # q[n]}
<1>1. /\ p \in Seq(Names) /\ Len(p) \in 1 .. MaxLen
      /\ q \in Seq(Names) /\ Len(q) \in 1 .. MaxLen
    BY PathFacts
<1>2. D # {}
    <2>1. SUFFICES ASSUME D = {} PROVE FALSE
        OBVIOUS
    <2>2. \A n \in 1 .. MaxLen : n <= Len(p) /\ n <= Len(q) => p[n] = q[n]
        BY <2>1
    <2>3. CASE Len(q) <= Len(p)
        <3>1. \A n \in 1 .. Len(q) : q[n] = p[n]
            BY <1>1, <2>2, <2>3, RawDirAssumption
        <3> QED BY <2>3, <3>1, PrefixIsParent
    <2>4. CASE Len(p) <= Len(q)
        <3>1. \A n \in 1 .. Len(p) : p[n] = q[n]
            BY <1>1, <2>2, <2>4, RawDirAssumption
        <3> QED BY <2>4, <3>1, PrefixIsParent
    <2> QED BY <1>1, <2>3, <2>4
<1>3. D \subseteq Nat
    OBVIOUS
<1> HIDE DEF D
<1>4. PICK n \in D : \A m \in D : n <= m
    BY <1>2, <1>3, Least
<1>5. /\ n \in 1 .. MaxLen /\ n <= Len(p) /\ n <= Len(q)
      /\ p[n] # q[n] /\ p[n] \in Nat /\ q[n] \in Nat
    BY <1>1, <1>4, RawDirAssumption DEF D
<1>6. ASSUME NEW i \in 1 .. n - 1 PROVE p[i] = q[i]
    <2>1. i \in 1 .. MaxLen /\ i <= Len(p) /\ i <= Len(q) /\ i < n
        <3>1. MaxLen \in Nat
            BY RawDirAssumption
        <3>2. n \in Nat /\ Len(p) \in Nat /\ Len(q) \in Nat
            BY <1>1, <1>5, LenProperties
        <3> QED BY <1>5, <3>1, <3>2
    <2>2. i \notin D
        BY <1>4, <1>5, <2>1
    <2> QED BY <2>1, <2>2 DEF D
<1>7. SubSeq(p, 1, n - 1) = SubSeq(q, 1, n - 1)
    <2>1. /\ SubSeq(p, 1, n - 1) \in Seq(Names) /\ Len(SubSeq(p, 1, n - 1)) = n - 1
          /\ \A i \in 1 .. n - 1 : SubSeq(p, 1, n - 1)[i] = p[i]
        BY <1>1, <1>5
    <2>2. /\ SubSeq(q, 1, n - 1) \in Seq(Names) /\ Len(SubSeq(q, 1, n - 1)) = n - 1
          /\ \A i \in 1 .. n - 1 : SubSeq(q, 1, n - 1)[i] = q[i]
        BY <1>1, <1>5
    <2> QED BY <1>5, <1>6, <2>1, <2>2, SeqEqual
<1>8. p[n] < q[n] \/ q[n] < p[n]
    BY <1>5
<1> QED BY <1>5, <1>7, <1>8 DEF Before

(* What the order says, by index. *)
LEMMA BeforeAt ==
    ASSUME NEW p \in Paths, NEW q \in Paths, NEW n \in 1 .. MaxLen,
           n <= Len(p), n <= Len(q),
           SubSeq(p, 1, n - 1) = SubSeq(q, 1, n - 1)
    PROVE  \A i \in 1 .. n - 1 : p[i] = q[i]
<1>1. p \in Seq(Names) /\ q \in Seq(Names)
    BY PathFacts
<1>2. \A i \in 1 .. n - 1 : SubSeq(p, 1, n - 1)[i] = p[i]
    BY <1>1
<1>3. \A i \in 1 .. n - 1 : SubSeq(q, 1, n - 1)[i] = q[i]
    BY <1>1
<1> QED BY <1>2, <1>3

(* The order is transitive. *)
LEMMA BeforeTransitive ==
    ASSUME NEW p \in Paths, NEW q \in Paths, NEW r \in Paths,
           Before(p, q), Before(q, r)
    PROVE  Before(p, r)
<1>1. /\ p \in Seq(Names) /\ Len(p) \in 1 .. MaxLen
      /\ q \in Seq(Names) /\ Len(q) \in 1 .. MaxLen
      /\ r \in Seq(Names) /\ Len(r) \in 1 .. MaxLen
    BY PathFacts
<1>2. PICK m \in 1 .. MaxLen : /\ m <= Len(p) /\ m <= Len(q) /\ p[m] < q[m]
                               /\ SubSeq(p, 1, m - 1) = SubSeq(q, 1, m - 1)
    BY DEF Before
<1>3. PICK n \in 1 .. MaxLen : /\ n <= Len(q) /\ n <= Len(r) /\ q[n] < r[n]
                               /\ SubSeq(q, 1, n - 1) = SubSeq(r, 1, n - 1)
    BY DEF Before
<1>4. \A i \in 1 .. m - 1 : p[i] = q[i]
    BY <1>2, BeforeAt
<1>5. \A i \in 1 .. n - 1 : q[i] = r[i]
    BY <1>3, BeforeAt
<1> DEFINE k == IF m <= n THEN m ELSE n
<1>6. /\ k \in 1 .. MaxLen /\ k <= Len(p) /\ k <= Len(r)
      /\ k <= m /\ k <= n
    <2>1. m \in Nat /\ n \in Nat
        OBVIOUS
    <2>2. CASE m <= n
        <3>1. k = m
            BY <2>2
        <3> QED BY <1>1, <1>2, <1>3, <2>1, <2>2, <3>1
    <2>3. CASE n < m
        <3>1. k = n
            BY <2>1, <2>3
        <3> QED BY <1>1, <1>2, <1>3, <2>1, <2>3, <3>1
    <2> QED BY <2>1, <2>2, <2>3
<1>7. p[m] \in Nat /\ q[m] \in Nat /\ q[n] \in Nat /\ r[n] \in Nat
    <2>1. m \in 1 .. Len(p) /\ m \in 1 .. Len(q) /\ n \in 1 .. Len(q) /\ n \in 1 .. Len(r)
        BY <1>1, <1>2, <1>3
    <2>2. p[m] \in Names /\ q[m] \in Names /\ q[n] \in Names /\ r[n] \in Names
        BY <1>1, <2>1
    <2> QED BY <2>2, RawDirAssumption
<1>8. p[k] < r[k]
    <2>1. CASE m < n
        <3>1. k = m /\ q[m] = r[m]
            BY <1>5, <2>1
        <3> QED BY <1>2, <3>1
    <2>2. CASE m = n
        BY <1>2, <1>3, <1>7, <2>2
    <2>3. CASE n < m
        <3>1. k = n /\ p[n] = q[n]
            BY <1>4, <2>3
        <3> QED BY <1>3, <3>1
    <2> QED BY <2>1, <2>2, <2>3
<1>9. SubSeq(p, 1, k - 1) = SubSeq(r, 1, k - 1)
    <2> HIDE DEF k
    <2>1. /\ SubSeq(p, 1, k - 1) \in Seq(Names) /\ Len(SubSeq(p, 1, k - 1)) = k - 1
          /\ \A i \in 1 .. k - 1 : SubSeq(p, 1, k - 1)[i] = p[i]
        BY <1>1, <1>6
    <2>2. /\ SubSeq(r, 1, k - 1) \in Seq(Names) /\ Len(SubSeq(r, 1, k - 1)) = k - 1
          /\ \A i \in 1 .. k - 1 : SubSeq(r, 1, k - 1)[i] = r[i]
        BY <1>1, <1>6
    <2>3. \A i \in 1 .. k - 1 : p[i] = r[i]
        BY <1>4, <1>5, <1>6
    <2> QED BY <1>6, <2>1, <2>2, <2>3, SeqEqual
<1> HIDE DEF k
<1> QED BY <1>6, <1>8, <1>9 DEF Before

(* Finitely many files have a first one. *)
LEMMA FirstIsThere ==
    ASSUME NEW S, S \subseteq Paths, S # {}, IsFiniteSet(S), Apart(S)
    PROVE  First(S) \in S
<1> DEFINE Least1(U) == \E p \in U : \A q \in U \ {p} : Before(p, q)
           N == {n \in Nat : \A U \in SUBSET S : Cardinality(U) = n /\ U # {} => Least1(U)}
<1>1. 0 \in N
    BY FS_Subset, FS_EmptySet
<1>2. ASSUME NEW n \in Nat, n \in N PROVE n + 1 \in N
    <2> SUFFICES ASSUME NEW U \in SUBSET S, Cardinality(U) = n + 1, U # {}
                 PROVE  Least1(U)
        OBVIOUS
    <2>1. PICK x \in U : TRUE
        OBVIOUS
    <2> DEFINE V == U \ {x}
    <2>2. V \in SUBSET S /\ Cardinality(V) = n
        BY FS_Subset, FS_RemoveElement, FS_CardinalityType
    <2>3. CASE V = {}
        BY <2>3
    <2>4. CASE V # {}
        <3>1. Least1(V)
            BY <1>2, <2>2, <2>4
        <3>2. PICK p \in V : \A q \in V \ {p} : Before(p, q)
            BY <3>1
        <3>3. p \in Paths /\ x \in Paths /\ p # x /\ p \notin Parents(x) /\ x \notin Parents(p)
            BY DEF Apart
        <3>4. CASE Before(p, x)
            BY <3>2, <3>4
        <3>5. CASE Before(x, p)
            <4>1. ASSUME NEW q \in U \ {x} PROVE Before(x, q)
                <5>1. CASE q = p
                    BY <3>5, <5>1
                <5>2. CASE q # p
                    <6>1. Before(p, q) /\ q \in Paths
                        BY <3>2, <5>2
                    <6> QED BY <3>3, <3>5, <6>1, BeforeTransitive
                <5> QED BY <5>1, <5>2
            <4> QED BY <4>1
        <3> QED BY <3>3, <3>4, <3>5, BeforeTotal
    <2> QED BY <2>3, <2>4
<1> HIDE DEF N
<1>3. \A n \in Nat : n \in N
    BY <1>1, <1>2, Induction
<1>4. Cardinality(S) \in N
    BY <1>3, FS_CardinalityType
<1>5. Least1(S)
    BY <1>4 DEF N
<1> QED BY <1>5 DEF First

----------------------------------------------------------------------------
(* The walk over the components of a path. *)

(* What a request looks like, by index. *)
LEMMA RequestFacts ==
    \A r : r \in Requests <=>
        /\ r \in Seq(Components)
        /\ Len(r) <= MaxLen
        /\ \A k \in 2 .. Len(r) : r[k] \in Names \cup {ParentDir}
<1> USE RawDirAssumption
<1>1. ASSUME NEW r \in Requests, r # <<>>
      PROVE  /\ r \in Seq(Components)
             /\ Len(r) <= MaxLen
             /\ \A k \in 2 .. Len(r) : r[k] \in Names \cup {ParentDir}
    <2>1. PICK first \in Components,
                rest \in UNION {[1 .. n -> Names \cup {ParentDir}] : n \in 0 .. MaxLen - 1} :
            r = <<first>> \o rest
        <3> DEFINE Rests == UNION {[1 .. n -> Names \cup {ParentDir}] : n \in 0 .. MaxLen - 1}
        <3>1. Requests = {<<>>} \cup UNION {{<<first>> \o rest : rest \in Rests} :
                                                first \in Components}
            BY DEF Requests
        <3> HIDE RawDirAssumption DEF Rests
        <3>2. PICK first \in Components : r \in {<<first>> \o rest : rest \in Rests}
            BY <1>1, <3>1
        <3>3. PICK rest \in Rests : r = <<first>> \o rest
            BY <3>2
        <3> QED BY <3>3 DEF Rests
    <2>2. PICK n \in 0 .. MaxLen - 1 : rest \in [1 .. n -> Names \cup {ParentDir}]
        BY <2>1
    <2>3. /\ n \in Nat /\ n + 1 <= MaxLen
          /\ rest \in Seq(Names \cup {ParentDir}) /\ Len(rest) = n
        BY <2>1, <2>2
    <2>4. rest \in Seq(Components) /\ <<first>> \in Seq(Components)
        BY <2>3, SeqMonotonic DEF Components
    <2>5. r \in Seq(Components) /\ Len(r) = n + 1
        BY <2>1, <2>3, <2>4
    <2>6. \A k \in 2 .. Len(r) : r[k] \in Names \cup {ParentDir}
        BY <2>1, <2>3, <2>4, <2>5
    <2> QED BY <2>3, <2>5, <2>6
<1>2. ASSUME NEW r \in Seq(Components), Len(r) <= MaxLen, r # <<>>,
             \A k \in 2 .. Len(r) : r[k] \in Names \cup {ParentDir}
      PROVE  r \in Requests
    <2> DEFINE n == Len(r) - 1
               rest == [k \in 1 .. n |-> r[k + 1]]
    <2>1. n \in 0 .. MaxLen - 1 /\ r[1] \in Components
        BY <1>2
    <2>2. rest \in [1 .. n -> Names \cup {ParentDir}]
        <3>1. \A k \in 1 .. n : k + 1 \in 2 .. Len(r)
            BY <1>2
        <3> QED BY <1>2, <3>1
    <2>3. r = <<r[1]>> \o rest
        <3>1. /\ rest \in Seq(Components) /\ Len(rest) = n
            <4>1. rest \in Seq(Names \cup {ParentDir}) /\ Len(rest) = n
                BY <2>1, <2>2
            <4>2. Names \cup {ParentDir} \subseteq Components
                BY DEF Components
            <4> HIDE DEF rest
            <4> QED BY <4>1, <4>2, SeqMonotonic
        <3>2. /\ <<r[1]>> \o rest \in Seq(Components)
              /\ Len(<<r[1]>> \o rest) = Len(r)
            BY <1>2, <2>1, <3>1
        <3>3. ASSUME NEW k \in 1 .. Len(r) PROVE (<<r[1]>> \o rest)[k] = r[k]
            <4>1. CASE k = 1
                BY <2>1, <3>1, <4>1
            <4>2. CASE k # 1
                <5>1. k - 1 \in 1 .. n /\ k - 1 + 1 = k
                    BY <1>2, <4>2
                <5>2. rest[k - 1] = r[k]
                    BY <5>1
                <5> HIDE DEF rest
                <5>3. (<<r[1]>> \o rest)[k] = rest[k - 1]
                    BY <1>2, <2>1, <3>1, <4>2, <5>1
                <5> QED BY <5>2, <5>3
            <4> QED BY <4>1, <4>2
        <3> QED BY <1>2, <3>2, <3>3, SeqEqual
    <2> HIDE DEF rest, n
    <2>4. rest \in UNION {[1 .. k -> Names \cup {ParentDir}] : k \in 0 .. MaxLen - 1}
        BY <2>1, <2>2
    <2> QED BY <2>1, <2>3, <2>4 DEF Requests
<1>3. <<>> \in Requests /\ <<>> \in Seq(Components) /\ Len(<<>>) <= MaxLen
      /\ \A k \in 2 .. Len(<<>>) : <<>>[k] \in Names \cup {ParentDir}
    BY DEF Requests
<1> QED BY <1>1, <1>2, <1>3

(* What is left of a request without its last component is a request. *)
LEMMA FrontFacts ==
    ASSUME NEW r \in Requests, r # <<>>
    PROVE  /\ Front(r) \in Requests
           /\ Len(Front(r)) = Len(r) - 1
           /\ Len(r) \in Nat \ {0}
           /\ \A k \in 1 .. Len(r) - 1 : Front(r)[k] = r[k]
           /\ Last(r) \in Components
<1>1. /\ r \in Seq(Components) /\ Len(r) <= MaxLen /\ Len(r) \in Nat \ {0}
      /\ \A k \in 2 .. Len(r) : r[k] \in Names \cup {ParentDir}
    BY RequestFacts
<1>2. /\ Front(r) \in Seq(Components) /\ Len(Front(r)) = Len(r) - 1
      /\ \A k \in 1 .. Len(r) - 1 : Front(r)[k] = r[k]
    <2>1. \A k \in 1 .. Len(r) - 1 : r[k] \in Components
        BY <1>1
    <2> DEFINE f == SubSeq(r, 1, Len(r) - 1)
    <2>2. /\ f \in Seq(Components)
          /\ Len(f) = IF 1 <= Len(r) - 1 THEN Len(r) - 1 - 1 + 1 ELSE 0
          /\ \A k \in 1 .. Len(r) - 1 - 1 + 1 : f[k] = r[1 + k - 1]
        BY <1>1, <2>1, SubSeqProperties
    <2> HIDE DEF f
    <2>3. f \in Seq(Components) /\ Len(f) = Len(r) - 1
        <3>1. Len(r) \in Nat \ {0}
            BY <1>1
        <3>2. CASE Len(r) = 1
            BY <2>2, <3>2
        <3>3. CASE Len(r) # 1
            <4>1. 1 <= Len(r) - 1 /\ Len(r) - 1 - 1 + 1 = Len(r) - 1
                <5>1. \A n \in Nat \ {0} : n # 1 => 1 <= n - 1 /\ n - 1 - 1 + 1 = n - 1
                    OBVIOUS
                <5> QED BY <3>1, <3>3, <5>1
            <4> QED BY <2>2, <4>1
        <3> QED BY <3>2, <3>3
    <2>4. \A k \in 1 .. Len(r) - 1 : f[k] = r[k]
        <3> TAKE k \in 1 .. Len(r) - 1
        <3>1. k \in 1 .. Len(r) - 1 - 1 + 1 /\ 1 + k - 1 = k
            BY <1>1
        <3> QED BY <2>2, <3>1
    <2> QED BY <2>3, <2>4 DEF Front, f
<1>3. Len(Front(r)) <= MaxLen
    BY <1>1, <1>2, RawDirAssumption
<1>4. \A k \in 2 .. Len(Front(r)) : Front(r)[k] \in Names \cup {ParentDir}
    BY <1>1, <1>2
<1>5. Front(r) \in Requests
    BY <1>2, <1>3, <1>4, RequestFacts
<1>6. Last(r) \in Components
    BY <1>1 DEF Last
<1> QED BY <1>1, <1>2, <1>5, <1>6

(* What the loop of set_file computes for r, from what w says of shorter
   paths. *)
Loop(w, r) ==
    IF r = <<>> THEN Start ELSE SetDescend(w[Front(r)], Last(r))

UpTo(n) == {r \in Requests : Len(r) <= n}

(* The recursion of set_file's loop is well defined. *)
LEMMA WalkIsLoop ==
    /\ \E w : w = [r \in Requests |-> Loop(w, r)]
    /\ \A r \in Requests : SetWalk[r] = Loop(SetWalk, r)
<1> DEFINE N == {n \in Nat : \E w : w = [r \in UpTo(n) |-> Loop(w, r)]}
<1>1. 0 \in N
    <2> DEFINE w == [r \in UpTo(0) |-> Loop(<<>>, r)]
    <2>1. ASSUME NEW r \in UpTo(0) PROVE Loop(<<>>, r) = Loop(w, r)
        <3>1. r = <<>>
            BY RequestFacts DEF UpTo
        <3> QED BY <3>1 DEF Loop
    <2>2. w = [r \in UpTo(0) |-> Loop(w, r)]
        BY <2>1
    <2> QED BY <2>2
<1>2. ASSUME NEW n \in Nat, n \in N PROVE n + 1 \in N
    <2>1. PICK v : v = [r \in UpTo(n) |-> Loop(v, r)]
        BY <1>2
    <2> DEFINE w == [r \in UpTo(n + 1) |-> Loop(v, r)]
    <2>2. ASSUME NEW r \in UpTo(n) PROVE w[r] = v[r]
        <3>1. r \in UpTo(n + 1)
            BY RequestFacts DEF UpTo
        <3> QED BY <2>1, <3>1
    <2>3. ASSUME NEW r \in UpTo(n + 1) PROVE Loop(v, r) = Loop(w, r)
        <3>1. CASE r = <<>>
            BY <3>1 DEF Loop
        <3>2. CASE r # <<>>
            <4>1. Front(r) \in UpTo(n)
                BY <3>2, FrontFacts DEF UpTo
            <4>2. w[Front(r)] = v[Front(r)]
                BY <2>2, <4>1
            <4> HIDE DEF w
            <4> QED BY <3>2, <4>2 DEF Loop
        <3> QED BY <3>1, <3>2
    <2>4. w = [r \in UpTo(n + 1) |-> Loop(w, r)]
        BY <2>3
    <2> HIDE DEF w
    <2> QED BY <2>4
<1> HIDE DEF N
<1>3. MaxLen \in N
    BY <1>1, <1>2, Induction, RawDirAssumption
<1>4. UpTo(MaxLen) = Requests
    BY RequestFacts DEF UpTo
<1>5. \E w : w = [r \in Requests |-> Loop(w, r)]
    BY <1>3, <1>4 DEF N
<1>6. SetWalk = CHOOSE w : w = [r \in Requests |-> Loop(w, r)]
    BY DEF SetWalk, Loop
<1>7. SetWalk = [r \in Requests |-> Loop(SetWalk, r)]
    BY <1>5, <1>6
<1> QED BY <1>5, <1>7

(* The two loops take one component to the same place. *)
LEMMA DescendsMeet ==
    \A w, component : GetDescend(w, component) = SetDescend(w, component)
BY DEF GetDescend, SetDescend

(* The loop of get_file satisfies the recursion of set_file's. *)
LEMMA GetWalkIsLoop == \A r \in Requests : GetWalk[r] = Loop(GetWalk, r)
<1> DEFINE GetLoop(w, r) == IF r = <<>> THEN Start ELSE GetDescend(w[Front(r)], Last(r))
<1>1. \A w, r : GetLoop(w, r) = Loop(w, r)
    BY DescendsMeet DEF Loop
<1>2. GetWalk = CHOOSE w : w = [r \in Requests |-> GetLoop(w, r)]
    BY DEF GetWalk
<1> HIDE DEF GetLoop
<1>3. PICK w : w = [r \in Requests |-> Loop(w, r)]
    BY WalkIsLoop
<1>4. w = [r \in Requests |-> GetLoop(w, r)]
    BY <1>1, <1>3
<1>5. GetWalk = [r \in Requests |-> GetLoop(GetWalk, r)]
    BY <1>2, <1>4
<1> QED BY <1>1, <1>5

(* So the two loops end at the same place, whatever the path. *)
LEMMA WalksMeet == \A r \in Requests : GetWalk[r] = SetWalk[r]
<1> DEFINE N == {n \in Nat : \A r \in UpTo(n) : GetWalk[r] = SetWalk[r]}
<1>1. 0 \in N
    <2>1. \A r \in UpTo(0) : r \in Requests /\ r = <<>>
        BY RequestFacts DEF UpTo
    <2> QED BY <2>1, WalkIsLoop, GetWalkIsLoop DEF Loop
<1>2. ASSUME NEW n \in Nat, n \in N PROVE n + 1 \in N
    <2> SUFFICES ASSUME NEW r \in UpTo(n + 1) PROVE GetWalk[r] = SetWalk[r]
        OBVIOUS
    <2>1. r \in Requests /\ Len(r) <= n + 1
        BY DEF UpTo
    <2>2. CASE r = <<>>
        BY <2>1, <2>2, WalkIsLoop, GetWalkIsLoop DEF Loop
    <2>3. CASE r # <<>>
        <3>1. Front(r) \in UpTo(n)
            BY <2>1, <2>3, FrontFacts DEF UpTo
        <3>2. GetWalk[Front(r)] = SetWalk[Front(r)]
            BY <1>2, <3>1
        <3> QED BY <2>1, <2>3, <3>2, WalkIsLoop, GetWalkIsLoop DEF Loop
    <2> QED BY <2>2, <2>3
<1> HIDE DEF N
<1>3. MaxLen \in N
    BY <1>1, <1>2, Induction, RawDirAssumption
<1>4. UpTo(MaxLen) = Requests
    BY RequestFacts DEF UpTo
<1> QED BY <1>3, <1>4 DEF N

WalkErrors == {"none", "AbsolutePath", "OutsideDir", "Directory"}

(* Where the walk may be. *)
Places == [segments : Seq(Names), canBeFile : BOOLEAN, error : WalkErrors]

(* A component takes the walk to a place at most one name deeper. *)
LEMMA DescendFacts ==
    ASSUME NEW w \in Places, NEW component \in Components
    PROVE  /\ SetDescend(w, component) \in Places
           /\ Len(SetDescend(w, component).segments) <= Len(w.segments) + 1
<1> USE RawDirAssumption
<1>1. w.segments \in Seq(Names) /\ Len(w.segments) \in Nat
    BY DEF Places
<1>2. CASE w.error # "none"
    <2>1. SetDescend(w, component) = w
        BY <1>2 DEF SetDescend
    <2> QED BY <1>1, <2>1
<1>3. CASE w.error = "none" /\ component = CurDir
    <2>1. SetDescend(w, component) = [w EXCEPT !.canBeFile = FALSE]
        BY <1>3 DEF SetDescend
    <2>2. SetDescend(w, component) \in Places
        BY <2>1 DEF Places
    <2>3. SetDescend(w, component).segments = w.segments
        BY <2>1 DEF Places
    <2> QED BY <1>1, <2>2, <2>3
<1>4. CASE w.error = "none" /\ component = RootDir
    <2>1. SetDescend(w, component) = [w EXCEPT !.error = "AbsolutePath"]
        BY <1>4 DEF SetDescend
    <2>2. SetDescend(w, component) \in Places
        BY <2>1 DEF Places, WalkErrors
    <2>3. SetDescend(w, component).segments = w.segments
        BY <2>1 DEF Places
    <2> QED BY <1>1, <2>2, <2>3
<1>5. CASE w.error = "none" /\ component \in Names
    <2>1. SetDescend(w, component) =
            [w EXCEPT !.segments = Append(@, component), !.canBeFile = TRUE]
        BY <1>5 DEF SetDescend
    <2>2. /\ Append(w.segments, component) \in Seq(Names)
          /\ Len(Append(w.segments, component)) = Len(w.segments) + 1
        BY <1>1, <1>5
    <2>3. SetDescend(w, component) \in Places
        BY <2>1, <2>2 DEF Places
    <2>4. SetDescend(w, component).segments = Append(w.segments, component)
        BY <2>1 DEF Places
    <2> QED BY <1>1, <2>2, <2>3, <2>4
<1>6. CASE w.error = "none" /\ component = ParentDir /\ w.segments = <<>>
    <2>1. SetDescend(w, component) = [w EXCEPT !.error = "OutsideDir"]
        BY <1>6 DEF SetDescend
    <2>2. SetDescend(w, component) \in Places
        BY <2>1 DEF Places, WalkErrors
    <2>3. SetDescend(w, component).segments = w.segments
        BY <2>1 DEF Places
    <2> QED BY <1>1, <2>2, <2>3
<1>7. CASE w.error = "none" /\ component = ParentDir /\ w.segments # <<>>
    <2>1. SetDescend(w, component) = [w EXCEPT !.segments = Front(@), !.canBeFile = FALSE]
        BY <1>7 DEF SetDescend
    <2>2. Front(w.segments) \in Seq(Names) /\ Len(Front(w.segments)) <= Len(w.segments)
        <3> DEFINE n == Len(w.segments)
        <3>1. n \in Nat \ {0}
            BY <1>1, <1>7, EmptySeq
        <3>2. \A k \in 1 .. n - 1 : w.segments[k] \in Names
            BY <1>1
        <3>3. \A k \in Nat \ {0} : (IF 1 <= k - 1 THEN k - 1 - 1 + 1 ELSE 0) <= k
            OBVIOUS
        <3> HIDE DEF n
        <3>4. /\ SubSeq(w.segments, 1, n - 1) \in Seq(Names)
              /\ Len(SubSeq(w.segments, 1, n - 1)) =
                    IF 1 <= n - 1 THEN n - 1 - 1 + 1 ELSE 0
            BY <3>1, <3>2, SubSeqProperties
        <3> QED BY <3>1, <3>3, <3>4 DEF n, Front
    <2>3. SetDescend(w, component) \in Places
        BY <2>1, <2>2 DEF Places
    <2>4. SetDescend(w, component).segments = Front(w.segments)
        BY <2>1 DEF Places
    <2>5. Len(Front(w.segments)) \in Nat
        BY <2>2
    <2> QED BY <1>1, <2>2, <2>3, <2>4, <2>5
<1> QED BY <1>2, <1>3, <1>4, <1>5, <1>6, <1>7 DEF Components

(* Wherever the walk gets, it is no deeper than the path is long. *)
LEMMA WalkType ==
    \A r \in Requests : SetWalk[r] \in Places /\ Len(SetWalk[r].segments) <= Len(r)
<1> DEFINE N == {n \in Nat : \A r \in UpTo(n) :
                    SetWalk[r] \in Places /\ Len(SetWalk[r].segments) <= Len(r)}
<1>1. ASSUME NEW r \in Requests, r = <<>>
      PROVE  SetWalk[r] \in Places /\ Len(SetWalk[r].segments) <= Len(r)
    <2>1. SetWalk[r] = [segments |-> <<>>, canBeFile |-> TRUE, error |-> "none"]
        BY <1>1, WalkIsLoop DEF Loop, Start
    <2>2. <<>> \in Seq(Names) /\ Len(<<>>) = 0
        BY EmptySeq
    <2> QED BY <1>1, <2>1, <2>2 DEF Places, WalkErrors
<1>2. 0 \in N
    <2>1. \A r \in UpTo(0) : r \in Requests /\ r = <<>>
        BY RequestFacts DEF UpTo
    <2> QED BY <1>1, <2>1
<1>3. ASSUME NEW n \in Nat, n \in N PROVE n + 1 \in N
    <2> SUFFICES ASSUME NEW r \in UpTo(n + 1), r # <<>>
                 PROVE  SetWalk[r] \in Places /\ Len(SetWalk[r].segments) <= Len(r)
        BY <1>1 DEF UpTo
    <2>1. r \in Requests /\ Len(r) <= n + 1
        BY DEF UpTo
    <2>2. /\ Front(r) \in Requests /\ Len(Front(r)) = Len(r) - 1
          /\ Len(r) \in Nat \ {0} /\ Last(r) \in Components
        BY <2>1, FrontFacts
    <2>3. Front(r) \in UpTo(n)
        BY <2>1, <2>2 DEF UpTo
    <2>4. SetWalk[Front(r)] \in Places /\ Len(SetWalk[Front(r)].segments) <= Len(r) - 1
        BY <1>3, <2>2, <2>3
    <2>5. SetWalk[r] = SetDescend(SetWalk[Front(r)], Last(r))
        BY <2>1, WalkIsLoop DEF Loop
    <2>6. /\ SetWalk[r] \in Places
          /\ Len(SetWalk[r].segments) <= Len(SetWalk[Front(r)].segments) + 1
        BY <2>2, <2>4, <2>5, DescendFacts
    <2>7. Len(SetWalk[r].segments) \in Nat /\ Len(SetWalk[Front(r)].segments) \in Nat
        BY <2>4, <2>6 DEF Places
    <2> QED BY <2>2, <2>4, <2>6, <2>7
<1> HIDE DEF N
<1>4. \A n \in Nat : n \in N
    BY <1>2, <1>3, Induction
<1>5. ASSUME NEW r \in Requests
      PROVE  SetWalk[r] \in Places /\ Len(SetWalk[r].segments) <= Len(r)
    <2>1. Len(r) \in Nat
        BY RequestFacts
    <2>2. r \in UpTo(Len(r)) /\ Len(r) \in N
        BY <1>4, <2>1 DEF UpTo
    <2> QED BY <2>2 DEF N
<1> QED BY <1>5

(* The walk of a path that only has names ends at that path. *)
LEMMA WalkOfPath ==
    \A p \in Paths :
        /\ p \in Requests
        /\ SetWalk[p] = [segments |-> p, canBeFile |-> TRUE, error |-> "none"]
<1> DEFINE End(p) == [segments |-> p, canBeFile |-> TRUE, error |-> "none"]
           N == {n \in Nat : \A p \in Seq(Names) :
                    Len(p) = n /\ n <= MaxLen => p \in Requests /\ SetWalk[p] = End(p)}
<1>1. 0 \in N
    <2> SUFFICES ASSUME NEW p \in Seq(Names), Len(p) = 0
                 PROVE  p \in Requests /\ SetWalk[p] = End(p)
        OBVIOUS
    <2>1. p = <<>>
        OBVIOUS
    <2>2. p \in Requests
        BY <2>1 DEF Requests
    <2> QED BY <2>1, <2>2, WalkIsLoop DEF Loop, Start
<1>2. ASSUME NEW n \in Nat, n \in N PROVE n + 1 \in N
    <2> SUFFICES ASSUME NEW p \in Seq(Names), Len(p) = n + 1, n + 1 <= MaxLen
                 PROVE  p \in Requests /\ SetWalk[p] = End(p)
        OBVIOUS
    <2>1. p \in Requests
        <3>1. p \in Seq(Components)
            <4>1. Names \subseteq Components
                BY DEF Components
            <4> QED BY <4>1, SeqMonotonic
        <3>2. \A k \in 2 .. Len(p) : p[k] \in Names
            OBVIOUS
        <3> QED BY <3>1, <3>2, RequestFacts
    <2>2. /\ p # <<>> /\ Last(p) \in Names
        BY DEF Last
    <2>3. Front(p) \in Seq(Names) /\ Len(Front(p)) = n
        <3>1. /\ Front(p) \in Requests /\ Len(Front(p)) = n
              /\ \A k \in 1 .. n : Front(p)[k] = p[k]
            <4>1. /\ Front(p) \in Requests /\ Len(Front(p)) = Len(p) - 1
                  /\ \A k \in 1 .. Len(p) - 1 : Front(p)[k] = p[k]
                BY <2>1, <2>2, FrontFacts
            <4>2. Len(p) - 1 = n
                OBVIOUS
            <4> QED BY <4>1, <4>2
        <3>2. Front(p) \in [1 .. n -> Names]
            <4>1. Front(p) \in Seq(Components)
                BY <3>1, RequestFacts
            <4>2. Front(p) \in [1 .. n -> Components]
                BY <3>1, <4>1, LenProperties
            <4>3. \A k \in 1 .. n : p[k] \in Names
                OBVIOUS
            <4> QED BY <3>1, <4>2, <4>3
        <3> QED BY <3>1, <3>2
    <2>4. SetWalk[Front(p)] = End(Front(p))
        BY <1>2, <2>3, RawDirAssumption
    <2>5. SetWalk[p] = SetDescend(End(Front(p)), Last(p))
        BY <2>1, <2>2, <2>4, WalkIsLoop DEF Loop
    <2>6. SetDescend(End(Front(p)), Last(p)) = End(Append(Front(p), Last(p)))
        BY <2>2, RawDirAssumption DEF SetDescend
    <2>7. Append(Front(p), Last(p)) = p
        <3>1. \A k \in 1 .. n : Front(p)[k] = p[k]
            <4>1. \A k \in 1 .. Len(p) - 1 : Front(p)[k] = p[k]
                BY <2>1, <2>2, FrontFacts
            <4>2. Len(p) - 1 = n
                OBVIOUS
            <4> QED BY <4>1, <4>2
        <3>2. /\ Append(Front(p), Last(p)) \in Seq(Names)
              /\ Len(Append(Front(p), Last(p))) = n + 1
              /\ \A k \in 1 .. n : Append(Front(p), Last(p))[k] = Front(p)[k]
              /\ Append(Front(p), Last(p))[n + 1] = Last(p)
            BY <2>2, <2>3, AppendProperties
        <3>3. Last(p) = p[n + 1]
            BY DEF Last
        <3> QED BY <3>1, <3>2, <3>3, SeqEqual
    <2> QED BY <2>1, <2>5, <2>6, <2>7
<1> HIDE DEF N
<1>3. \A n \in Nat : n \in N
    BY <1>1, <1>2, Induction
<1>4. ASSUME NEW p \in Paths PROVE p \in Requests /\ SetWalk[p] = End(p)
    <2>1. p \in Seq(Names) /\ Len(p) \in 1 .. MaxLen
        BY PathFacts
    <2>2. Len(p) \in N /\ Len(p) <= MaxLen
        BY <1>3, <2>1, RawDirAssumption
    <2> QED BY <2>1, <2>2 DEF N
<1> QED BY <1>4

(* A path that the walk accepts leads to a path of the tree, or to its root;
   a path of the tree leads to itself. *)
LEMMA SegmentFacts ==
    /\ \A r \in Requests :
        /\ SetWalked[r].error \in WalkErrors
        /\ Segments(r) # <<>> => Segments(r) \in Paths
    /\ \A p \in Paths : p \in Requests /\ SetWalked[p].error = "none" /\ Segments(p) = p
<1>1. ASSUME NEW r \in Requests
      PROVE  /\ SetWalked[r].error \in WalkErrors
             /\ Segments(r) # <<>> => Segments(r) \in Paths
    <2>1. SetWalk[r] \in Places /\ Len(SetWalk[r].segments) <= Len(r)
        BY WalkType
    <2>2. /\ SetWalked[r].segments = SetWalk[r].segments
          /\ SetWalked[r].error \in WalkErrors
        BY <2>1 DEF SetWalked, Checked, Places, WalkErrors
    <2>3. Segments(r) \in Seq(Names) /\ Len(Segments(r)) <= Len(r)
        BY <2>1, <2>2 DEF Segments, Places
    <2>4. Len(r) \in Nat /\ Len(r) <= MaxLen
        BY RequestFacts
    <2>5. Segments(r) # <<>> => Len(Segments(r)) \in 1 .. MaxLen
        BY <2>3, <2>4, RawDirAssumption, EmptySeq
    <2> QED BY <2>2, <2>3, <2>5, PathFacts
<1>2. ASSUME NEW p \in Paths
      PROVE  p \in Requests /\ SetWalked[p].error = "none" /\ Segments(p) = p
    <2>1. p \in Requests /\ SetWalk[p] = [segments |-> p, canBeFile |-> TRUE, error |-> "none"]
        BY WalkOfPath
    <2>2. SetWalked[p] = SetWalk[p]
        BY <2>1 DEF SetWalked, Checked
    <2> QED BY <2>1, <2>2 DEF Segments
<1> QED BY <1>1, <1>2

----------------------------------------------------------------------------
(* The invariant. *)

(* Nothing stands on disk that the tree does not have: a directory is above a
   file, and a file is whole unless its write failed. *)
NoStranger ==
    \A p \in DOMAIN disk :
        /\ p \in DOMAIN tree
        /\ disk[p] = Dir => \E f \in Files(tree) : p \in Parents(f)
        /\ disk[p] # Dir => p \in Files(tree)
        /\ disk[p] # Dir => disk[p] = tree[p] \/ (stage = "failed" /\ p = First(todo))

(* How far materialize is. *)
Progress ==
    /\ stage \in {"mkdir", "write", "failed"} => todo # {}
    /\ stage \in {"idle", "done"} => todo = {}
    /\ stage = "idle" => disk = Root
    /\ stage \in {"mkdir", "write", "done"} => Files(disk) = Files(tree) \ todo
    /\ stage = "write" => Parents(First(todo)) \subseteq DOMAIN disk

(* The inductive invariant. *)
IInv == TypeOK /\ IsFiniteSet(Files(tree)) /\ NoStranger /\ Progress

(* A file of a tree has no file above it. *)
LEMMA FilesApart ==
    ASSUME NEW t, IsTree(t)
    PROVE  Apart(Files(t))
    BY DEF IsTree, Files, Apart

(* The loop of materialize has a next file as long as any is left. *)
LEMMA NextFile ==
    ASSUME IInv, todo # {}
    PROVE  First(todo) \in todo /\ First(todo) \in Files(tree) /\ First(todo) \in Paths
<1>1. /\ IsTree(tree) /\ todo \subseteq Files(tree) /\ IsFiniteSet(Files(tree))
      /\ Files(tree) \subseteq Paths
    BY DEF IInv, TypeOK, Files
<1>2. IsFiniteSet(todo)
    BY <1>1, FS_Subset
<1>3. Apart(todo)
    BY <1>1, FilesApart DEF Apart
<1> QED BY <1>1, <1>2, <1>3, FirstIsThere

(* What the walk down of a call adds: nothing when it will fail, and the
   directories above the new file when it will not. *)
LEMMA WithParentsFacts ==
    ASSUME NEW t, NEW p \in Paths, DOMAIN t \subseteq Paths, IsTree(t),
           t \in [DOMAIN t -> Contents \cup {Dir}]
    PROVE  /\ (\E q \in Parents(p) : IsFile(t, q)) \/ p \in DOMAIN t => WithParents(t, p) = t
           /\ ~ (\E q \in Parents(p) : IsFile(t, q)) =>
                WithParents(t, p) =
                    [q \in DOMAIN t \cup Parents(p) |-> IF q \in DOMAIN t THEN t[q] ELSE Dir]
<1> DEFINE S == {q \in Parents(p) : ~ \E a \in Parents(q) \cup {q} : IsFile(t, a)}
<1>1. WithParents(t, p) = [q \in DOMAIN t \cup S |-> IF q \in DOMAIN t THEN t[q] ELSE Dir]
    BY DEF WithParents, WithDirs
<1>2. ASSUME NEW a \in Parents(p), IsFile(t, a) PROVE S \subseteq DOMAIN t
    <2> SUFFICES ASSUME NEW q \in S PROVE q \in DOMAIN t
        OBVIOUS
    <2>1. q \in Parents(p) /\ a \notin Parents(q) \cup {q}
        BY <1>2
    <2>2. q \in Parents(a)
        BY <2>1, ParentsAreAChain
    <2> QED BY <1>2, <2>2 DEF IsTree, IsFile
<1>3. ASSUME p \in DOMAIN t PROVE S \subseteq DOMAIN t
    BY <1>3 DEF IsTree
<1>4. ASSUME S \subseteq DOMAIN t PROVE WithParents(t, p) = t
    <2>1. DOMAIN t \cup S = DOMAIN t
        BY <1>4
    <2> HIDE DEF S
    <2>2. WithParents(t, p) = [q \in DOMAIN t |-> t[q]]
        BY <1>1, <2>1
    <2> QED BY <2>2
<1>5. ASSUME ~ \E q \in Parents(p) : IsFile(t, q) PROVE S = Parents(p)
    BY <1>5, ParentFacts
<1> HIDE DEF S
<1> QED BY <1>1, <1>2, <1>3, <1>4, <1>5

(* What t becomes when p is set to c. *)
Set(t, p, c) ==
    [q \in DOMAIN t \cup Parents(p) \cup {p} |->
        IF q = p THEN c ELSE IF q \in DOMAIN t THEN t[q] ELSE Dir]

(* A call adds a file and the directories above it, or changes nothing. *)
LEMMA SetFileFacts ==
    ASSUME TypeOK, NEW r \in Requests, NEW c \in Contents, SetFile(r, c), tree' # tree
    PROVE  /\ Segments(r) \in Paths
           /\ Segments(r) \notin DOMAIN tree
           /\ \A q \in Parents(Segments(r)) : ~IsFile(tree, q)
           /\ tree' = Set(tree, Segments(r), c)
<1> DEFINE p == Segments(r)
<1>1. SetWalked[r].error = "none" /\ p \in Paths
    BY SegmentFacts DEF SetFile
<1>2. tree' = IF SetOutcome(tree, r) = "Ok" THEN WithFile(WithParents(tree, p), p, c)
                                            ELSE WithParents(tree, p)
    BY DEF SetFile
<1> HIDE DEF p
<1>3. /\ DOMAIN tree \subseteq Paths /\ IsTree(tree)
      /\ tree \in [DOMAIN tree -> Contents \cup {Dir}]
    BY DEF TypeOK
<1>4. SetOutcome(tree, r) = IF \E q \in Parents(p) : IsFile(tree, q) THEN "UnderFile"
                            ELSE IF ~Vacant(tree, p) THEN "AlreadyExists"
                            ELSE "Ok"
    <2>1. p # <<>>
        BY <1>1, PathFacts
    <2> QED BY <1>1, <2>1 DEF SetOutcome, p
<1>5. ~ ((\E q \in Parents(p) : IsFile(tree, q)) \/ p \in DOMAIN tree)
    <2> SUFFICES ASSUME (\E q \in Parents(p) : IsFile(tree, q)) \/ p \in DOMAIN tree
                 PROVE  FALSE
        OBVIOUS
    <2>1. WithParents(tree, p) = tree
        BY <1>1, <1>3, WithParentsFacts
    <2>2. SetOutcome(tree, r) # "Ok"
        BY <1>4 DEF Vacant
    <2> QED BY <1>2, <2>1, <2>2
<1>6. tree' = WithFile(WithParents(tree, p), p, c)
    BY <1>2, <1>4, <1>5 DEF Vacant
<1>7. WithParents(tree, p) =
        [q \in DOMAIN tree \cup Parents(p) |-> IF q \in DOMAIN tree THEN tree[q] ELSE Dir]
    <2>1. ~ (\E q \in Parents(p) : IsFile(tree, q)) =>
            WithParents(tree, p) =
                [q \in DOMAIN tree \cup Parents(p) |-> IF q \in DOMAIN tree THEN tree[q] ELSE Dir]
        BY <1>1, <1>3, WithParentsFacts
    <2> QED BY <1>5, <2>1
<1>8. tree' = Set(tree, p, c)
    BY <1>6, <1>7 DEF Set, WithFile
<1> QED BY <1>1, <1>5, <1>8 DEF p

(* The result of a set is a tree, with one more file. *)
LEMMA SetIsATree ==
    ASSUME NEW t, DOMAIN t \subseteq Paths, IsTree(t),
           t \in [DOMAIN t -> Contents \cup {Dir}],
           NEW p \in Paths, NEW c \in Contents, p \notin DOMAIN t,
           \A q \in Parents(p) : ~IsFile(t, q)
    PROVE  /\ DOMAIN Set(t, p, c) \subseteq Paths
           /\ Set(t, p, c) \in [DOMAIN Set(t, p, c) -> Contents \cup {Dir}]
           /\ IsTree(Set(t, p, c))
           /\ Files(Set(t, p, c)) = Files(t) \cup {p}
           /\ \A q \in DOMAIN t : Set(t, p, c)[q] = t[q]
<1> DEFINE u == Set(t, p, c)
<1>1. /\ DOMAIN u = DOMAIN t \cup Parents(p) \cup {p}
      /\ u[p] = c
      /\ \A q \in DOMAIN t : u[q] = t[q]
      /\ \A q \in Parents(p) : q # p /\ u[q] = Dir
      /\ u \in [DOMAIN u -> Contents \cup {Dir}]
    <2>1. \A q \in Parents(p) : q # p
        BY ParentFacts
    <2>2. \A q \in Parents(p) : q \in DOMAIN t => t[q] = Dir
        BY DEF IsFile
    <2> QED BY <2>1, <2>2 DEF Set
<1> HIDE DEF u
<1>2. DOMAIN u \subseteq Paths
    BY <1>1, ParentFacts
<1>3. IsTree(u)
    <2> SUFFICES ASSUME NEW x \in DOMAIN u, NEW q \in Parents(x)
                 PROVE  q \in DOMAIN u /\ u[q] = Dir
        BY DEF IsTree
    <2>1. CASE x \in DOMAIN t
        BY <1>1, <2>1 DEF IsTree
    <2>2. CASE x = p
        BY <1>1, <2>2
    <2>3. CASE x \in Parents(p)
        <3>1. q \in Parents(p)
            BY <2>3, ParentFacts
        <3> QED BY <1>1, <3>1
    <2> QED BY <1>1, <2>1, <2>2, <2>3
<1>4. Files(u) = Files(t) \cup {p}
    <2>1. c # Dir
        BY RawDirAssumption
    <2> QED BY <1>1, <2>1 DEF Files
<1> QED BY <1>1, <1>2, <1>3, <1>4 DEF u

(* Directories that materialize makes for a file of the tree. *)
LEMMA DirsFacts ==
    ASSUME IInv, NEW f \in Files(tree), NEW S, S \subseteq Parents(f),
           \A q \in S : Parents(q) \subseteq S
    PROVE  /\ IsTree(WithDirs(disk, S))
           /\ Files(WithDirs(disk, S)) = Files(disk)
           /\ DOMAIN WithDirs(disk, S) = DOMAIN disk \cup S
           /\ \A q \in DOMAIN disk : WithDirs(disk, S)[q] = disk[q]
           /\ \A q \in S : q \in DOMAIN tree /\ WithDirs(disk, S)[q] = Dir
<1> DEFINE u == WithDirs(disk, S)
<1>1. /\ DOMAIN u = DOMAIN disk \cup S
      /\ \A q \in DOMAIN disk : u[q] = disk[q]
      /\ \A q \in S : q \notin DOMAIN disk => u[q] = Dir
    BY DEF WithDirs
<1> HIDE DEF u
<1>2. ASSUME NEW q \in S PROVE q \in DOMAIN tree /\ u[q] = Dir
    <2>1. q \in DOMAIN tree /\ tree[q] = Dir
        BY DEF IInv, TypeOK, IsTree, Files
    <2>2. q \in DOMAIN disk => disk[q] = Dir
        BY <2>1 DEF IInv, NoStranger, Files
    <2> QED BY <1>1, <2>1, <2>2
<1>3. IsTree(u)
    BY <1>1, <1>2 DEF IInv, TypeOK, IsTree
<1>4. Files(u) = Files(disk)
    BY <1>1, <1>2 DEF Files
<1> QED BY <1>1, <1>2, <1>3, <1>4 DEF u

(* A file that materialize writes where its directories are. *)
LEMMA FileFacts ==
    ASSUME IInv, NEW f \in Files(tree), f \in Paths, Parents(f) \subseteq DOMAIN disk,
           NEW c, c # Dir
    PROVE  /\ IsTree(WithFile(disk, f, c))
           /\ Files(WithFile(disk, f, c)) = Files(disk) \cup {f}
           /\ DOMAIN WithFile(disk, f, c) = DOMAIN disk \cup {f}
           /\ \A q \in DOMAIN disk : q # f => WithFile(disk, f, c)[q] = disk[q]
           /\ WithFile(disk, f, c)[f] = c
<1> DEFINE u == WithFile(disk, f, c)
<1>1. /\ DOMAIN u = DOMAIN disk \cup {f}
      /\ \A q \in DOMAIN disk : q # f => u[q] = disk[q]
      /\ u[f] = c
    BY DEF WithFile
<1> HIDE DEF u
<1>2. IsTree(u)
    <2> SUFFICES ASSUME NEW p \in DOMAIN u, NEW q \in Parents(p)
                 PROVE  q \in DOMAIN u /\ u[q] = Dir
        BY DEF IsTree
    <2>1. CASE p = f
        <3>1. q \in DOMAIN disk /\ q # f
            BY <2>1, ParentFacts
        <3>2. q \in DOMAIN tree /\ tree[q] = Dir
            BY <2>1 DEF IInv, TypeOK, IsTree, Files
        <3>3. disk[q] = Dir
            BY <3>1, <3>2 DEF IInv, NoStranger, Files
        <3> QED BY <1>1, <3>1, <3>3
    <2>2. CASE p # f
        <3>1. p \in DOMAIN disk /\ q \in DOMAIN disk /\ disk[q] = Dir
            BY <1>1, <2>2 DEF IInv, TypeOK, IsTree
        <3>2. q # f
            <4>1. p \in DOMAIN tree
                BY <3>1 DEF IInv, NoStranger
            <4> QED BY <4>1 DEF IInv, TypeOK, IsTree, Files
        <3> QED BY <1>1, <3>1, <3>2
    <2> QED BY <2>1, <2>2
<1>3. Files(u) = Files(disk) \cup {f}
    BY <1>1 DEF Files
<1> QED BY <1>1, <1>2, <1>3 DEF u

(* It holds of the trees that default makes and populate_from reads. *)
LEMMA InitFacts == Init => IInv
<1> SUFFICES ASSUME Init PROVE IInv
    OBVIOUS
<1>1. /\ Root \in [DOMAIN Root -> Contents \cup {Dir}] /\ DOMAIN Root = {}
      /\ Files(Root) = {} /\ IsTree(Root)
    BY DEF Root, Files, IsTree
<1>2. /\ DOMAIN tree \subseteq Paths
      /\ tree \in [DOMAIN tree -> Contents \cup {Dir}]
      /\ IsTree(tree) /\ IsFiniteSet(Files(tree))
    <2>1. CASE tree = Root
        BY <1>1, <2>1, FS_EmptySet
    <2>2. CASE tree \in Loaded
        BY <2>2, RawDirAssumption
    <2> QED BY <2>1, <2>2 DEF Init
<1> QED BY <1>1, <1>2 DEF Init, IInv, TypeOK, NoStranger, Progress

(* Every step keeps it. *)
LEMMA StepFacts == IInv /\ [Next]_vars => IInv'
<1> SUFFICES ASSUME IInv, [Next]_vars PROVE IInv'
    OBVIOUS
<1>0. /\ DOMAIN tree \subseteq Paths /\ IsTree(tree) /\ IsTree(disk)
      /\ tree \in [DOMAIN tree -> Contents \cup {Dir}]
      /\ todo \subseteq Files(tree) /\ Files(tree) \subseteq DOMAIN tree
      /\ stage \in {"idle", "mkdir", "write", "done", "failed"}
      /\ IsFiniteSet(Files(tree))
    BY DEF IInv, TypeOK, Files
<1>1. ASSUME NEW r \in Requests, NEW c \in Contents, SetFile(r, c) PROVE IInv'
    <2>1. stage = "idle" /\ todo = {} /\ disk = Root /\ UNCHANGED <<disk, todo, stage>>
        BY <1>1 DEF SetFile, IInv, Progress
    <2>2. DOMAIN disk = {} /\ Files(disk) = {}
        BY <2>1 DEF Root, Files
    <2>3. /\ DOMAIN tree' \subseteq Paths /\ IsTree(tree')
          /\ tree' \in [DOMAIN tree' -> Contents \cup {Dir}]
          /\ IsFiniteSet(Files(tree'))
        <3>1. CASE tree' = tree
            BY <1>0, <3>1
        <3>2. CASE tree' # tree
            <4>1. TypeOK
                BY DEF IInv
            <4>2. /\ Segments(r) \in Paths /\ Segments(r) \notin DOMAIN tree
                  /\ \A q \in Parents(Segments(r)) : ~IsFile(tree, q)
                  /\ tree' = Set(tree, Segments(r), c)
                BY <1>1, <3>2, <4>1, SetFileFacts
            <4>3. /\ DOMAIN tree' \subseteq Paths /\ IsTree(tree')
                  /\ tree' \in [DOMAIN tree' -> Contents \cup {Dir}]
                  /\ Files(tree') = Files(tree) \cup {Segments(r)}
                BY <1>0, <4>2, SetIsATree
            <4> QED BY <1>0, <4>3, FS_AddElement
        <3> QED BY <3>1, <3>2
    <2>4. TypeOK'
        BY <1>0, <2>1, <2>3 DEF TypeOK
    <2>5. NoStranger'
        BY <2>1, <2>2 DEF NoStranger
    <2>6. Progress'
        BY <2>1 DEF Progress
    <2>7. IsFiniteSet(Files(tree))'
        BY <2>3 DEF Files
    <2> QED BY <2>4, <2>5, <2>6, <2>7 DEF IInv
<1>2. CASE Materialize
    <2>1. /\ stage = "idle" /\ disk = Root /\ UNCHANGED <<tree, disk>>
          /\ todo' = Files(tree)
          /\ stage' = IF todo' = {} THEN "done" ELSE "mkdir"
        BY <1>2 DEF Materialize, FilesRecursive, IInv, Progress
    <2>2. DOMAIN disk = {} /\ Files(disk) = {} /\ Files(tree') = Files(tree)
          /\ Files(disk') = Files(disk)
        BY <2>1 DEF Root, Files
    <2>3. TypeOK'
        BY <1>0, <2>1, <2>2 DEF TypeOK
    <2>4. NoStranger'
        BY <2>1, <2>2 DEF NoStranger
    <2>5. Progress'
        BY <2>1, <2>2 DEF Progress
    <2>6. IsFiniteSet(Files(tree))'
        BY <1>0, <2>2
    <2> QED BY <2>3, <2>4, <2>5, <2>6 DEF IInv
<1> DEFINE f == First(todo)
<1>3. ASSUME stage \in {"mkdir", "write"}
      PROVE  /\ todo # {} /\ Files(disk) = Files(tree) \ todo
             /\ f \in todo /\ f \in Files(tree) /\ f \in Paths
    BY <1>3, NextFile DEF IInv, Progress
<1> HIDE DEF f
<1>4. ASSUME NEW S, S \subseteq Parents(f), \A q \in S : Parents(q) \subseteq S,
             stage = "mkdir", disk' = WithDirs(disk, S), UNCHANGED <<tree, todo>>,
             stage' \in {"write", "failed"},
             stage' = "write" => S = Parents(f)
      PROVE  IInv'
    <2>1. /\ todo # {} /\ Files(disk) = Files(tree) \ todo
          /\ f \in todo /\ f \in Files(tree) /\ f \in Paths
        BY <1>3, <1>4
    <2>2. /\ IsTree(disk') /\ Files(disk') = Files(disk)
          /\ DOMAIN disk' = DOMAIN disk \cup S
          /\ \A q \in DOMAIN disk : disk'[q] = disk[q]
          /\ \A q \in S : q \in DOMAIN tree /\ disk'[q] = Dir
        BY <1>4, <2>1, DirsFacts
    <2>3. Files(tree') = Files(tree) /\ First(todo') = f
        BY <1>4 DEF f
    <2>4. TypeOK'
        BY <1>0, <1>4, <2>2, <2>3 DEF TypeOK
    <2>5. NoStranger'
        <3> SUFFICES ASSUME NEW p \in DOMAIN disk'
                     PROVE  /\ p \in DOMAIN tree
                            /\ disk'[p] = Dir => \E x \in Files(tree) : p \in Parents(x)
                            /\ disk'[p] # Dir => p \in Files(tree) /\ disk'[p] = tree[p]
            BY <1>4, <2>3 DEF NoStranger
        <3>1. CASE p \in DOMAIN disk
            BY <1>4, <2>2, <3>1 DEF IInv, NoStranger
        <3>2. CASE p \in S
            BY <1>4, <2>1, <2>2, <3>2
        <3> QED BY <2>2, <3>1, <3>2
    <2>6. Progress'
        BY <1>4, <2>1, <2>2, <2>3 DEF Progress
    <2>7. IsFiniteSet(Files(tree))'
        BY <1>0, <2>3
    <2> QED BY <2>4, <2>5, <2>6, <2>7 DEF IInv
<1>5. CASE CreateDirAll
    <2>1. /\ stage = "mkdir" /\ disk' = WithDirs(disk, Parents(f))
          /\ stage' = "write" /\ UNCHANGED <<tree, todo>>
        BY <1>5 DEF CreateDirAll, f
    <2>2. \A q \in Parents(f) : Parents(q) \subseteq Parents(f)
        BY <1>3, <2>1, ParentFacts
    <2> QED BY <1>4, <2>1, <2>2
<1>6. CASE CreateDirAllFails
    <2>1. PICK made \in SUBSET Parents(f) :
            /\ \A q \in made : Parents(q) \subseteq made
            /\ disk' = WithDirs(disk, made)
        BY <1>6 DEF CreateDirAllFails, f
    <2>2. stage = "mkdir" /\ stage' = "failed" /\ UNCHANGED <<tree, todo>>
        BY <1>6 DEF CreateDirAllFails
    <2> QED BY <1>4, <2>1, <2>2
<1>7. CASE Write
    <2>1. /\ stage = "write" /\ disk' = WithFile(disk, f, tree[f])
          /\ todo' = todo \ {f} /\ UNCHANGED tree
          /\ stage' = IF todo' # {} THEN "mkdir" ELSE "done"
        BY <1>7 DEF Write, f
    <2>2. /\ todo # {} /\ Files(disk) = Files(tree) \ todo
          /\ f \in todo /\ f \in Files(tree) /\ f \in Paths
          /\ Parents(f) \subseteq DOMAIN disk
        BY <1>3, <2>1 DEF IInv, Progress, f
    <2>3. tree[f] # Dir /\ f \in DOMAIN tree
        BY <2>2 DEF Files
    <2>4. /\ IsTree(disk') /\ Files(disk') = Files(disk) \cup {f}
          /\ DOMAIN disk' = DOMAIN disk \cup {f}
          /\ \A q \in DOMAIN disk : q # f => disk'[q] = disk[q]
          /\ disk'[f] = tree[f]
        BY <2>1, <2>2, <2>3, FileFacts
    <2>5. Files(tree') = Files(tree)
        BY <2>1
    <2>6. TypeOK'
        BY <1>0, <2>1, <2>4, <2>5 DEF TypeOK
    <2>7. NoStranger'
        <3> SUFFICES ASSUME NEW p \in DOMAIN disk'
                     PROVE  /\ p \in DOMAIN tree
                            /\ disk'[p] = Dir => \E x \in Files(tree) : p \in Parents(x)
                            /\ disk'[p] # Dir => p \in Files(tree) /\ disk'[p] = tree[p]
            BY <2>1, <2>5 DEF NoStranger
        <3>1. CASE p \in DOMAIN disk /\ p # f
            BY <2>1, <2>4, <3>1 DEF IInv, NoStranger
        <3>2. CASE p = f
            BY <2>2, <2>3, <2>4, <3>2
        <3> QED BY <2>4, <3>1, <3>2
    <2>8. Progress'
        <3>1. Files(disk') = Files(tree') \ todo'
            BY <2>1, <2>2, <2>4, <2>5
        <3> QED BY <2>1, <3>1 DEF Progress
    <2>9. IsFiniteSet(Files(tree))'
        BY <1>0, <2>5
    <2> QED BY <2>6, <2>7, <2>8, <2>9 DEF IInv
<1>8. CASE WriteFails
    <2>1. /\ stage = "write" /\ stage' = "failed" /\ UNCHANGED <<tree, todo>>
          /\ disk' = WithFile(disk, f, Partial) \/ disk' = disk
        BY <1>8 DEF WriteFails, f
    <2>2. /\ todo # {} /\ f \in Files(tree) /\ f \in Paths
          /\ Parents(f) \subseteq DOMAIN disk
        BY <1>3, <2>1 DEF IInv, Progress, f
    <2>3. Partial # Dir /\ f \in DOMAIN tree
        BY <2>2, RawDirAssumption DEF Files
    <2>4. Files(tree') = Files(tree) /\ First(todo') = f
        BY <2>1 DEF f
    <2>5. Progress'
        BY <2>1, <2>2 DEF Progress
    <2>6. CASE disk' = disk
        <3>1. TypeOK'
            BY <1>0, <2>1, <2>4, <2>6 DEF TypeOK
        <3>2. NoStranger'
            BY <2>1, <2>4, <2>6 DEF IInv, NoStranger
        <3> QED BY <1>0, <2>4, <2>5, <3>1, <3>2 DEF IInv
    <2>7. CASE disk' = WithFile(disk, f, Partial)
        <3>1. /\ IsTree(disk')
              /\ DOMAIN disk' = DOMAIN disk \cup {f}
              /\ \A q \in DOMAIN disk : q # f => disk'[q] = disk[q]
              /\ disk'[f] = Partial
            BY <2>2, <2>3, <2>7, FileFacts
        <3>2. TypeOK'
            BY <1>0, <2>1, <2>4, <3>1 DEF TypeOK
        <3>3. NoStranger'
            <4> SUFFICES ASSUME NEW p \in DOMAIN disk'
                         PROVE  /\ p \in DOMAIN tree
                                /\ disk'[p] = Dir => \E x \in Files(tree) : p \in Parents(x)
                                /\ disk'[p] # Dir => /\ p \in Files(tree)
                                                     /\ disk'[p] = tree[p] \/ p = f
                BY <2>1, <2>4 DEF NoStranger
            <4>1. CASE p \in DOMAIN disk /\ p # f
                BY <2>1, <3>1, <4>1 DEF IInv, NoStranger
            <4>2. CASE p = f
                BY <2>2, <2>3, <3>1, <4>2
            <4> QED BY <3>1, <4>1, <4>2
        <3> QED BY <1>0, <2>4, <2>5, <3>2, <3>3 DEF IInv
    <2> QED BY <2>1, <2>6, <2>7
<1>9. CASE UNCHANGED vars
    BY <1>9 DEF vars, IInv, TypeOK, NoStranger, Progress, Files, First
<1> QED BY <1>1, <1>2, <1>5, <1>6, <1>7, <1>8, <1>9 DEF Next

(* The invariant holds whatever is called, and wherever materialize fails. *)
THEOREM Inductive == Spec => []IInv
<1> QED BY InitFacts, StepFacts, PTL DEF Spec

----------------------------------------------------------------------------
(* The theorems. *)

(* The tree and the disk are trees: a directory stands above everything, and
   materialize's list has files of the tree only. *)
THEOREM TypeCorrect == Spec => []TypeOK
<1>1. IInv => TypeOK
    BY DEF IInv
<1> QED BY <1>1, Inductive, PTL

(* What the lookups do with an accepted path, case by case. *)
LEMMA Lookups ==
    ASSUME NEW r \in Requests
    PROVE  LET p == Segments(r)
               under == \E q \in Parents(p) : IsFile(tree, q)
           IN  IF SetWalked[r].error # "none"
               THEN /\ SetOutcome(tree, r) = SetWalked[r].error
                    /\ GetFile(tree, r) = SetWalked[r].error
               ELSE IF p = <<>>
               THEN /\ SetOutcome(tree, r) = "EmptyFileName"
                    /\ GetFile(tree, r) = "DoesNotExist"
               ELSE /\ SetOutcome(tree, r) =
                        (IF under THEN "UnderFile"
                         ELSE IF p \in DOMAIN tree THEN "AlreadyExists" ELSE "Ok")
                    /\ GetFile(tree, r) =
                        (IF under THEN "UnderFile"
                         ELSE IF p \notin DOMAIN tree THEN "DoesNotExist"
                         ELSE IF tree[p] = Dir THEN "Directory" ELSE "Ok")
<1>0. GetWalked[r] = SetWalked[r] /\ GetWalked[r].segments = Segments(r)
    BY WalksMeet DEF GetWalked, SetWalked, Segments
<1>1. CASE SetWalked[r].error # "none"
    BY <1>0, <1>1 DEF SetOutcome, GetFile
<1>2. CASE SetWalked[r].error = "none" /\ Segments(r) = <<>>
    BY <1>0, <1>2 DEF SetOutcome, GetFile
<1>3. CASE SetWalked[r].error = "none" /\ Segments(r) # <<>>
    BY <1>0, <1>3 DEF SetOutcome, GetFile, Vacant
<1> QED BY <1>1, <1>2, <1>3

(* get_file and set_file agree on every path of every length, and get_file
   finds every file there is. *)
THEOREM LookupsMeet == Spec => []LookupsAgree
<1>1. ASSUME IInv PROVE LookupsAgree
    <2>1. ASSUME NEW r \in Requests
          PROVE  LET set == SetOutcome(tree, r)
                     get == GetFile(tree, r)
                 IN  /\ set = "Ok" => get = "DoesNotExist"
                     /\ get = "DoesNotExist" => set \in {"Ok", "EmptyFileName"}
                     /\ set = "UnderFile" <=> get = "UnderFile"
                     /\ \A error \in {"AbsolutePath", "OutsideDir"} :
                            set = error <=> get = error
                     /\ set = "AlreadyExists" => get \in {"Ok", "Directory"}
                     /\ set = "Directory" => get = "Directory"
                     /\ get = "Directory" => set \in {"Directory", "AlreadyExists"}
        <3>1. CASE SetWalked[r].error # "none"
            <4>1. SetWalked[r].error \in {"AbsolutePath", "OutsideDir", "Directory"}
                BY <3>1, SegmentFacts DEF WalkErrors
            <4> QED BY <3>1, <4>1, Lookups
        <3>2. CASE SetWalked[r].error = "none"
            BY <3>2, Lookups
        <3> QED BY <3>1, <3>2
    <2>2. ASSUME NEW p \in Files(tree) PROVE GetFile(tree, p) = "Ok"
        <3>1. p \in Paths /\ p \in DOMAIN tree /\ tree[p] # Dir
            BY <1>1 DEF IInv, TypeOK, Files
        <3>2. p \in Requests /\ SetWalked[p].error = "none" /\ Segments(p) = p /\ p # <<>>
            BY <3>1, SegmentFacts, PathFacts
        <3>3. ~ \E q \in Parents(p) : IsFile(tree, q)
            BY <1>1, <3>1 DEF IInv, TypeOK, IsTree, IsFile
        <3> QED BY <3>1, <3>2, <3>3, Lookups
    <2> QED BY <2>1, <2>2 DEF LookupsAgree
<1> QED BY <1>1, Inductive, PTL

(* What materialize leaves on disk is the tree's files and the directories
   above them; while it runs, and when it fails, part of them. *)
THEOREM DiskIsTheTree == Spec => []MaterializesFiles
<1>1. ASSUME IInv PROVE MaterializesFiles
    <2>1. ASSUME stage = "done"
          PROVE  /\ FileMapOf(disk) = FileMapOf(tree)
                 /\ DOMAIN disk = UNION {Parents(p) \cup {p} : p \in Files(tree)}
        <3>1. Files(disk) = Files(tree)
            BY <1>1, <2>1 DEF IInv, Progress
        <3>2. \A p \in Files(disk) : disk[p] = tree[p]
            BY <1>1, <2>1 DEF IInv, NoStranger, Files
        <3>3. FileMapOf(disk) = FileMapOf(tree)
            BY <3>1, <3>2 DEF FileMapOf
        <3>4. ASSUME NEW p \in DOMAIN disk
              PROVE  \E f \in Files(tree) : p \in Parents(f) \cup {f}
            BY <1>1 DEF IInv, NoStranger
        <3>5. ASSUME NEW f \in Files(tree) PROVE Parents(f) \cup {f} \subseteq DOMAIN disk
            <4>1. f \in DOMAIN disk
                BY <3>1 DEF Files
            <4> QED BY <1>1, <4>1 DEF IInv, TypeOK, IsTree
        <3> QED BY <3>3, <3>4, <3>5
    <2>2. ASSUME NEW p \in Files(disk)
          PROVE  /\ p \in Files(tree)
                 /\ disk[p] = tree[p] \/ (stage = "failed" /\ p = First(todo))
        BY <1>1 DEF IInv, NoStranger, Files
    <2> QED BY <2>1, <2>2 DEF MaterializesFiles
<1> QED BY <1>1, Inductive, PTL

(* The tree changes in set_file only, and then by one file. *)
LEMMA TreeSteps ==
    ASSUME IInv, [Next]_vars, tree' # tree
    PROVE  \E p \in Paths, c \in Contents :
            /\ p \notin DOMAIN tree
            /\ \A q \in Parents(p) : ~IsFile(tree, q)
            /\ tree' = Set(tree, p, c)
<1>1. PICK r \in Requests, c \in Contents : SetFile(r, c)
    BY DEF Next, vars, Materialize, CreateDirAll, CreateDirAllFails, Write, WriteFails
<1>2. TypeOK
    BY DEF IInv
<1> QED BY <1>1, <1>2, SetFileFacts

(* A set adds one file and the directories above it and keeps all the rest,
   or, when it returns an error, changes nothing. *)
THEOREM AllOrNothing == Spec => SetIsAllOrNothing
<1>1. ASSUME IInv, [Next]_vars, tree' # tree
      PROVE  \E p \in Files(tree') :
                /\ DOMAIN tree' \ DOMAIN tree \subseteq Parents(p) \cup {p}
                /\ p \notin DOMAIN tree
                /\ \A q \in DOMAIN tree : q \in DOMAIN tree' /\ tree'[q] = tree[q]
    <2>1. PICK p \in Paths, c \in Contents :
            /\ p \notin DOMAIN tree
            /\ \A q \in Parents(p) : ~IsFile(tree, q)
            /\ tree' = Set(tree, p, c)
        BY <1>1, TreeSteps
    <2>2. /\ DOMAIN tree \subseteq Paths /\ IsTree(tree)
          /\ tree \in [DOMAIN tree -> Contents \cup {Dir}]
        BY <1>1 DEF IInv, TypeOK
    <2>3. /\ Files(tree') = Files(tree) \cup {p}
          /\ \A q \in DOMAIN tree : tree'[q] = tree[q]
        BY <2>1, <2>2, SetIsATree
    <2>4. DOMAIN tree' = DOMAIN tree \cup Parents(p) \cup {p}
        BY <2>1 DEF Set
    <2> QED BY <2>1, <2>3, <2>4
<1>2. IInv /\ [Next]_vars =>
        [tree' # tree =>
            \E p \in Files(tree') :
                /\ DOMAIN tree' \ DOMAIN tree \subseteq Parents(p) \cup {p}
                /\ p \notin DOMAIN tree
                /\ \A q \in DOMAIN tree : q \in DOMAIN tree' /\ tree'[q] = tree[q]]_vars
    BY <1>1
<1> QED BY <1>2, Inductive, PTL DEF Spec, SetIsAllOrNothing

(* Of two paths, neither lies under the other exactly when they differ and
   neither is among the directories above the other. *)
LEMMA CompatibleFacts ==
    ASSUME NEW p \in Paths, NEW q \in Paths, p # q, p \notin Parents(q), q \notin Parents(p)
    PROVE  Promised!Compatible(p, q)
<1>1. ASSUME NEW x \in Paths, NEW y \in Paths, Promised!IsPrefix(x, y)
      PROVE  x = y \/ x \in Parents(y)
    <2>1. /\ x \in Seq(Names) /\ Len(x) \in 1 .. MaxLen
          /\ y \in Seq(Names) /\ Len(y) \in 1 .. MaxLen
        BY PathFacts
    <2>2. Len(x) <= Len(y) /\ SubSeq(x, 1, Len(x)) = SubSeq(y, 1, Len(x))
        BY <1>1 DEF Promised!IsPrefix
    <2>3. \A i \in 1 .. Len(x) : SubSeq(x, 1, Len(x))[i] = x[i]
        BY <2>1
    <2>4. \A i \in 1 .. Len(x) : SubSeq(y, 1, Len(x))[i] = y[i]
        BY <2>1, <2>2
    <2>5. \A i \in 1 .. Len(x) : x[i] = y[i]
        BY <2>2, <2>3, <2>4
    <2> QED BY <2>2, <2>5, PrefixIsParent
<1> QED BY <1>1 DEF Promised!Compatible

(* Every step of the tree is one of the map of files that it promises: a new
   file lies neither above nor below another, and none is ever replaced. *)
THEOREM FileMapRefined == Spec => ImplementsFileMap
<1>1. IInv => Promised!Init
    <2> SUFFICES ASSUME IInv, NEW p \in Files(tree), NEW q \in Files(tree), p # q
                 PROVE  Promised!Compatible(p, q)
        BY DEF Promised!Init, Promised!PrefixFree, FileMapOf
    <2>1. IsTree(tree) /\ p \in Paths /\ q \in Paths
        BY DEF IInv, TypeOK, Files
    <2>2. p \notin Parents(q) /\ q \notin Parents(p)
        BY <2>1, FilesApart DEF Apart
    <2> QED BY <2>1, <2>2, CompatibleFacts
<1>2. IInv /\ [Next]_vars => [Promised!Next]_(FileMapOf(tree))
    <2> SUFFICES ASSUME IInv, [Next]_vars
                 PROVE  [Promised!Next]_(FileMapOf(tree))
        OBVIOUS
    <2>1. CASE tree' = tree
        BY <2>1
    <2>2. CASE tree' # tree
        <3>1. PICK p \in Paths, c \in Contents :
                /\ p \notin DOMAIN tree
                /\ \A q \in Parents(p) : ~IsFile(tree, q)
                /\ tree' = Set(tree, p, c)
            BY <2>2, TreeSteps
        <3>2. /\ DOMAIN tree \subseteq Paths /\ IsTree(tree)
              /\ tree \in [DOMAIN tree -> Contents \cup {Dir}]
            BY DEF IInv, TypeOK
        <3>3. /\ Files(tree') = Files(tree) \cup {p}
              /\ \A q \in DOMAIN tree : tree'[q] = tree[q]
              /\ tree'[p] = c
            BY <3>1, <3>2, SetIsATree DEF Set
        <3>4. ASSUME NEW q \in Files(tree) PROVE Promised!Compatible(p, q)
            <4>1. q \in Paths /\ q \in DOMAIN tree /\ tree[q] # Dir
                BY <3>2 DEF Files
            <4>2. q # p /\ q \notin Parents(p) /\ p \notin Parents(q)
                BY <3>1, <3>2, <4>1 DEF IsFile, IsTree
            <4> QED BY <4>1, <4>2, CompatibleFacts
        <3>5. FileMapOf(tree') =
                [q \in Files(tree) \cup {p} |-> IF q = p THEN c ELSE FileMapOf(tree)[q]]
            <4>1. \A q \in Files(tree) : q # p /\ tree'[q] = FileMapOf(tree)[q]
                BY <3>1, <3>3 DEF Files, FileMapOf
            <4> QED BY <3>3, <4>1 DEF FileMapOf
        <3>6. DOMAIN FileMapOf(tree) = Files(tree)
            BY DEF FileMapOf
        <3>7. Promised!SetFile(p, c)
            BY <3>4, <3>5, <3>6 DEF Promised!SetFile
        <3> QED BY <3>1, <3>7 DEF Promised!Next
    <2> QED BY <2>1, <2>2
<1> QED BY <1>1, <1>2, Inductive, PTL DEF Spec, ImplementsFileMap, Promised!Spec
=============================================================================
