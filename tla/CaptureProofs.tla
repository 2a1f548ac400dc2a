---------------------------- MODULE CaptureProofs ----------------------------
(***************************************************************************)
(* Proofs about the capture tool.                                          *)
(*                                                                         *)
(* Its capture gives the same whatever chunks its streams arrive in, it    *)
(* ends only when it is complete or late, and its file is whole and in     *)
(* order: for all streams, endpoints, cycles and failures.  What a buffer  *)
(* gives when it is cut off is an operator on sequences; the first part    *)
(* says how it acts on a sequence and its continuation.  Sets of positions *)
(* are listed in increasing order: that there is one listing is shown by   *)
(* induction, which needs only that "<" is well-founded.                   *)
(*                                                                         *)
(* Its analysis of a capture, which reads every line once, says what a     *)
(* reader of the whole file would find: for all lines.  The reference      *)
(* definitions are about functions on sets of line numbers; the second     *)
(* part says what one line more does to such a function ("Continues") and  *)
(* to each thing that the analysis keeps of it, and the invariant is that  *)
(* everything kept is that of the lines read.                              *)
(***************************************************************************)
EXTENDS CaptureRun, CaptureAnalysis, FiniteSetTheorems, SequenceTheorems,
        WellFoundedInduction, TLAPS

\* Every set of naturals has a least element; with it, induction over the naturals is a
\* statement about sets.
LEMMA LeastNumber ==
    ASSUME NEW T, T \subseteq Nat, T # {}
    PROVE  \E x \in T : \A y \in T : x <= y
<1>1. PICK x \in T : \A y \in T : ~ (<<y, x>> \in OpToRel(<, Nat))
    BY NatLessThanWellFounded, WFMin
<1>2. \A y \in T : ~ (y < x)
    BY <1>1 DEF OpToRel
<1> QED
    BY <1>2

\* Induction over the naturals, as a statement about sets.
LEMMA SetInduction ==
    ASSUME NEW T, T \subseteq Nat, 0 \in T, \A n \in T : n + 1 \in T
    PROVE  T = Nat
<1> SUFFICES ASSUME Nat \ T # {} PROVE FALSE
    OBVIOUS
<1>1. PICK x \in Nat \ T : \A y \in Nat \ T : x <= y
    BY LeastNumber
<1>2. x - 1 \in Nat /\ x - 1 \notin T
    BY <1>1
<1> QED
    BY <1>1, <1>2

-----------------------------------------------------------------------------
(* Listings *)

Increasing(s, n) == \A i, j \in 1..n : i < j => s[i] < s[j]
IsListing(s, S) == s \in [1..Cardinality(S) -> S] /\ Increasing(s, Cardinality(S))

\* A set of numbers up to n is finite.
LEMMA PartOfInterval ==
    ASSUME NEW n \in Nat, NEW S \in SUBSET (1..n)
    PROVE  IsFiniteSet(S) /\ Cardinality(S) \in Nat /\ Cardinality(S) <= n
<1>1. IsFiniteSet(1..n) /\ Cardinality(1..n) <= n
    BY FS_Interval
<1>2. IsFiniteSet(S) /\ Cardinality(S) <= Cardinality(1..n)
    BY <1>1, FS_Subset
<1>3. Cardinality(S) \in Nat /\ Cardinality(1..n) \in Nat
    BY <1>1, <1>2, FS_CardinalityType
<1> QED
    BY <1>1, <1>2, <1>3

\* Without its largest element a set of numbers has a listing that is one shorter.
LEMMA WithoutLargest ==
    ASSUME NEW n \in Nat, NEW S \in SUBSET (1..n + 1), n + 1 \in S
    PROVE  LET T == S \ {n + 1} IN
           /\ T \in SUBSET (1..n) /\ Cardinality(T) \in Nat
           /\ Cardinality(S) = Cardinality(T) + 1 /\ S = T \cup {n + 1} /\ n + 1 \notin T
<1> DEFINE T == S \ {n + 1}
<1>1. IsFiniteSet(S) /\ Cardinality(S) \in Nat
    BY PartOfInterval
<1>2. T \in SUBSET (1..n)
    OBVIOUS
<1>3. Cardinality(T) = Cardinality(S) - 1
    BY <1>1, FS_RemoveElement
<1>4. Cardinality(T) \in Nat
    BY <1>2, PartOfInterval
<1> QED
    BY <1>1, <1>2, <1>3, <1>4

\* Every set of numbers up to n has a listing, and that has every element.
HasListing(n) ==
    \A S \in SUBSET (1..n) : \E s : IsListing(s, S) /\ S = {s[i] : i \in 1..Cardinality(S)}

\* Every set of numbers up to n has a listing.
LEMMA ListingExists == \A n \in Nat : HasListing(n)
<1> DEFINE T == {n \in Nat : HasListing(n)}
<1>1. 0 \in T
    <2>1. ASSUME NEW S \in SUBSET (1..0)
          PROVE  \E s : IsListing(s, S) /\ S = {s[i] : i \in 1..Cardinality(S)}
        <3>1. S = {}
            OBVIOUS
        <3>2. Cardinality(S) = 0
            BY <3>1, FS_EmptySet
        <3>3. IsListing(<<>>, S) /\ S = {<<>>[i] : i \in 1..Cardinality(S)}
            BY <3>1, <3>2 DEF IsListing, Increasing
        <3> QED
            BY <3>3
    <2> QED
        BY <2>1 DEF HasListing
<1>2. ASSUME NEW n \in T PROVE n + 1 \in T
    <2>1. n \in Nat /\ HasListing(n)
        OBVIOUS
    <2>2. ASSUME NEW S \in SUBSET (1..n + 1)
          PROVE  \E s : IsListing(s, S) /\ S = {s[i] : i \in 1..Cardinality(S)}
        <3>1. CASE n + 1 \notin S
            <4>1. S \in SUBSET (1..n)
                BY <2>1, <3>1
            <4> QED
                BY <2>1, <4>1 DEF HasListing
        <3>2. CASE n + 1 \in S
            <4> DEFINE U == S \ {n + 1}
                       c == Cardinality(U)
            <4>1. U \in SUBSET (1..n) /\ c \in Nat /\ Cardinality(S) = c + 1 /\ S = U \cup {n + 1}
                BY <2>1, <3>2, WithoutLargest
            <4>2. PICK s : IsListing(s, U) /\ U = {s[i] : i \in 1..c}
                BY <2>1, <4>1 DEF HasListing
            <4> DEFINE t == [i \in 1..c + 1 |-> IF i = c + 1 THEN n + 1 ELSE s[i]]
            <4> HIDE DEF U, c
            <4>3. \A i \in 1..c : s[i] \in U /\ s[i] \in 1..n /\ t[i] = s[i]
                <5>1. \A i \in 1..c : s[i] \in U
                    BY <4>2
                <5>2. \A i \in 1..c : s[i] \in 1..n
                    BY <4>1, <5>1
                <5>3. \A i \in 1..c : t[i] = s[i]
                    BY <4>1
                <5> QED
                    BY <5>1, <5>2, <5>3
            <4>4. t \in [1..c + 1 -> S] /\ t[c + 1] = n + 1
                BY <4>1, <4>3
            <4>5. Increasing(t, c + 1)
                <5>1. \A i, j \in 1..c : i < j => s[i] < s[j]
                    BY <4>2 DEF IsListing, Increasing, c
                <5>2. \A i, j \in 1..c + 1 : i < j => i \in 1..c /\ (j \in 1..c \/ j = c + 1)
                    BY <4>1
                <5>3. \A i \in 1..c : t[i] < n + 1
                    <6> HIDE DEF t
                    <6> SUFFICES ASSUME NEW i \in 1..c PROVE t[i] < n + 1
                        OBVIOUS
                    <6>1. s[i] \in 1..n /\ t[i] = s[i]
                        BY <4>3
                    <6> QED
                        BY <2>1, <6>1
                <5> HIDE DEF t
                <5> QED
                    BY <4>3, <4>4, <5>1, <5>2, <5>3 DEF Increasing
            <4>6. S = {t[i] : i \in 1..c + 1}
                <5>1. \A x \in S : \E i \in 1..c + 1 : t[i] = x
                    BY <4>1, <4>2, <4>3, <4>4 DEF c
                <5> HIDE DEF t
                <5> QED
                    BY <4>4, <5>1
            <4> HIDE DEF t
            <4>7. IsListing(t, S)
                BY <4>1, <4>4, <4>5 DEF IsListing
            <4>8. S = {t[i] : i \in 1..Cardinality(S)}
                BY <4>1, <4>6
            <4> QED
                BY <4>7, <4>8
        <3> QED
            BY <3>1, <3>2
    <2> QED
        BY <2>1, <2>2 DEF HasListing
<1> HIDE DEF T
<1>3. T = Nat
    <2>1. T \subseteq Nat
        BY DEF T
    <2> QED
        BY <1>1, <1>2, <2>1, SetInduction
<1> QED
    BY <1>3 DEF T

OneListing(n) ==
    \A S \in SUBSET (1..n) : \A s, t : IsListing(s, S) /\ IsListing(t, S) => s = t

\* A listing ends with the largest element, and the rest is a listing of the others.
Start(s, U) == [i \in 1..Cardinality(U) |-> s[i]]

\* The last element listed is the largest.
LEMMA LargestIsLast ==
    ASSUME NEW n \in Nat, NEW S \in SUBSET (1..n + 1), n + 1 \in S, NEW s, IsListing(s, S)
    PROVE  LET U == S \ {n + 1} IN
           s[Cardinality(U) + 1] = n + 1 /\ IsListing(Start(s, U), U)
<1> DEFINE U == S \ {n + 1}
           c == Cardinality(U)
<1>1. /\ U \in SUBSET (1..n) /\ c \in Nat /\ Cardinality(S) = c + 1
      /\ S = U \cup {n + 1} /\ n + 1 \notin U /\ c = Cardinality(U)
    BY WithoutLargest
<1> HIDE DEF U, c
<1>2. IsFiniteSet(U) /\ IsFiniteSet(1..c + 1) /\ Cardinality(1..c + 1) = c + 1
    BY <1>1, PartOfInterval, FS_Interval
<1>3. \A i \in 1..c + 1 : s[i] \in S /\ s[i] \in 1..n + 1
    BY <1>1 DEF IsListing
<1>4. \A i, j \in 1..c + 1 : i < j => s[i] < s[j]
    BY <1>1 DEF IsListing, Increasing
<1>5. s[c + 1] = n + 1
    <2> SUFFICES ASSUME s[c + 1] # n + 1 PROVE FALSE
        OBVIOUS
    <2>1. \A i \in 1..c + 1 : s[i] # n + 1
        <3> SUFFICES ASSUME NEW i \in 1..c + 1, s[i] = n + 1 PROVE FALSE
            OBVIOUS
        <3>1. i < c + 1 /\ c + 1 \in 1..c + 1
            BY <1>1
        <3>2. s[i] < s[c + 1] /\ s[c + 1] \in 1..n + 1
            BY <1>3, <1>4, <3>1
        <3> QED
            BY <3>2
    <2>2. s \in [1..c + 1 -> U]
        BY <1>1, <1>3, <2>1 DEF IsListing
    <2> DEFINE D == 1..c + 1
    <2>3. \E x, y \in D : x # y /\ s[x] = s[y]
        <3>1. Cardinality(U) < Cardinality(D) /\ IsFiniteSet(U) /\ IsFiniteSet(D) /\ s \in [D -> U]
            <4>1. IsFiniteSet(U) /\ IsFiniteSet(D) /\ Cardinality(D) = c + 1
                BY <1>2
            <4>2. s \in [D -> U]
                BY <2>2
            <4>3. Cardinality(U) < Cardinality(D)
                <5> HIDE DEF D
                <5> QED
                    BY <1>1, <4>1
            <4> QED
                BY <4>1, <4>2, <4>3
        <3> HIDE DEF D
        <3> QED
            BY <3>1, FS_PigeonHole
    <2>4. PICK i, j \in 1..c + 1 : i # j /\ s[i] = s[j]
        BY <2>3
    <2> HIDE DEF D
    <2>5. (i < j \/ j < i) /\ s[i] \in Nat
        BY <1>1, <1>3, <2>4
    <2> QED
        BY <1>4, <2>4, <2>5
<1>6. \A i \in 1..c : s[i] \in U
    <2> SUFFICES ASSUME NEW i \in 1..c PROVE s[i] \in U
        OBVIOUS
    <2>1. i \in 1..c + 1 /\ c + 1 \in 1..c + 1 /\ i < c + 1
        BY <1>1
    <2>2. s[i] < n + 1 /\ s[i] \in S
        BY <1>3, <1>4, <1>5, <2>1
    <2> QED
        BY <1>1, <2>2
<1>7. IsListing(Start(s, U), U)
    <2>1. 1..c \subseteq 1..c + 1
        BY <1>1
    <2> QED
        BY <1>4, <1>6, <2>1 DEF IsListing, Increasing, Start, c
<1> QED
    BY <1>5, <1>7 DEF U, c

\* A set of numbers has one listing only.
LEMMA ListingUnique == \A n \in Nat : OneListing(n)
<1> DEFINE T == {n \in Nat : OneListing(n)}
<1>1. 0 \in T
    <2>1. ASSUME NEW S \in SUBSET (1..0), NEW s, NEW t, IsListing(s, S), IsListing(t, S)
          PROVE  s = t
        <3>1. S = {}
            OBVIOUS
        <3>2. Cardinality(S) = 0
            BY <3>1, FS_EmptySet
        <3> QED
            BY <2>1, <3>1, <3>2 DEF IsListing
    <2> QED
        BY <2>1 DEF OneListing
<1>2. ASSUME NEW n \in T PROVE n + 1 \in T
    <2>1. n \in Nat /\ OneListing(n)
        OBVIOUS
    <2>2. ASSUME NEW S \in SUBSET (1..n + 1), NEW s, NEW t, IsListing(s, S), IsListing(t, S)
          PROVE  s = t
        <3>1. CASE n + 1 \notin S
            <4>1. S \in SUBSET (1..n)
                BY <2>1, <3>1
            <4> QED
                BY <2>1, <2>2, <4>1 DEF OneListing
        <3>2. CASE n + 1 \in S
            <4> DEFINE U == S \ {n + 1}
                       c == Cardinality(U)
            <4>1. U \in SUBSET (1..n) /\ c \in Nat /\ Cardinality(S) = c + 1
                BY <2>1, <3>2, WithoutLargest
            <4>2. /\ s[c + 1] = n + 1 /\ IsListing(Start(s, U), U)
                  /\ t[c + 1] = n + 1 /\ IsListing(Start(t, U), U)
                BY <2>1, <2>2, <3>2, LargestIsLast
            <4>3. Start(s, U) = Start(t, U)
                <5> HIDE DEF U
                <5> QED
                    BY <2>1, <4>1, <4>2 DEF OneListing
            <4>4. \A i \in 1..c : Start(s, U)[i] = s[i] /\ Start(t, U)[i] = t[i]
                BY DEF Start
            <4> HIDE DEF U, c
            <4>5. \A i \in 1..c + 1 : s[i] = t[i]
                <5>1. \A i \in 1..c + 1 : i \in 1..c \/ i = c + 1
                    BY <4>1
                <5> QED
                    BY <4>2, <4>3, <4>4, <5>1
            <4>6. s \in [1..c + 1 -> S] /\ t \in [1..c + 1 -> S]
                BY <2>2, <4>1 DEF IsListing
            <4> HIDE DEF T
            <4>7. s = [i \in 1..c + 1 |-> s[i]] /\ t = [i \in 1..c + 1 |-> t[i]]
                BY <4>6
            <4>8. [i \in 1..c + 1 |-> s[i]] = [i \in 1..c + 1 |-> t[i]]
                BY <4>5
            <4> QED
                BY <4>7, <4>8
        <3> QED
            BY <3>1, <3>2
    <2> QED
        BY <2>1, <2>2 DEF OneListing
<1> HIDE DEF T
<1>3. T = Nat
    <2>1. T \subseteq Nat
        BY DEF T
    <2> QED
        BY <1>1, <1>2, <2>1, SetInduction
<1> QED
    BY <1>3 DEF T

\* What Listing gives is the one listing, and has every element.
LEMMA ListingFacts ==
    ASSUME NEW n \in Nat, NEW S \in SUBSET (1..n)
    PROVE  /\ IsListing(Listing(S), S) /\ S = {Listing(S)[i] : i \in 1..Cardinality(S)}
           /\ \A s : IsListing(s, S) => s = Listing(S)
<1>1. PICK s : IsListing(s, S) /\ S = {s[i] : i \in 1..Cardinality(S)}
    BY ListingExists DEF HasListing
<1>2. IsListing(Listing(S), S)
    BY <1>1 DEF IsListing, Increasing, Listing
<1>3. \A t : IsListing(t, S) => t = Listing(S)
    BY <1>2, ListingUnique DEF OneListing
<1>4. s = Listing(S)
    BY <1>1, <1>3
<1> QED
    BY <1>1, <1>2, <1>3, <1>4

\* A set of numbers up to n, and behind it one of numbers up to m.
Shifted(n, T) == {n + t : t \in T}
Joined(n, S, T) == S \cup Shifted(n, T)
Part(S, n) == n \in Nat /\ S \in SUBSET (1..n)

\* Together they are a set of numbers up to n + m.
LEMMA JoinedPart ==
    ASSUME NEW n, NEW S, Part(S, n), NEW m, NEW T, Part(T, m)
    PROVE  Part(Joined(n, S, T), n + m)
<1>1. n \in Nat /\ S \in SUBSET (1..n) /\ m \in Nat /\ T \in SUBSET (1..m)
    BY DEF Part
<1>2. \A x \in Shifted(n, T) : x \in 1..n + m
    BY <1>1 DEF Shifted
<1>3. \A x \in S : x \in 1..n + m
    BY <1>1
<1>4. n + m \in Nat
    BY <1>1
<1> QED
    BY <1>2, <1>3, <1>4 DEF Joined, Part

\* The number of elements of such a set is the sum of the two.
LEMMA ShiftedSize ==
    ASSUME NEW n, NEW S, Part(S, n), NEW m, NEW T, Part(T, m)
    PROVE  /\ Cardinality(S) \in Nat /\ Cardinality(T) \in Nat
           /\ Cardinality(Joined(n, S, T)) = Cardinality(S) + Cardinality(T)
<1> DEFINE X == Shifted(n, T)
           f == [t \in T |-> n + t]
<1>0. n \in Nat /\ S \in SUBSET (1..n) /\ m \in Nat /\ T \in SUBSET (1..m)
    BY DEF Part
<1>1. IsFiniteSet(S) /\ IsFiniteSet(T) /\ Cardinality(S) \in Nat /\ Cardinality(T) \in Nat
    BY <1>0, PartOfInterval
<1>2. f \in Bijection(T, X)
    <2>1. f \in [T -> X]
        BY DEF Shifted
    <2>2. \A a, b \in T : f[a] = f[b] => a = b
        BY <1>0
    <2>3. \A x \in X : \E a \in T : f[a] = x
        BY DEF Shifted
    <2> HIDE DEF f, X
    <2> QED
        BY <2>1, <2>2, <2>3 DEF Bijection, Injection, Surjection, IsInjective
<1>3. IsFiniteSet(X) /\ Cardinality(X) = Cardinality(T)
    <2> HIDE DEF X, f
    <2> QED
        BY <1>1, <1>2, FS_Bijection DEF ExistsBijection
<1>4. S \cap X = {}
    <2> HIDE DEF f
    <2>1. \A x \in X : x \in n + 1..n + m
        BY <1>0 DEF Shifted
    <2> HIDE DEF X
    <2>2. \A x \in S : x \in 1..n
        BY <1>0
    <2>3. \A x \in n + 1..n + m : x \notin 1..n
        BY <1>0
    <2> QED
        BY <2>1, <2>2, <2>3
<1>5. Cardinality({}) = 0
    BY FS_EmptySet
<1> HIDE DEF X
<1>6. Cardinality(S \cup X) = Cardinality(S) + Cardinality(T)
    <2>1. Cardinality(S \cup X) = Cardinality(S) + Cardinality(X) - Cardinality(S \cap X)
        BY <1>1, <1>3, FS_Union
    <2>2. Cardinality(S \cap X) = 0
        BY <1>4, <1>5
    <2> HIDE DEF f
    <2> QED
        BY <1>1, <1>3, <2>1, <2>2
<1> QED
    BY <1>1, <1>6 DEF X, Joined

\* Its listing is that of the first set and then that of the second.
LEMMA ShiftedListing ==
    ASSUME NEW n, NEW S, Part(S, n), NEW m, NEW T, Part(T, m)
    PROVE  LET c == Cardinality(S)
               d == Cardinality(T)
           IN /\ Listing(Joined(n, S, T)) \in [1..c + d -> 1..n + m]
              /\ \A i \in 1..c : Listing(Joined(n, S, T))[i] = Listing(S)[i]
              /\ \A i \in 1..d : Listing(Joined(n, S, T))[c + i] = n + Listing(T)[i]
<1> DEFINE c == Cardinality(S)
           d == Cardinality(T)
           U == Joined(n, S, T)
           s == Listing(S)
           t == Listing(T)
           u == [i \in 1..c + d |-> IF i <= c THEN s[i] ELSE n + t[i - c]]
<1>1. U \in SUBSET (1..n + m) /\ c \in Nat /\ d \in Nat /\ Cardinality(U) = c + d /\ n + m \in Nat
    <2>1. Part(U, n + m) /\ c \in Nat /\ d \in Nat /\ Cardinality(U) = c + d
        <3> HIDE DEF s, t, u
        <3> QED
            BY JoinedPart, ShiftedSize
    <2> HIDE DEF U, c, d
    <2> QED
        BY <2>1 DEF Part
<1>0. n \in Nat /\ S \in SUBSET (1..n) /\ m \in Nat /\ T \in SUBSET (1..m)
    BY DEF Part
<1>2. IsListing(s, S) /\ IsListing(t, T)
    BY <1>0, ListingFacts
<1> HIDE DEF s, t
<1>3. /\ \A i \in 1..c : s[i] \in S /\ s[i] \in 1..n
      /\ \A i \in 1..d : t[i] \in T /\ t[i] \in 1..m
      /\ \A i, j \in 1..c : i < j => s[i] < s[j]
      /\ \A i, j \in 1..d : i < j => t[i] < t[j]
    BY <1>0, <1>2 DEF IsListing, Increasing
<1> HIDE DEF c, d
<1>4. \A i \in 1..c + d : (i <= c /\ i \in 1..c) \/ (~(i <= c) /\ i - c \in 1..d)
    BY <1>1
<1>5. \A i \in 1..c : i \in 1..c + d /\ u[i] = s[i]
    BY <1>1
<1>6. \A i \in 1..d : c + i \in 1..c + d /\ u[c + i] = n + t[i]
    BY <1>1
<1>7. \A i \in 1..c + d : u[i] \in U
    <2> SUFFICES ASSUME NEW i \in 1..c + d PROVE u[i] \in U
        OBVIOUS
    <2>1. CASE i \in 1..c
        <3> HIDE DEF u
        <3> QED
            BY <1>3, <1>5, <2>1 DEF Joined, U
    <2>2. CASE i - c \in 1..d
        <3>1. u[i] = n + t[i - c] /\ t[i - c] \in T
            BY <1>1, <1>3, <2>2
        <3> HIDE DEF u
        <3> QED
            BY <3>1 DEF Shifted, Joined, U
    <2> QED
        BY <1>4, <2>1, <2>2
<1>8. \A i, j \in 1..c + d : i < j => u[i] < u[j]
    <2> SUFFICES ASSUME NEW i \in 1..c + d, NEW j \in 1..c + d, i < j PROVE u[i] < u[j]
        OBVIOUS
    <2>1. CASE j <= c
        <3>1. i \in 1..c /\ j \in 1..c /\ u[i] = s[i] /\ u[j] = s[j]
            BY <1>1, <2>1
        <3> HIDE DEF u
        <3> QED
            BY <1>3, <3>1
    <2>2. CASE i <= c /\ ~(j <= c)
        <3>1. i \in 1..c /\ j - c \in 1..d /\ u[i] = s[i] /\ u[j] = n + t[j - c]
            BY <1>1, <2>2
        <3>2. s[i] \in 1..n /\ t[j - c] \in 1..m
            BY <1>3, <3>1
        <3> HIDE DEF u
        <3> QED
            BY <1>0, <3>1, <3>2
    <2>3. CASE ~(i <= c)
        <3>1. /\ i - c \in 1..d /\ j - c \in 1..d /\ i - c < j - c
              /\ u[i] = n + t[i - c] /\ u[j] = n + t[j - c]
            BY <1>1, <2>3
        <3>2. t[i - c] < t[j - c] /\ t[i - c] \in 1..m /\ t[j - c] \in 1..m
            BY <1>3, <3>1
        <3> HIDE DEF u
        <3> QED
            BY <1>0, <3>1, <3>2
    <2> QED
        BY <2>1, <2>2, <2>3
<1>9. u = Listing(U)
    <2>1. u \in [1..c + d -> U]
        BY <1>7
    <2> HIDE DEF u, U
    <2>2. IsListing(u, U)
        BY <1>1, <1>8, <2>1 DEF IsListing, Increasing
    <2> QED
        BY <1>1, <2>2, ListingFacts
<1>10. u \in [1..c + d -> 1..n + m]
    BY <1>1, <1>7
<1> HIDE DEF u, U
<1> QED
    BY <1>5, <1>6, <1>9, <1>10 DEF c, d, s, t, U

-----------------------------------------------------------------------------
(* Sequences and frames *)

Plain(s) == \E S : s \in Seq(S)

\* A sequence is what its elements are.
LEMMA PlainFacts ==
    ASSUME NEW s, Plain(s)
    PROVE  Len(s) \in Nat /\ s = [i \in 1..Len(s) |-> s[i]]
BY DEF Plain

\* Sequences with the same elements are the same.
LEMMA SameSequence ==
    ASSUME NEW s, Plain(s), NEW t, Plain(t), Len(s) = Len(t), \A i \in 1..Len(s) : s[i] = t[i]
    PROVE  s = t
<1>1. [i \in 1..Len(s) |-> s[i]] = [i \in 1..Len(t) |-> t[i]]
    OBVIOUS
<1> QED
    BY <1>1, PlainFacts

\* The elements of a piece of a sequence.
LEMMA PieceFacts ==
    ASSUME NEW s, Plain(s), NEW m \in Nat, NEW n \in Int, 1 <= m, m <= n + 1, n <= Len(s)
    PROVE  /\ Plain(SubSeq(s, m, n)) /\ Len(SubSeq(s, m, n)) = n - m + 1
           /\ \A i \in 1..n - m + 1 : SubSeq(s, m, n)[i] = s[m + i - 1]
<1>1. PICK S : s \in Seq(S)
    BY DEF Plain
<1>2. m \in 1..Len(s) + 1 /\ n \in m - 1..Len(s) /\ Len(s) \in Nat
    BY <1>1
<1>3. /\ SubSeq(s, m, n) \in Seq(S) /\ Len(SubSeq(s, m, n)) = n - m + 1
      /\ \A i \in 1..n - m + 1 : SubSeq(s, m, n)[i] = s[m + i - 1]
    BY <1>1, <1>2
<1> QED
    BY <1>3 DEF Plain

\* A function over 1..n is a sequence.
LEMMA MadeSequence ==
    ASSUME NEW n \in Nat, NEW s, s = [i \in 1..n |-> s[i]]
    PROVE  Plain(s) /\ Len(s) = n
<1> DEFINE S == {s[i] : i \in 1..n}
<1>1. s \in [1..n -> S]
    OBVIOUS
<1> HIDE DEF S
<1>2. s \in Seq(S) /\ Len(s) = n
    BY <1>1
<1> QED
    BY <1>2 DEF Plain

LastEnd(b) == Max(ends(b) \cup {0})

\* The ends of delimiters in b, as they are listed.
LEMMA EndsFacts ==
    ASSUME NEW b, Plain(b)
    PROVE  LET c == Cardinality(ends(b))
               e == Listing(ends(b))
           IN /\ Part(ends(b), Len(b)) /\ c \in Nat /\ Len(b) \in Nat
              /\ \A k \in 1..c : e[k] \in ends(b) /\ e[k] \in 2..Len(b)
              /\ \A j, k \in 1..c : j < k => e[j] < e[k]
              /\ ends(b) = {e[k] : k \in 1..c}
<1>1. Part(ends(b), Len(b)) /\ Len(b) \in Nat
    <2>1. Len(b) \in Nat
        BY PlainFacts
    <2>2. ends(b) \subseteq 2..Len(b)
        BY DEF ends
    <2>3. 2..Len(b) \subseteq 1..Len(b)
        BY <2>1
    <2> QED
        BY <2>1, <2>2, <2>3 DEF Part
<1>2. /\ IsListing(Listing(ends(b)), ends(b)) /\ Cardinality(ends(b)) \in Nat
      /\ ends(b) = {Listing(ends(b))[k] : k \in 1..Cardinality(ends(b))}
    <2> DEFINE S == ends(b)
    <2>1. S \in SUBSET (1..Len(b)) /\ Len(b) \in Nat
        BY <1>1 DEF Part
    <2> HIDE DEF S
    <2>2. IsListing(Listing(S), S)
        BY <2>1, ListingFacts
    <2>3. S = {Listing(S)[k] : k \in 1..Cardinality(S)}
        BY <2>1, ListingFacts
    <2>4. Cardinality(S) \in Nat
        BY <2>1, PartOfInterval
    <2> QED
        BY <2>2, <2>3, <2>4 DEF S
<1>3. ends(b) \subseteq 2..Len(b)
    BY DEF ends
<1> QED
    BY <1>1, <1>2, <1>3 DEF IsListing, Increasing

\* The last end is the last one listed.
LEMMA LastEndFacts ==
    ASSUME NEW b, Plain(b)
    PROVE  LET c == Cardinality(ends(b))
               e == Listing(ends(b))
               M == LastEnd(b)
           IN /\ M \in 0..Len(b) /\ Part(ends(b), M)
              /\ c = 0 => M = 0 /\ ends(b) = {}
              /\ c # 0 => M = e[c] /\ M \in ends(b) /\ c \in 1..c
<1> DEFINE c == Cardinality(ends(b))
           e == Listing(ends(b))
           M == LastEnd(b)
<1>1. /\ c \in Nat /\ Len(b) \in Nat
      /\ \A k \in 1..c : e[k] \in ends(b) /\ e[k] \in 2..Len(b)
      /\ \A j, k \in 1..c : j < k => e[j] < e[k]
      /\ ends(b) = {e[k] : k \in 1..c}
    BY EndsFacts
<1> HIDE DEF c, e
<1>2. CASE c = 0
    <2>1. ends(b) = {}
        BY <1>1, <1>2
    <2>2. LastEnd(b) = 0
        BY <2>1 DEF LastEnd, Max
    <2> QED
        BY <1>1, <1>2, <2>1, <2>2 DEF Part, c, e
<1>3. CASE c # 0
    <2>1. c \in 1..c
        BY <1>1, <1>3
    <2>2. e[c] \in ends(b) /\ e[c] \in 2..Len(b)
        BY <1>1, <2>1
    <2>3. \A x \in ends(b) : x <= e[c] /\ x \in 1..e[c]
        <3> SUFFICES ASSUME NEW x \in ends(b) PROVE x <= e[c] /\ x \in 1..e[c]
            OBVIOUS
        <3>1. PICK k \in 1..c : x = e[k]
            BY <1>1
        <3>2. k = c \/ k < c
            BY <1>1, <3>1
        <3>3. e[k] \in 2..Len(b) /\ (k = c \/ e[k] < e[c])
            BY <1>1, <2>1, <3>1, <3>2
        <3> QED
            BY <1>1, <2>2, <3>1, <3>3
    <2>4. \A x \in ends(b) \cup {0} : e[c] >= x /\ x \in Nat
        BY <1>1, <2>2, <2>3
    <2>5. \E x \in ends(b) \cup {0} : \A y \in ends(b) \cup {0} : x >= y
        BY <2>2, <2>4
    <2>6. M \in ends(b) \cup {0} /\ \A y \in ends(b) \cup {0} : M >= y
        BY <2>5 DEF LastEnd, Max
    <2>7. M = e[c]
        <3> HIDE DEF M
        <3>1. M >= e[c] /\ e[c] >= M /\ M \in Nat /\ e[c] \in Nat
            BY <1>1, <2>2, <2>4, <2>6
        <3> QED
            BY <3>1
    <2> HIDE DEF M
    <2>8. M \in 0..Len(b) /\ Part(ends(b), M) /\ M \in ends(b)
        <3>1. M \in ends(b) /\ M \in 0..Len(b) /\ M \in Nat
            BY <1>1, <2>2, <2>7
        <3>2. ends(b) \in SUBSET (1..M)
            BY <2>3, <2>7
        <3> QED
            BY <3>1, <3>2 DEF Part
    <2> QED
        BY <1>3, <2>1, <2>7, <2>8 DEF c, e, M
<1> QED
    BY <1>2, <1>3

\* Where frame k of b begins.
From(b, k) == IF k = 1 THEN 1 ELSE Listing(ends(b))[k - 1] + 1

\* A frame is what lies between two ends, which are never next to each other.
LEMMA FrameFacts ==
    ASSUME NEW b, Plain(b), NEW k \in 1..Cardinality(ends(b))
    PROVE  LET e == Listing(ends(b))
               f == frames(b)[k]
           IN /\ From(b, k) \in Nat /\ 1 <= From(b, k) /\ From(b, k) < e[k]
              /\ e[k] \in 2..Len(b)
              /\ f = SubSeq(b, From(b, k), e[k] - 2) /\ Plain(f)
              /\ Len(f) = e[k] - 1 - From(b, k)
              /\ \A i \in 1..Len(f) : f[i] = b[From(b, k) + i - 1]
<1> DEFINE c == Cardinality(ends(b))
           e == Listing(ends(b))
           f == frames(b)[k]
<1>1. /\ c \in Nat /\ Len(b) \in Nat
      /\ \A j \in 1..c : e[j] \in ends(b) /\ e[j] \in 2..Len(b)
      /\ \A i, j \in 1..c : i < j => e[i] < e[j]
    BY EndsFacts
<1>2. f = SubSeq(b, From(b, k), e[k] - 2)
    BY DEF frames, From
<1> HIDE DEF c, e, f
<1>3. k \in 1..c /\ k \in Nat
    BY <1>1 DEF c
<1>4. e[k] \in ends(b) /\ e[k] \in 2..Len(b)
    BY <1>1, <1>3
<1>5. From(b, k) \in Nat /\ 1 <= From(b, k) /\ From(b, k) < e[k]
    <2>1. CASE k = 1
        BY <1>4, <2>1 DEF From
    <2>2. CASE k # 1
        <3>1. k - 1 \in 1..c /\ k - 1 < k
            BY <1>1, <1>3, <2>2
        <3>2. e[k - 1] \in ends(b) /\ e[k - 1] \in 2..Len(b) /\ e[k - 1] < e[k]
            BY <1>1, <1>3, <3>1
        <3>3. b[e[k - 1]].part = "hash" /\ b[e[k] - 1].part = "hashTab"
            BY <1>4, <3>2 DEF ends
        <3>4. e[k - 1] # e[k] - 1
            BY <3>3
        <3>5. From(b, k) = e[k - 1] + 1
            BY <2>2 DEF From, e
        <3> QED
            BY <1>4, <3>2, <3>4, <3>5
    <2> QED
        BY <2>1, <2>2
<1>6. /\ Plain(f) /\ Len(f) = e[k] - 2 - From(b, k) + 1
      /\ \A i \in 1..e[k] - 2 - From(b, k) + 1 : f[i] = b[From(b, k) + i - 1]
    <2> DEFINE m == From(b, k)
               n == e[k] - 2
    <2>1. m \in Nat /\ n \in Int /\ 1 <= m /\ m <= n + 1 /\ n <= Len(b)
        BY <1>1, <1>4, <1>5
    <2>2. f = SubSeq(b, m, n)
        BY <1>2
    <2> HIDE DEF m, n
    <2>3. /\ Plain(f) /\ Len(f) = n - m + 1
          /\ \A i \in 1..n - m + 1 : f[i] = b[m + i - 1]
        BY <2>1, <2>2, PieceFacts
    <2> QED
        BY <2>3 DEF m, n
<1>7. Len(f) = e[k] - 1 - From(b, k) /\ e[k] - 2 - From(b, k) + 1 = e[k] - 1 - From(b, k)
    BY <1>1, <1>4, <1>5, <1>6
<1>8. \A i \in 1..Len(f) : f[i] = b[From(b, k) + i - 1]
    BY <1>6, <1>7
<1> QED
    BY <1>2, <1>4, <1>5, <1>6, <1>7, <1>8 DEF e, f

\* x is what z begins with, and y what follows the last end of x in z.
Splits(z, x, y) ==
    /\ Plain(z) /\ Plain(x) /\ Plain(y)
    /\ Len(x) <= Len(z) /\ \A i \in 1..Len(x) : z[i] = x[i]
    /\ Len(y) = Len(z) - LastEnd(x) /\ \A j \in 1..Len(y) : y[j] = z[LastEnd(x) + j]

\* What chunks bring ends where the whole does: no delimiter begins within another.
LEMMA EndsJoin ==
    ASSUME NEW z, NEW x, NEW y, Splits(z, x, y)
    PROVE  ends(z) = Joined(LastEnd(x), ends(x), ends(y))
<1> DEFINE M == LastEnd(x)
<1>1. /\ Len(x) \in Nat /\ Len(y) \in Nat /\ Len(z) \in Nat /\ Len(x) <= Len(z)
      /\ M \in 0..Len(x) /\ Len(y) = Len(z) - M
    BY LastEndFacts, PlainFacts DEF Splits
<1>10. \A i \in ends(x) : i <= M /\ i \in Nat
    BY <1>1, LastEndFacts DEF Splits, Part
<1>11. M # 0 => M \in ends(x)
    BY LastEndFacts DEF Splits
<1>2. \A i \in 1..Len(x) : z[i] = x[i]
    BY DEF Splits
<1>3. \A j \in 1..Len(y) : y[j] = z[M + j]
    BY DEF Splits
<1> HIDE DEF M
<1>4. ASSUME NEW i \in ends(z) PROVE i \in Joined(M, ends(x), ends(y))
    <2>1. i \in 2..Len(z) /\ z[i - 1].part = "hashTab" /\ z[i].part = "hash"
        BY DEF ends
    <2>2. CASE i <= M
        <3>1. i \in 2..Len(x) /\ i \in 1..Len(x) /\ i - 1 \in 1..Len(x)
            <4>1. i \in 2..Len(z)
                BY <2>1
            <4> QED
                BY <1>1, <2>2, <4>1
        <3>2. i \in ends(x)
            BY <1>2, <2>1, <3>1 DEF ends
        <3> QED
            BY <3>2 DEF Joined
    <2>3. CASE ~(i <= M)
        <3>1. i - 1 # M
            <4> SUFFICES ASSUME i - 1 = M PROVE FALSE
                OBVIOUS
            <4>0. i \in 2..Len(z)
                BY <2>1
            <4>1. M \in 1..Len(x) /\ M # 0
                BY <1>1, <4>0
            <4>2. x[M].part = "hash"
                <5>1. M \in ends(x)
                    BY <1>11, <4>1
                <5> QED
                    BY <5>1 DEF ends
            <4> QED
                BY <1>2, <2>1, <4>1, <4>2
        <3> DEFINE j == i - M
        <3>2. /\ j \in 2..Len(y) /\ j \in 1..Len(y) /\ j - 1 \in 1..Len(y)
              /\ i = M + j /\ i - 1 = M + (j - 1)
            <4>1. i \in 2..Len(z)
                BY <2>1
            <4> QED
                BY <1>1, <2>3, <3>1, <4>1
        <3> HIDE DEF j
        <3>3. j \in ends(y)
            BY <1>3, <2>1, <3>2 DEF ends
        <3> QED
            BY <3>2, <3>3 DEF Joined, Shifted
    <2> QED
        BY <2>2, <2>3
<1>5. ASSUME NEW i \in Joined(M, ends(x), ends(y)) PROVE i \in ends(z)
    <2>1. CASE i \in ends(x)
        <3>1. i \in 2..Len(x) /\ x[i - 1].part = "hashTab" /\ x[i].part = "hash"
            BY <2>1 DEF ends
        <3>2. i \in 2..Len(z) /\ i \in 1..Len(x) /\ i - 1 \in 1..Len(x)
            <4>1. i \in 2..Len(x)
                BY <3>1
            <4> QED
                BY <1>1, <4>1
        <3> QED
            BY <1>2, <3>1, <3>2 DEF ends
    <2>2. ASSUME NEW j \in ends(y), i = M + j PROVE i \in ends(z)
        <3>1. j \in 2..Len(y) /\ y[j - 1].part = "hashTab" /\ y[j].part = "hash"
            BY DEF ends
        <3>2. /\ i \in 2..Len(z) /\ j \in 1..Len(y) /\ j - 1 \in 1..Len(y)
              /\ i - 1 = M + (j - 1)
            <4>1. j \in 2..Len(y)
                BY <3>1
            <4> QED
                BY <1>1, <2>2, <4>1
        <3> QED
            BY <1>3, <2>2, <3>1, <3>2 DEF ends
    <2> QED
        BY <1>5, <2>1, <2>2 DEF Joined, Shifted
<1> QED
    BY <1>4, <1>5 DEF M

\* s is x and then y.
Follows(s, x, y) ==
    /\ Plain(s) /\ Plain(x) /\ Plain(y) /\ Len(s) = Len(x) + Len(y)
    /\ \A k \in 1..Len(x) : s[k] = x[k]
    /\ \A k \in 1..Len(y) : s[Len(x) + k] = y[k]

\* There are as many frames as ends.
LEMMA FramesPlain ==
    ASSUME NEW b, Plain(b)
    PROVE  Plain(frames(b)) /\ Len(frames(b)) = Cardinality(ends(b))
<1> DEFINE c == Cardinality(ends(b))
<1>1. c \in Nat
    BY EndsFacts
<1>2. frames(b) = [k \in 1..c |-> frames(b)[k]]
    BY DEF frames
<1> HIDE DEF c
<1>3. Plain(frames(b)) /\ Len(frames(b)) = c
    BY <1>1, <1>2, MadeSequence
<1> QED
    BY <1>3 DEF c

\* The frames of the whole are those of its beginning and then those of what follows.
LEMMA FramesJoin ==
    ASSUME NEW z, NEW x, NEW y, Splits(z, x, y)
    PROVE  Follows(frames(z), frames(x), frames(y))
<1> DEFINE M == LastEnd(x)
           c == Cardinality(ends(x))
           d == Cardinality(ends(y))
           ex == Listing(ends(x))
           ey == Listing(ends(y))
           ez == Listing(ends(z))
<1>1. Plain(x) /\ Plain(y) /\ Plain(z)
    BY DEF Splits
<1>2. /\ M \in 0..Len(x) /\ Part(ends(x), M) /\ (c = 0 => M = 0) /\ (c # 0 => M = ex[c])
      /\ c # 0 => c \in 1..c
    BY <1>1, LastEndFacts
<1>3. ends(z) = Joined(M, ends(x), ends(y)) /\ Part(ends(y), Len(y))
    BY <1>1, EndsJoin, EndsFacts
<1>4. c \in Nat /\ d \in Nat /\ Cardinality(ends(z)) = c + d
    <2>1. Part(ends(x), M) /\ Part(ends(y), Len(y)) /\ ends(z) = Joined(M, ends(x), ends(y))
        BY <1>2, <1>3
    <2>2. Cardinality(ends(x)) \in Nat /\ Cardinality(ends(y)) \in Nat
        <3> HIDE DEF M, ex, ey, ez
        <3> QED
            BY <2>1, ShiftedSize
    <2>3. Cardinality(Joined(M, ends(x), ends(y))) = Cardinality(ends(x)) + Cardinality(ends(y))
        <3> HIDE DEF M, ex, ey, ez, c, d
        <3> QED
            BY <2>1, ShiftedSize
    <2> HIDE DEF M, ex, ey, ez
    <2> QED
        BY <2>1, <2>2, <2>3
<1>5. (\A k \in 1..c : ez[k] = ex[k]) /\ (\A k \in 1..d : ez[c + k] = M + ey[k])
    <2> HIDE DEF M
    <2> QED
        BY <1>2, <1>3, ShiftedListing
<1>6. /\ Len(x) \in Nat /\ Len(y) \in Nat /\ Len(z) \in Nat /\ Len(x) <= Len(z)
      /\ Len(y) = Len(z) - M
    BY <1>1, PlainFacts DEF Splits
<1>7. /\ \A i \in 1..Len(x) : z[i] = x[i]
      /\ \A j \in 1..Len(y) : y[j] = z[M + j]
    BY DEF Splits
<1>8. ASSUME NEW k \in 1..c PROVE frames(z)[k] = frames(x)[k]
    <2>1. k \in 1..c + d /\ k \in Nat
        BY <1>4
    <2>2. ez[k] = ex[k]
        BY <1>5
    <2>3. From(z, k) = From(x, k)
        <3>1. k # 1 => k - 1 \in 1..c
            BY <1>4, <2>1
        <3> QED
            BY <1>5, <3>1 DEF From
    <2> DEFINE f == frames(x)[k]
               g == frames(z)[k]
    <2>4. /\ Plain(f) /\ From(x, k) \in Nat /\ 1 <= From(x, k) /\ ex[k] \in 2..Len(x)
          /\ Len(f) = ex[k] - 1 - From(x, k) /\ From(x, k) < ex[k]
          /\ \A i \in 1..Len(f) : f[i] = x[From(x, k) + i - 1]
        BY <1>1, FrameFacts
    <2>5. /\ Plain(g) /\ Len(g) = ez[k] - 1 - From(z, k)
          /\ \A i \in 1..Len(g) : g[i] = z[From(z, k) + i - 1]
        <3>1. k \in 1..Cardinality(ends(z))
            BY <1>4, <2>1
        <3> HIDE DEF M, c, d, ex, ey
        <3> QED
            BY <1>1, <3>1, FrameFacts
    <2> HIDE DEF f, g, ex, ez
    <2>6. Len(f) = Len(g)
        BY <2>2, <2>3, <2>4, <2>5
    <2>7. \A i \in 1..Len(f) : f[i] = g[i]
        <3> SUFFICES ASSUME NEW i \in 1..Len(f) PROVE f[i] = g[i]
            OBVIOUS
        <3>1. From(x, k) + i - 1 \in 1..Len(x)
            <4> DEFINE p == From(x, k)
                       e == ex[k]
                       n == Len(x)
            <4>1. p \in Nat /\ 1 <= p /\ e \in 2..n /\ n \in Nat
                BY <1>6, <2>4
            <4>2. i \in 1..e - 1 - p
                BY <2>4
            <4> HIDE DEF p, e, n
            <4>3. p + i - 1 \in 1..n
                BY <4>1, <4>2
            <4> QED
                BY <4>3 DEF p, n
        <3>2. f[i] = x[From(x, k) + i - 1]
            BY <2>4
        <3>3. g[i] = z[From(x, k) + i - 1]
            BY <2>3, <2>5, <2>6
        <3> HIDE DEF M, c, d
        <3> QED
            BY <1>7, <3>1, <3>2, <3>3
    <2> QED
        BY <2>4, <2>5, <2>6, <2>7, SameSequence DEF f, g
<1>9. ASSUME NEW k \in 1..d PROVE frames(z)[c + k] = frames(y)[k]
    <2>1. c + k \in 1..c + d /\ k \in Nat
        BY <1>4
    <2>2. ez[c + k] = M + ey[k]
        BY <1>5
    <2> DEFINE f == frames(y)[k]
               g == frames(z)[c + k]
    <2>4. /\ Plain(f) /\ From(y, k) \in Nat /\ 1 <= From(y, k) /\ ey[k] \in 2..Len(y)
          /\ Len(f) = ey[k] - 1 - From(y, k) /\ From(y, k) < ey[k]
          /\ \A i \in 1..Len(f) : f[i] = y[From(y, k) + i - 1]
        BY <1>1, FrameFacts
    <2>5. /\ Plain(g) /\ Len(g) = ez[c + k] - 1 - From(z, c + k)
          /\ \A i \in 1..Len(g) : g[i] = z[From(z, c + k) + i - 1]
        <3> DEFINE n == c + k
        <3>1. n \in 1..Cardinality(ends(z))
            BY <1>4, <2>1
        <3> HIDE DEF n, M, c, d, ex, ey
        <3>2. /\ Plain(frames(z)[n]) /\ Len(frames(z)[n]) = ez[n] - 1 - From(z, n)
              /\ \A i \in 1..Len(frames(z)[n]) : frames(z)[n][i] = z[From(z, n) + i - 1]
            BY <1>1, <3>1, FrameFacts
        <3> QED
            BY <3>2 DEF n
    <2>3. From(z, c + k) = M + From(y, k)
        <3>1. CASE k # 1
            <4>1. k - 1 \in 1..d /\ c + k # 1 /\ (c + k) - 1 = c + (k - 1)
                BY <1>4, <2>1, <3>1
            <4>2. ez[c + (k - 1)] = M + ey[k - 1]
                BY <1>5, <4>1
            <4>3. ey[k - 1] \in 2..Len(y)
                BY <1>1, <4>1, EndsFacts
            <4> HIDE DEF M, ey
            <4>4. From(z, c + k) = M + ey[k - 1] + 1
                <5>1. From(z, c + k) = ez[(c + k) - 1] + 1
                    <6>1. ASSUME NEW n, n # 1 PROVE From(z, n) = ez[n - 1] + 1
                        BY <6>1 DEF From
                    <6> HIDE DEF c, d, ez, ex, f, g
                    <6> QED
                        BY <4>1, <6>1
                <5>2. ez[(c + k) - 1] = M + ey[k - 1]
                    <6> HIDE DEF ez, c, d
                    <6> QED
                        BY <4>1, <4>2
                <5> QED
                    BY <5>1, <5>2
            <4>5. From(y, k) = ey[k - 1] + 1
                BY <3>1 DEF From, ey
            <4> QED
                BY <1>2, <4>3, <4>4, <4>5
        <3>2. CASE k = 1 /\ c = 0
            BY <1>2, <3>2 DEF From
        <3>3. CASE k = 1 /\ c # 0
            <4>1. c + k # 1 /\ c + k - 1 = c /\ c \in 1..c
                BY <1>2, <1>4, <3>3
            <4>2. ez[c] = M
                BY <1>2, <1>5, <3>3, <4>1
            <4>3. From(z, c + k) = M + 1
                BY <4>1, <4>2 DEF From
            <4>4. From(y, k) = 1
                BY <3>3 DEF From
            <4> QED
                BY <4>3, <4>4
        <3> QED
            BY <3>1, <3>2, <3>3
    <2> HIDE DEF f, g, ey, ez, M
    <2>6. Len(f) = Len(g)
        <3>1. Len(g) = (M + ey[k]) - 1 - (M + From(y, k))
            <4>1. Len(g) = ez[c + k] - 1 - From(z, c + k)
                BY <2>5
            <4> HIDE DEF c, d, ex
            <4> QED
                BY <2>2, <2>3, <4>1, Zenon
        <3> HIDE DEF c, d, ex
        <3> QED
            BY <1>2, <2>4, <3>1
    <2>7. \A i \in 1..Len(f) : f[i] = g[i]
        <3> SUFFICES ASSUME NEW i \in 1..Len(f) PROVE f[i] = g[i]
            OBVIOUS
        <3>1. From(y, k) + i - 1 \in 1..Len(y)
            <4> DEFINE p == From(y, k)
                       e == ey[k]
                       n == Len(y)
            <4>1. p \in Nat /\ 1 <= p /\ e \in 2..n /\ n \in Nat
                BY <1>6, <2>4
            <4>2. i \in 1..e - 1 - p
                BY <2>4
            <4> HIDE DEF p, e, n
            <4>3. p + i - 1 \in 1..n
                BY <4>1, <4>2
            <4> QED
                BY <4>3 DEF p, n
        <3>2. y[From(y, k) + i - 1] = z[M + (From(y, k) + i - 1)]
            BY <1>7, <3>1
        <3>3. M + (From(y, k) + i - 1) = From(z, c + k) + i - 1
            BY <1>2, <2>3, <2>4
        <3>4. f[i] = y[From(y, k) + i - 1]
            BY <2>4
        <3>5. g[i] = z[From(z, c + k) + i - 1]
            BY <2>5, <2>6
        <3> HIDE DEF c, d, ex
        <3> QED
            BY <3>2, <3>3, <3>4, <3>5
    <2> QED
        BY <2>4, <2>5, <2>6, <2>7, SameSequence DEF f, g
<1>10. /\ Plain(frames(x)) /\ Plain(frames(y)) /\ Plain(frames(z))
       /\ Len(frames(x)) = c /\ Len(frames(y)) = d /\ Len(frames(z)) = c + d
    <2> HIDE DEF M, ex, ey, ez
    <2> QED
        BY <1>1, <1>4, FramesPlain
<1> HIDE DEF M, ex, ey, ez, c, d
<1> QED
    BY <1>8, <1>9, <1>10 DEF Follows

\* What is left over is left over of what follows.
LEMMA RestFacts ==
    ASSUME NEW b, Plain(b)
    PROVE  /\ Plain(rest(b)) /\ Len(rest(b)) = Len(b) - LastEnd(b)
           /\ \A i \in 1..Len(rest(b)) : rest(b)[i] = b[LastEnd(b) + i]
<1> DEFINE M == LastEnd(b)
           m == M + 1
<1>1. M \in 0..Len(b) /\ Len(b) \in Nat
    BY LastEndFacts, PlainFacts
<1>2. rest(b) = SubSeq(b, m, Len(b))
    BY DEF rest, LastEnd
<1> HIDE DEF M
<1>3. m \in Nat /\ Len(b) \in Int /\ 1 <= m /\ m <= Len(b) + 1 /\ Len(b) <= Len(b)
    BY <1>1
<1> HIDE DEF m
<1>4. /\ Plain(rest(b)) /\ Len(rest(b)) = Len(b) - m + 1
      /\ \A i \in 1..Len(b) - m + 1 : rest(b)[i] = b[m + i - 1]
    <2> DEFINE n == Len(b)
    <2>1. n \in Int /\ m <= n + 1 /\ n <= Len(b)
        BY <1>3
    <2>2. rest(b) = SubSeq(b, m, n)
        BY <1>2
    <2> HIDE DEF n
    <2>3. /\ Plain(rest(b)) /\ Len(rest(b)) = n - m + 1
          /\ \A i \in 1..n - m + 1 : rest(b)[i] = b[m + i - 1]
        BY <1>3, <2>1, <2>2, PieceFacts
    <2> QED
        BY <2>3 DEF n
<1>5. Len(rest(b)) = Len(b) - M
    BY <1>1, <1>4 DEF m
<1>6. ASSUME NEW i \in 1..Len(rest(b)) PROVE rest(b)[i] = b[M + i]
    <2>1. i \in 1..Len(b) - m + 1 /\ m + i - 1 = M + i
        BY <1>1, <1>5, <1>6 DEF m
    <2> QED
        BY <1>4, <2>1
<1> QED
    BY <1>4, <1>5, <1>6 DEF M

\* What is left over of the whole is what is left over of what follows.
LEMMA RestJoin ==
    ASSUME NEW z, NEW x, NEW y, Splits(z, x, y)
    PROVE  rest(z) = rest(y)
<1> DEFINE M == LastEnd(x)
           N == LastEnd(y)
           c == Cardinality(ends(x))
           d == Cardinality(ends(y))
           ex == Listing(ends(x))
           ey == Listing(ends(y))
           ez == Listing(ends(z))
<1>1. Plain(x) /\ Plain(y) /\ Plain(z)
    BY DEF Splits
<1>2. /\ M \in 0..Len(x) /\ Part(ends(x), M) /\ (c = 0 => M = 0) /\ (c # 0 => M = ex[c])
      /\ c # 0 => c \in 1..c
    BY <1>1, LastEndFacts
<1>3. /\ N \in 0..Len(y) /\ Part(ends(y), Len(y)) /\ (d = 0 => N = 0) /\ (d # 0 => N = ey[d])
      /\ d # 0 => d \in 1..d
    BY <1>1, LastEndFacts, EndsFacts
<1>4. ends(z) = Joined(M, ends(x), ends(y))
    BY EndsJoin
<1>5. c \in Nat /\ d \in Nat
    BY <1>1, EndsFacts
<1>6. Cardinality(ends(z)) = c + d
    <2>1. Cardinality(Joined(M, ends(x), ends(y))) = Cardinality(ends(x)) + Cardinality(ends(y))
        <3>1. Part(ends(x), M) /\ Part(ends(y), Len(y))
            BY <1>2, <1>3
        <3> HIDE DEF M, N, ex, ey, ez, c, d
        <3> QED
            BY <3>1, ShiftedSize
    <2> HIDE DEF M, N, ex, ey, ez
    <2> QED
        BY <1>4, <2>1
<1>7. (\A k \in 1..c : ez[k] = ex[k]) /\ (\A k \in 1..d : ez[c + k] = M + ey[k])
    <2>1. Part(ends(x), M) /\ Part(ends(y), Len(y))
        BY <1>2, <1>3
    <2>2. /\ \A k \in 1..c : Listing(Joined(M, ends(x), ends(y)))[k] = ex[k]
          /\ \A k \in 1..d : Listing(Joined(M, ends(x), ends(y)))[c + k] = M + ey[k]
        <3> HIDE DEF M
        <3> QED
            BY <2>1, ShiftedListing
    <2>3. ez = Listing(Joined(M, ends(x), ends(y)))
        BY <1>4
    <2> HIDE DEF M, N, c, d, ex, ey, ez
    <2> QED
        BY <2>2, <2>3
<1>8. Cardinality(ends(z)) = 0 => LastEnd(z) = 0
    BY <1>1, LastEndFacts
<1>9. Cardinality(ends(z)) # 0 => LastEnd(z) = ez[Cardinality(ends(z))]
    BY <1>1, LastEndFacts
<1> HIDE DEF M, N, c, d, ex, ey, ez
<1>10. LastEnd(z) = M + N
    <2>1. CASE d # 0
        <3>1. c + d # 0 /\ d \in 1..d
            BY <1>3, <1>5, <2>1
        <3>2. ez[c + d] = M + ey[d]
            BY <1>7, <3>1
        <3> QED
            BY <1>3, <1>6, <1>9, <2>1, <3>1, <3>2
    <2>2. CASE d = 0 /\ c # 0
        <3>1. c + d = c /\ c \in 1..c /\ N = 0 /\ M \in Nat
            BY <1>2, <1>3, <1>5, <2>2
        <3>2. ez[c] = ex[c]
            BY <1>7, <3>1
        <3>3. LastEnd(z) = M
            BY <1>2, <1>6, <1>9, <2>2, <3>1, <3>2
        <3> QED
            BY <3>1, <3>3
    <2>3. CASE d = 0 /\ c = 0
        BY <1>2, <1>3, <1>6, <1>8, <2>3
    <2> QED
        BY <2>1, <2>2, <2>3
<1>11. /\ Plain(rest(z)) /\ Len(rest(z)) = Len(z) - LastEnd(z)
       /\ \A i \in 1..Len(rest(z)) : rest(z)[i] = z[LastEnd(z) + i]
       /\ Plain(rest(y)) /\ Len(rest(y)) = Len(y) - N
       /\ \A i \in 1..Len(rest(y)) : rest(y)[i] = y[N + i]
    BY <1>1, RestFacts DEF N
<1>12. /\ Len(x) \in Nat /\ Len(y) \in Nat /\ Len(z) \in Nat /\ Len(y) = Len(z) - M
       /\ M \in Nat /\ N \in Nat /\ N <= Len(y)
    BY <1>1, <1>2, <1>3, PlainFacts DEF Splits, M
<1>13. \A j \in 1..Len(y) : y[j] = z[M + j]
    BY DEF Splits, M
<1>14. Len(rest(z)) = Len(rest(y))
    BY <1>10, <1>11, <1>12
<1>15. ASSUME NEW i \in 1..Len(rest(z)) PROVE rest(z)[i] = rest(y)[i]
    <2>1. N + i \in 1..Len(y) /\ M + (N + i) = LastEnd(z) + i /\ i \in 1..Len(rest(y))
        BY <1>10, <1>11, <1>12, <1>14, <1>15
    <2> QED
        BY <1>11, <1>13, <2>1
<1> QED
    BY <1>11, <1>14, <1>15, SameSequence

-----------------------------------------------------------------------------
(* Events and errors *)

\* Concatenation puts one sequence behind the other.
LEMMA ConcatFollows ==
    ASSUME NEW x, Plain(x), NEW y, Plain(y)
    PROVE  Follows(x \o y, x, y)
<1>1. PICK S : x \in Seq(S)
    BY DEF Plain
<1>2. PICK T : y \in Seq(T)
    BY DEF Plain
<1>3. x \in Seq(S \cup T) /\ y \in Seq(S \cup T)
    BY <1>1, <1>2
<1>4. /\ x \o y \in Seq(S \cup T) /\ Len(x \o y) = Len(x) + Len(y)
      /\ \A i \in 1..Len(x) + Len(y) :
            (x \o y)[i] = IF i <= Len(x) THEN x[i] ELSE y[i - Len(x)]
    BY <1>3
<1>5. Len(x) \in Nat /\ Len(y) \in Nat
    BY <1>3
<1>6. ASSUME NEW i \in 1..Len(x) PROVE (x \o y)[i] = x[i]
    <2>1. i \in 1..Len(x) + Len(y) /\ i <= Len(x)
        BY <1>5
    <2> QED
        BY <1>4, <2>1
<1>7. ASSUME NEW i \in 1..Len(y) PROVE (x \o y)[Len(x) + i] = y[i]
    <2> DEFINE k == Len(x) + i
    <2>1. k \in 1..Len(x) + Len(y) /\ ~ (k <= Len(x)) /\ k - Len(x) = i
        BY <1>5
    <2> HIDE DEF k
    <2>2. (x \o y)[k] = y[i]
        BY <1>4, <2>1
    <2> QED
        BY <2>2 DEF k
<1>8. Plain(x \o y)
    BY <1>4 DEF Plain
<1> QED
    BY <1>4, <1>6, <1>7, <1>8 DEF Follows

\* Sequences that follow each other make one.
LEMMA FollowsIsJoined ==
    ASSUME NEW s, NEW x, NEW y, Follows(s, x, y)
    PROVE  s = x \o y
<1> DEFINE t == x \o y
<1>1. Follows(t, x, y)
    BY ConcatFollows DEF Follows
<1> HIDE DEF t
<1>2. /\ Plain(s) /\ Plain(t) /\ Len(s) = Len(x) + Len(y) /\ Len(t) = Len(x) + Len(y)
      /\ Len(x) \in Nat /\ Len(y) \in Nat
    BY <1>1, PlainFacts DEF Follows
<1>3. ASSUME NEW i \in 1..Len(x) + Len(y) PROVE s[i] = t[i]
    <2>1. CASE i \in 1..Len(x)
        BY <1>1, <2>1 DEF Follows
    <2>2. CASE i - Len(x) \in 1..Len(y)
        <3> DEFINE k == i - Len(x)
        <3>1. Len(x) + k = i
            BY <1>2
        <3>2. k \in 1..Len(y)
            BY <2>2
        <3> HIDE DEF k
        <3>3. s[Len(x) + k] = y[k] /\ t[Len(x) + k] = y[k]
            BY <1>1, <3>2 DEF Follows
        <3> QED
            BY <3>1, <3>3
    <2> QED
        BY <1>2, <2>1, <2>2
<1>4. s = t
    BY <1>2, <1>3, SameSequence
<1> QED
    BY <1>4 DEF t

EventPlaces(fs) == {k \in 1..Len(fs) : isEvent(fs[k])}
ErrorPlaces(fs) == {k \in 1..Len(fs) : isError(fs[k])}

\* The events of frames are the numbers of those that are events, in order.
LEMMA EventsFacts ==
    ASSUME NEW fs, Plain(fs)
    PROVE  LET c == Cardinality(EventPlaces(fs))
               e == Listing(EventPlaces(fs))
           IN /\ Part(EventPlaces(fs), Len(fs)) /\ c \in Nat /\ Len(fs) \in Nat
              /\ e = eventFrames(fs)
              /\ \A i \in 1..c : e[i] \in EventPlaces(fs) /\ e[i] \in 1..Len(fs)
              /\ \A i, j \in 1..c : i < j => e[i] < e[j]
              /\ EventPlaces(fs) = {e[i] : i \in 1..c}
              /\ Plain(eventsOf(fs)) /\ Len(eventsOf(fs)) = c
              /\ \A i \in 1..c : eventsOf(fs)[i] = fs[e[i]][1].number
<1> DEFINE P == EventPlaces(fs)
           c == Cardinality(P)
           e == Listing(P)
<1>1. Len(fs) \in Nat /\ P \in SUBSET (1..Len(fs))
    BY PlainFacts DEF EventPlaces
<1>2. c \in Nat /\ IsListing(e, P) /\ P = {e[i] : i \in 1..c}
    <2> HIDE DEF P
    <2>1. IsListing(Listing(P), P)
        BY <1>1, ListingFacts
    <2>2. P = {Listing(P)[i] : i \in 1..Cardinality(P)}
        BY <1>1, ListingFacts
    <2>3. Cardinality(P) \in Nat
        BY <1>1, PartOfInterval
    <2> QED
        BY <2>1, <2>2, <2>3
<1>3. e = eventFrames(fs)
    BY DEF eventFrames, EventPlaces
<1>4. /\ e \in [1..c -> P]
      /\ \A i, j \in 1..c : i < j => e[i] < e[j]
    BY <1>2 DEF IsListing, Increasing
<1> HIDE DEF P, c, e
<1>5. DOMAIN e = 1..c /\ \A i \in 1..c : e[i] \in P /\ e[i] \in 1..Len(fs)
    BY <1>1, <1>4
<1>6. eventsOf(fs) = [i \in 1..c |-> fs[e[i]][1].number]
    BY <1>3, <1>5 DEF eventsOf
<1>7. eventsOf(fs) = [i \in 1..c |-> eventsOf(fs)[i]]
    BY <1>6
<1>8. Plain(eventsOf(fs)) /\ Len(eventsOf(fs)) = c
    BY <1>2, <1>7, MadeSequence
<1> QED
    BY <1>1, <1>2, <1>3, <1>4, <1>5, <1>6, <1>8 DEF Part, P, c, e

\* The events of frames are those of the first and then those of the others, and so is the
\* number of errors.
LEMMA EventsJoin ==
    ASSUME NEW hs, NEW fs, NEW gs, Follows(hs, fs, gs)
    PROVE  Follows(eventsOf(hs), eventsOf(fs), eventsOf(gs))
<1> DEFINE n == Len(fs)
           c == Cardinality(EventPlaces(fs))
           d == Cardinality(EventPlaces(gs))
           f == Listing(EventPlaces(fs))
           g == Listing(EventPlaces(gs))
           h == Listing(EventPlaces(hs))
<1>1. Plain(hs) /\ Plain(fs) /\ Plain(gs)
    BY DEF Follows
<1>2. Len(fs) \in Nat /\ Len(gs) \in Nat /\ Len(hs) = Len(fs) + Len(gs)
    BY <1>1, PlainFacts DEF Follows
<1>3. /\ \A k \in 1..Len(fs) : k \in 1..Len(hs) /\ hs[k] = fs[k]
      /\ \A k \in 1..Len(gs) : Len(fs) + k \in 1..Len(hs) /\ hs[Len(fs) + k] = gs[k]
    BY <1>2 DEF Follows
<1>4. EventPlaces(hs) = Joined(Len(fs), EventPlaces(fs), EventPlaces(gs))
    <2>1. ASSUME NEW k \in EventPlaces(hs)
          PROVE  k \in Joined(Len(fs), EventPlaces(fs), EventPlaces(gs))
        <3>1. k \in 1..Len(hs) /\ isEvent(hs[k])
            BY DEF EventPlaces
        <3>2. CASE k \in 1..Len(fs)
            BY <1>3, <3>1, <3>2 DEF EventPlaces, Joined
        <3>3. CASE k - Len(fs) \in 1..Len(gs)
            <4>1. Len(fs) + (k - Len(fs)) = k
                BY <1>2, <3>1
            <4>2. k - Len(fs) \in EventPlaces(gs)
                BY <1>3, <3>1, <3>3, <4>1 DEF EventPlaces
            <4> QED
                BY <4>1, <4>2 DEF Joined, Shifted
        <3> QED
            BY <1>2, <3>1, <3>2, <3>3
    <2>2. ASSUME NEW k \in EventPlaces(fs) PROVE k \in EventPlaces(hs)
        BY <1>3 DEF EventPlaces
    <2>3. ASSUME NEW k \in EventPlaces(gs) PROVE Len(fs) + k \in EventPlaces(hs)
        BY <1>3 DEF EventPlaces
    <2> QED
        BY <2>1, <2>2, <2>3 DEF Joined, Shifted
<1>5. /\ Part(EventPlaces(fs), Len(fs)) /\ c \in Nat
      /\ \A i \in 1..c : f[i] \in 1..Len(fs)
      /\ Plain(eventsOf(fs)) /\ Len(eventsOf(fs)) = c
      /\ \A i \in 1..c : eventsOf(fs)[i] = fs[f[i]][1].number
    BY <1>1, EventsFacts
<1>6. /\ Part(EventPlaces(gs), Len(gs)) /\ d \in Nat
      /\ \A i \in 1..d : g[i] \in 1..Len(gs)
      /\ Plain(eventsOf(gs)) /\ Len(eventsOf(gs)) = d
      /\ \A i \in 1..d : eventsOf(gs)[i] = gs[g[i]][1].number
    BY <1>1, EventsFacts
<1>7. /\ Plain(eventsOf(hs)) /\ Len(eventsOf(hs)) = Cardinality(EventPlaces(hs))
      /\ \A i \in 1..Cardinality(EventPlaces(hs)) : eventsOf(hs)[i] = hs[h[i]][1].number
    BY <1>1, EventsFacts
<1>8. Cardinality(EventPlaces(hs)) = c + d
    <2>1. Cardinality(Joined(Len(fs), EventPlaces(fs), EventPlaces(gs)))
            = Cardinality(EventPlaces(fs)) + Cardinality(EventPlaces(gs))
        <3>1. Part(EventPlaces(fs), Len(fs)) /\ Part(EventPlaces(gs), Len(gs))
            BY <1>5, <1>6
        <3> HIDE DEF f, g, h, n, c, d
        <3> QED
            BY <3>1, ShiftedSize
    <2> HIDE DEF f, g, h, n
    <2> QED
        BY <1>4, <2>1
<1>9. (\A k \in 1..c : h[k] = f[k]) /\ (\A k \in 1..d : h[c + k] = Len(fs) + g[k])
    <2> DEFINE S == EventPlaces(fs)
               T == EventPlaces(gs)
               u == Listing(Joined(Len(fs), S, T))
    <2>1. Part(S, Len(fs)) /\ Part(T, Len(gs))
        BY <1>5, <1>6
    <2>2. (\A k \in 1..c : u[k] = f[k]) /\ (\A k \in 1..d : u[c + k] = Len(fs) + g[k])
        <3> HIDE DEF S, T
        <3> QED
            BY <2>1, ShiftedListing DEF S, T
    <2>3. h = u
        BY <1>4
    <2> HIDE DEF S, T, u, c, d, f, g, h
    <2> QED
        BY <2>2, <2>3
<1> HIDE DEF n, c, d, f, g, h
<1>10. ASSUME NEW k \in 1..c PROVE eventsOf(hs)[k] = eventsOf(fs)[k]
    <2>1. k \in 1..c + d
        BY <1>5, <1>6
    <2>2. eventsOf(hs)[k] = hs[h[k]][1].number
        BY <1>7, <1>8, <2>1
    <2> QED
        BY <1>3, <1>5, <1>9, <2>2
<1>11. ASSUME NEW k \in 1..d PROVE eventsOf(hs)[c + k] = eventsOf(gs)[k]
    <2>1. c + k \in 1..c + d
        BY <1>5, <1>6
    <2>2. eventsOf(hs)[c + k] = hs[h[c + k]][1].number
        BY <1>7, <1>8, <2>1
    <2>3. hs[h[c + k]] = gs[g[k]]
        BY <1>3, <1>6, <1>9
    <2> QED
        BY <1>6, <2>2, <2>3
<1> QED
    BY <1>5, <1>6, <1>7, <1>8, <1>10, <1>11 DEF Follows

\* The errors of the whole are those of its parts.
LEMMA ErrorsJoin ==
    ASSUME NEW hs, NEW fs, NEW gs, Follows(hs, fs, gs)
    PROVE  /\ errorsOf(hs) = errorsOf(fs) + errorsOf(gs)
           /\ errorsOf(fs) \in Nat /\ errorsOf(gs) \in Nat
<1>1. Plain(hs) /\ Plain(fs) /\ Plain(gs)
    BY DEF Follows
<1>2. Len(fs) \in Nat /\ Len(gs) \in Nat /\ Len(hs) = Len(fs) + Len(gs)
    BY <1>1, PlainFacts DEF Follows
<1>3. /\ \A k \in 1..Len(fs) : k \in 1..Len(hs) /\ hs[k] = fs[k]
      /\ \A k \in 1..Len(gs) : Len(fs) + k \in 1..Len(hs) /\ hs[Len(fs) + k] = gs[k]
    BY <1>2 DEF Follows
<1>4. ErrorPlaces(hs) = Joined(Len(fs), ErrorPlaces(fs), ErrorPlaces(gs))
    <2>1. ASSUME NEW k \in ErrorPlaces(hs)
          PROVE  k \in Joined(Len(fs), ErrorPlaces(fs), ErrorPlaces(gs))
        <3>1. k \in 1..Len(hs) /\ isError(hs[k])
            BY DEF ErrorPlaces
        <3>2. CASE k \in 1..Len(fs)
            BY <1>3, <3>1, <3>2 DEF ErrorPlaces, Joined
        <3>3. CASE k - Len(fs) \in 1..Len(gs)
            <4>1. Len(fs) + (k - Len(fs)) = k
                BY <1>2, <3>1
            <4>2. k - Len(fs) \in ErrorPlaces(gs)
                BY <1>3, <3>1, <3>3, <4>1 DEF ErrorPlaces
            <4> QED
                BY <4>1, <4>2 DEF Joined, Shifted
        <3> QED
            BY <1>2, <3>1, <3>2, <3>3
    <2>2. ASSUME NEW k \in ErrorPlaces(fs) PROVE k \in ErrorPlaces(hs)
        BY <1>3 DEF ErrorPlaces
    <2>3. ASSUME NEW k \in ErrorPlaces(gs) PROVE Len(fs) + k \in ErrorPlaces(hs)
        BY <1>3 DEF ErrorPlaces
    <2> QED
        BY <2>1, <2>2, <2>3 DEF Joined, Shifted
<1>5. Part(ErrorPlaces(fs), Len(fs)) /\ Part(ErrorPlaces(gs), Len(gs))
    BY <1>2 DEF ErrorPlaces, Part
<1>6. /\ Cardinality(ErrorPlaces(fs)) \in Nat /\ Cardinality(ErrorPlaces(gs)) \in Nat
      /\ Cardinality(ErrorPlaces(hs)) = Cardinality(ErrorPlaces(fs)) + Cardinality(ErrorPlaces(gs))
    <2>1. /\ Cardinality(ErrorPlaces(fs)) \in Nat /\ Cardinality(ErrorPlaces(gs)) \in Nat
          /\ Cardinality(Joined(Len(fs), ErrorPlaces(fs), ErrorPlaces(gs)))
             = Cardinality(ErrorPlaces(fs)) + Cardinality(ErrorPlaces(gs))
        BY <1>5, ShiftedSize
    <2> DEFINE J == Joined(Len(fs), ErrorPlaces(fs), ErrorPlaces(gs))
    <2>2. ErrorPlaces(hs) = J
        BY <1>4
    <2>3. Cardinality(ErrorPlaces(hs)) = Cardinality(J)
        <3> HIDE DEF J
        <3> QED
            BY <2>2
    <2> QED
        BY <2>1, <2>3
<1> QED
    BY <1>6 DEF errorsOf, ErrorPlaces

-----------------------------------------------------------------------------
(* Chunks *)

\* The first n elements of a sequence.
LEMMA FirstPiece ==
    ASSUME NEW s, Plain(s), NEW n \in Nat, n <= Len(s)
    PROVE  /\ Plain(SubSeq(s, 1, n)) /\ Len(SubSeq(s, 1, n)) = n
           /\ \A i \in 1..n : SubSeq(s, 1, n)[i] = s[i]
<1> DEFINE m == 1
<1>1. m \in Nat /\ n \in Int /\ 1 <= m /\ m <= n + 1 /\ n - m + 1 = n
    OBVIOUS
<1>2. \A i \in 1..n : m + i - 1 = i
    OBVIOUS
<1> HIDE DEF m
<1>3. /\ Plain(SubSeq(s, m, n)) /\ Len(SubSeq(s, m, n)) = n - m + 1
      /\ \A i \in 1..n - m + 1 : SubSeq(s, m, n)[i] = s[m + i - 1]
    BY <1>1, PieceFacts
<1>4. /\ Plain(SubSeq(s, m, n)) /\ Len(SubSeq(s, m, n)) = n
      /\ \A i \in 1..n : SubSeq(s, m, n)[i] = s[i]
    BY <1>1, <1>2, <1>3
<1> QED
    BY <1>4 DEF m

\* What has arrived of a stream, and what is looked through for frames when more arrives.
LEMMA ArrivingSplits ==
    ASSUME NEW s, Plain(s), NEW t \in Nat, NEW n \in Nat, t + n <= Len(s)
    PROVE  Splits(SubSeq(s, 1, t + n), SubSeq(s, 1, t),
                  rest(SubSeq(s, 1, t)) \o SubSeq(s, t + 1, t + n))
<1> DEFINE x == SubSeq(s, 1, t)
           z == SubSeq(s, 1, t + n)
           w == SubSeq(s, t + 1, t + n)
           r == rest(x)
           y == r \o w
           M == LastEnd(x)
<1>1. Plain(x) /\ Len(x) = t /\ \A i \in 1..t : x[i] = s[i]
    <2>1. t <= Len(s)
        BY PlainFacts
    <2> QED
        BY <2>1, FirstPiece
<1>2. Plain(z) /\ Len(z) = t + n /\ \A i \in 1..t + n : z[i] = s[i]
    <2> DEFINE u == t + n
    <2>1. u \in Nat /\ u <= Len(s)
        OBVIOUS
    <2> HIDE DEF u
    <2>2. /\ Plain(SubSeq(s, 1, u)) /\ Len(SubSeq(s, 1, u)) = u
          /\ \A i \in 1..u : SubSeq(s, 1, u)[i] = s[i]
        BY <2>1, FirstPiece
    <2> QED
        BY <2>2 DEF u
<1>3. Plain(w) /\ Len(w) = n /\ \A i \in 1..n : w[i] = s[t + i]
    <2> DEFINE u == t + n
               v == t + 1
    <2>1. /\ Len(s) \in Nat /\ u \in Nat /\ u <= Len(s) /\ v \in Nat /\ 1 <= v /\ v <= u + 1
          /\ u - v + 1 = n
        BY PlainFacts
    <2>2. \A i \in 1..n : v + i - 1 = t + i
        OBVIOUS
    <2> HIDE DEF u, v
    <2>3. /\ Plain(SubSeq(s, v, u)) /\ Len(SubSeq(s, v, u)) = u - v + 1
          /\ \A i \in 1..u - v + 1 : SubSeq(s, v, u)[i] = s[v + i - 1]
        BY <2>1, PieceFacts
    <2>4. /\ Plain(SubSeq(s, v, u)) /\ Len(SubSeq(s, v, u)) = n
          /\ \A i \in 1..n : SubSeq(s, v, u)[i] = s[t + i]
        BY <2>1, <2>2, <2>3
    <2> QED
        BY <2>4 DEF u, v
<1> HIDE DEF x, z, w
<1>4. Plain(r) /\ Len(r) = Len(x) - M /\ \A i \in 1..Len(r) : r[i] = x[M + i]
    BY <1>1, RestFacts
<1>5. M \in 0..Len(x)
    BY <1>1, LastEndFacts
<1> HIDE DEF r, M
<1>11. Follows(y, r, w)
    BY <1>3, <1>4, ConcatFollows
<1> HIDE DEF y
<1>6. /\ Plain(y) /\ Len(y) = Len(r) + Len(w)
      /\ \A k \in 1..Len(r) : y[k] = r[k]
      /\ \A k \in 1..Len(w) : y[Len(r) + k] = w[k]
    BY <1>11 DEF Follows
<1>7. Len(y) = Len(z) - M /\ Len(x) <= Len(z) /\ Len(r) \in Nat
    BY <1>1, <1>2, <1>3, <1>4, <1>5, <1>6
<1>8. ASSUME NEW i \in 1..Len(x) PROVE z[i] = x[i]
    <2>1. i \in 1..t /\ i \in 1..t + n
        BY <1>1
    <2> QED
        BY <1>1, <1>2, <2>1
<1>9. ASSUME NEW j \in 1..Len(y) PROVE y[j] = z[M + j]
    <2>1. CASE j <= Len(r)
        <3>1. j \in 1..Len(r) /\ M + j \in 1..t /\ M + j \in 1..t + n
            BY <1>1, <1>4, <1>5, <1>7, <2>1
        <3>2. y[j] = x[M + j]
            BY <1>4, <1>6, <3>1
        <3> QED
            BY <1>1, <1>2, <3>1, <3>2
    <2>2. CASE ~ (j <= Len(r))
        <3> DEFINE k == j - Len(r)
        <3>1. /\ k \in 1..Len(w) /\ k \in 1..n /\ Len(r) + k = j /\ t + k = M + j
              /\ M + j \in 1..t + n
            BY <1>1, <1>2, <1>3, <1>4, <1>5, <1>7, <2>2
        <3> HIDE DEF k
        <3>2. y[j] = w[k]
            BY <1>6, <3>1
        <3> QED
            BY <1>2, <1>3, <3>1, <3>2
    <2> QED
        BY <1>7, <2>1, <2>2
<1>10. Splits(z, x, y)
    BY <1>1, <1>2, <1>6, <1>7, <1>8, <1>9 DEF Splits, M
<1> QED
    BY <1>10 DEF z, x, y, r, w

\* Where nothing has arrived there is nothing.
LEMMA NothingArrived ==
    ASSUME NEW b, Plain(b), Len(b) = 0
    PROVE  eventsOf(frames(b)) = <<>> /\ errorsOf(frames(b)) = 0 /\ rest(b) = <<>>
<1>1. Plain(<<>>) /\ Len(<<>>) = 0
    BY DEF Plain
<1>2. ends(b) = {} /\ Cardinality(ends(b)) = 0
    BY FS_EmptySet DEF ends
<1>3. Plain(frames(b)) /\ Len(frames(b)) = 0
    BY <1>2, FramesPlain
<1>4. EventPlaces(frames(b)) = {} /\ ErrorPlaces(frames(b)) = {}
    BY <1>3 DEF EventPlaces, ErrorPlaces
<1>5. Plain(eventsOf(frames(b))) /\ Len(eventsOf(frames(b))) = 0
    <2>1. Len(eventsOf(frames(b))) = Cardinality(EventPlaces(frames(b)))
        BY <1>3, EventsFacts
    <2>2. Plain(eventsOf(frames(b)))
        BY <1>3, EventsFacts
    <2> QED
        BY <1>4, <2>1, <2>2, FS_EmptySet
<1>6. errorsOf(frames(b)) = 0
    BY <1>4, FS_EmptySet DEF errorsOf, ErrorPlaces
<1>7. Plain(rest(b)) /\ Len(rest(b)) = 0
    BY <1>2, LastEndFacts, RestFacts
<1> QED
    BY <1>1, <1>5, <1>6, <1>7, SameSequence

\* Texts that differ in damaged characters only.
Alike(b, c) ==
    /\ Plain(b) /\ Plain(c) /\ Len(b) = Len(c)
    /\ \A i \in 1..Len(b) :
        b[i].part = c[i].part /\ b[i].kind = c[i].kind /\ b[i].token = c[i].token
        /\ b[i].number = c[i].number

\* What a symbol says of itself.
LEMMA SymbolFields ==
    ASSUME NEW p, NEW k, NEW t, NEW n, NEW s, s = Symbol(p, k, t, n)
    PROVE  /\ s.part = p /\ s.kind = k /\ s.token = t /\ s.number = n
           /\ s = Symbol(s.part, s.kind, s.token, s.number)
BY DEF Symbol

\* A text is like the text as it was sent, which is not damaged.
LEMMA UndamagedFacts ==
    ASSUME NEW b, Plain(b)
    PROVE  /\ Plain(undamaged(b)) /\ Len(undamaged(b)) = Len(b) /\ Alike(b, undamaged(b))
           /\ \A i \in 1..Len(b) :
                undamaged(b)[i] = Symbol(b[i].part, b[i].kind, b[i].token, b[i].number)
<1> DEFINE u == undamaged(b)
           n == Len(b)
<1>1. n \in Nat /\ DOMAIN b = 1..n
    BY DEF Plain
<1>2. u = [i \in 1..n |-> Symbol(b[i].part, b[i].kind, b[i].token, b[i].number)]
    BY <1>1 DEF undamaged
<1> HIDE DEF u, n
<1>3. \A i \in 1..n : u[i] = Symbol(b[i].part, b[i].kind, b[i].token, b[i].number)
    BY <1>2
<1>4. u = [i \in 1..n |-> u[i]]
    BY <1>2
<1>5. Plain(u) /\ Len(u) = n
    BY <1>1, <1>4, MadeSequence
<1>7. ASSUME NEW i \in 1..n
      PROVE  b[i].part = u[i].part /\ b[i].kind = u[i].kind /\ b[i].token = u[i].token
             /\ b[i].number = u[i].number
    BY <1>3, SymbolFields
<1>6. Alike(b, u)
    BY <1>5, <1>7 DEF Alike, n
<1> QED
    BY <1>3, <1>5, <1>6 DEF u, n

\* What is alike is the same when it is undamaged.
LEMMA AlikeUndamaged ==
    ASSUME NEW b, NEW c, Alike(b, c)
    PROVE  undamaged(b) = undamaged(c)
<1> DEFINE u == undamaged(b)
           v == undamaged(c)
<1>1. /\ Plain(u) /\ Len(u) = Len(b)
      /\ \A i \in 1..Len(b) : u[i] = Symbol(b[i].part, b[i].kind, b[i].token, b[i].number)
    BY UndamagedFacts DEF Alike
<1>2. /\ Plain(v) /\ Len(v) = Len(c)
      /\ \A i \in 1..Len(c) : v[i] = Symbol(c[i].part, c[i].kind, c[i].token, c[i].number)
    BY UndamagedFacts DEF Alike
<1> HIDE DEF u, v
<1>3. Len(u) = Len(v) /\ \A i \in 1..Len(u) : u[i] = v[i]
    BY <1>1, <1>2 DEF Alike
<1>4. u = v
    BY <1>1, <1>2, <1>3, SameSequence
<1> QED
    BY <1>4 DEF u, v

\* Delimiters are not damaged: texts that are alike are cut at the same places.
LEMMA AlikeEnds ==
    ASSUME NEW b, NEW c, Alike(b, c)
    PROVE  ends(b) = ends(c) /\ LastEnd(b) = LastEnd(c)
<1>1. Len(b) = Len(c) /\ Len(b) \in Nat
    BY PlainFacts DEF Alike
<1>2. \A i \in 2..Len(b) : b[i - 1].part = c[i - 1].part /\ b[i].part = c[i].part
    BY <1>1 DEF Alike
<1>3. ends(b) = ends(c)
    BY <1>1, <1>2 DEF ends
<1> QED
    BY <1>3 DEF LastEnd

\* Texts that are alike leave over what is alike.
LEMMA AlikeRest ==
    ASSUME NEW b, NEW c, Alike(b, c)
    PROVE  Alike(rest(b), rest(c))
<1> DEFINE M == LastEnd(b)
<1>1. Plain(b) /\ Plain(c) /\ Len(b) = Len(c) /\ M = LastEnd(c) /\ M \in 0..Len(b) /\ Len(b) \in Nat
    BY AlikeEnds, LastEndFacts, PlainFacts DEF Alike
<1>2. /\ Plain(rest(b)) /\ Len(rest(b)) = Len(b) - M
      /\ \A i \in 1..Len(rest(b)) : rest(b)[i] = b[M + i]
    BY <1>1, RestFacts
<1>3. /\ Plain(rest(c)) /\ Len(rest(c)) = Len(b) - M
      /\ \A i \in 1..Len(rest(c)) : rest(c)[i] = c[M + i]
    BY <1>1, RestFacts
<1> HIDE DEF M
<1>4. ASSUME NEW i \in 1..Len(rest(b))
      PROVE  /\ M + i \in 1..Len(b) /\ rest(b)[i] = b[M + i] /\ rest(c)[i] = c[M + i]
    BY <1>1, <1>2, <1>3
<1> QED
    BY <1>2, <1>3, <1>4 DEF Alike

\* Texts that are alike have as many frames, which are alike.
LEMMA AlikeFrames ==
    ASSUME NEW b, NEW c, Alike(b, c)
    PROVE  /\ Plain(frames(b)) /\ Plain(frames(c)) /\ Len(frames(b)) = Len(frames(c))
           /\ \A k \in 1..Len(frames(b)) : Alike(frames(b)[k], frames(c)[k])
<1> DEFINE d == Cardinality(ends(b))
<1>1. Plain(b) /\ Plain(c) /\ Len(b) = Len(c) /\ Len(b) \in Nat /\ ends(b) = ends(c)
    BY AlikeEnds, PlainFacts DEF Alike
<1>2. /\ Plain(frames(b)) /\ Len(frames(b)) = d
      /\ Plain(frames(c)) /\ Len(frames(c)) = d
    BY <1>1, FramesPlain
<1>3. ASSUME NEW k \in 1..d PROVE Alike(frames(b)[k], frames(c)[k])
    <2> DEFINE f == frames(b)[k]
               g == frames(c)[k]
               m == From(b, k)
               e == Listing(ends(b))[k]
    <2>1. /\ m \in Nat /\ 1 <= m /\ m < e /\ e \in 2..Len(b)
          /\ Plain(f) /\ Len(f) = e - 1 - m /\ \A i \in 1..Len(f) : f[i] = b[m + i - 1]
        BY <1>1, FrameFacts
    <2>2. m = From(c, k) /\ e = Listing(ends(c))[k] /\ k \in 1..Cardinality(ends(c))
        BY <1>1 DEF From
    <2>3. /\ Plain(g) /\ Len(g) = e - 1 - m /\ \A i \in 1..Len(g) : g[i] = c[m + i - 1]
        <3>1. LET l == Listing(ends(c)) IN
              /\ Plain(g) /\ Len(g) = l[k] - 1 - From(c, k)
              /\ \A i \in 1..Len(g) : g[i] = c[From(c, k) + i - 1]
            BY <1>1, <2>2, FrameFacts
        <3> QED
            BY <2>2, <3>1
    <2> HIDE DEF f, g, m, e
    <2>4. \A i \in 1..Len(f) : m + i - 1 \in 1..Len(b)
        BY <1>1, <2>1
    <2>5. Alike(f, g)
        BY <2>1, <2>3, <2>4 DEF Alike
    <2> QED
        BY <2>5 DEF f, g
<1> QED
    BY <1>2, <1>3

\* Whether a frame is an event or an error does not depend on damaged characters.
LEMMA AlikeRead ==
    ASSUME NEW f, NEW g, Alike(f, g)
    PROVE  /\ isEvent(f) = isEvent(g) /\ isError(f) = isError(g)
           /\ isEvent(f) => f[1].number = g[1].number
<1>1. /\ Len(f) = Len(g) /\ Len(f) \in Nat /\ (f # <<>> <=> Len(f) # 0)
      /\ (g # <<>> <=> Len(g) # 0)
    BY DEF Alike, Plain
<1>2. f # <<>> => f[1].kind = g[1].kind /\ f[1].token = g[1].token /\ f[1].number = g[1].number
    BY <1>1 DEF Alike
<1>3. f # <<>> <=> g # <<>>
    BY <1>1
<1> QED
    BY <1>2, <1>3, Zenon DEF isEvent, isError, tokenCandidates

\* Texts that are alike give the same events, and as many errors.
LEMMA AlikeEvents ==
    ASSUME NEW b, NEW c, Alike(b, c)
    PROVE  /\ eventsOf(frames(b)) = eventsOf(frames(c))
           /\ errorsOf(frames(b)) = errorsOf(frames(c))
<1> DEFINE fs == frames(b)
           gs == frames(c)
<1>1. /\ Plain(fs) /\ Plain(gs) /\ Len(fs) = Len(gs)
      /\ \A k \in 1..Len(fs) : Alike(fs[k], gs[k])
    BY AlikeFrames
<1> HIDE DEF fs, gs
<1>2. \A k \in 1..Len(fs) :
        /\ isEvent(fs[k]) = isEvent(gs[k]) /\ isError(fs[k]) = isError(gs[k])
        /\ isEvent(fs[k]) => fs[k][1].number = gs[k][1].number
    BY <1>1, AlikeRead
<1>3. EventPlaces(fs) = EventPlaces(gs) /\ ErrorPlaces(fs) = ErrorPlaces(gs)
    BY <1>1, <1>2 DEF EventPlaces, ErrorPlaces
<1>4. errorsOf(fs) = errorsOf(gs)
    BY <1>3 DEF errorsOf, ErrorPlaces
<1> DEFINE d == Cardinality(EventPlaces(fs))
           e == Listing(EventPlaces(fs))
           v == eventsOf(fs)
           w == eventsOf(gs)
<1>5. /\ \A i \in 1..d : e[i] \in EventPlaces(fs)
      /\ Plain(v) /\ Len(v) = d /\ \A i \in 1..d : v[i] = fs[e[i]][1].number
    BY <1>1, EventsFacts
<1>6. Plain(w) /\ Len(w) = d /\ \A i \in 1..d : w[i] = gs[e[i]][1].number
    BY <1>1, <1>3, EventsFacts
<1> HIDE DEF d, e, v, w
<1>7. \A i \in 1..d : v[i] = w[i]
    BY <1>2, <1>5, <1>6 DEF EventPlaces
<1>8. v = w
    BY <1>5, <1>6, <1>7, SameSequence
<1> QED
    BY <1>4, <1>8 DEF v, w, fs, gs

\* What is sent is undamaged.
Clean(s) == \A i \in 1..Len(s) : s[i] = Symbol(s[i].part, s[i].kind, s[i].token, s[i].number)

\* What is left over of a text, undamaged, is left over of the undamaged text.
LEMMA RestUndamaged ==
    ASSUME NEW b, Plain(b), NEW c, Plain(c), Clean(c), Alike(b, c)
    PROVE  undamaged(rest(b)) = rest(c)
<1> DEFINE r == rest(c)
           M == LastEnd(c)
<1>1. undamaged(rest(b)) = undamaged(r)
    BY AlikeRest, AlikeUndamaged
<1>2. /\ Plain(r) /\ Len(r) = Len(c) - M /\ \A i \in 1..Len(r) : r[i] = c[M + i]
      /\ M \in 0..Len(c) /\ Len(c) \in Nat
    BY RestFacts, LastEndFacts, PlainFacts
<1> HIDE DEF r, M
<1>3. /\ Plain(undamaged(r)) /\ Len(undamaged(r)) = Len(r)
      /\ \A i \in 1..Len(r) :
            undamaged(r)[i] = Symbol(r[i].part, r[i].kind, r[i].token, r[i].number)
    BY <1>2, UndamagedFacts
<1>4. \A i \in 1..Len(r) : M + i \in 1..Len(c)
    BY <1>2
<1>5. \A i \in 1..Len(r) : undamaged(r)[i] = r[i]
    BY <1>2, <1>3, <1>4 DEF Clean
<1>6. undamaged(r) = r
    BY <1>2, <1>3, <1>5, SameSequence
<1> QED
    BY <1>1, <1>6 DEF r

\* A chunk that is decoded is like the chunk as it was sent.
LEMMA DecodedFacts ==
    ASSUME NEW w, Plain(w), Clean(w)
    PROVE  Alike(decode(w), w)
<1> DEFINE d == decode(w)
           n == Len(w)
<1>1. n \in Nat /\ DOMAIN w = 1..n
    BY DEF Plain
<1>2. d = [i \in 1..n |-> IF isHalved(w, i) THEN damage(w[i]) ELSE w[i]]
    BY <1>1 DEF decode
<1> HIDE DEF d, n
<1>3. d = [i \in 1..n |-> d[i]]
    BY <1>2
<1>4. Plain(d) /\ Len(d) = n
    BY <1>1, <1>3, MadeSequence
<1>5. ASSUME NEW i \in 1..n
      PROVE  d[i].part = w[i].part /\ d[i].kind = w[i].kind /\ d[i].token = w[i].token
             /\ d[i].number = w[i].number
    <2>1. d[i] = damage(w[i]) \/ d[i] = w[i]
        BY <1>2
    <2>2. w[i] = Symbol(w[i].part, w[i].kind, w[i].token, w[i].number)
        BY DEF Clean, n
    <2>3. /\ damage(w[i]).part = w[i].part /\ damage(w[i]).kind = w[i].kind
          /\ damage(w[i]).token = w[i].token /\ damage(w[i]).number = w[i].number
        BY <2>2 DEF damage, Symbol
    <2> QED
        BY <2>1, <2>3
<1>6. Alike(d, w)
    BY <1>4, <1>5 DEF Alike, n
<1> QED
    BY <1>6 DEF d

\* What is behind each other and alike, is alike as a whole.
LEMMA AlikeJoined ==
    ASSUME NEW a, NEW b, NEW c, NEW d, Alike(a, b), Alike(c, d)
    PROVE  Alike(a \o c, b \o d)
<1> DEFINE s == a \o c
           t == b \o d
<1>1. Follows(s, a, c) /\ Follows(t, b, d)
    BY ConcatFollows DEF Alike
<1>2. /\ Plain(s) /\ Plain(t) /\ Len(s) = Len(a) + Len(c) /\ Len(t) = Len(b) + Len(d)
      /\ Len(a) \in Nat /\ Len(c) \in Nat /\ Len(a) = Len(b) /\ Len(c) = Len(d)
    BY <1>1, PlainFacts DEF Follows, Alike
<1> HIDE DEF s, t
<1>3. ASSUME NEW i \in 1..Len(s)
      PROVE  s[i].part = t[i].part /\ s[i].kind = t[i].kind /\ s[i].token = t[i].token
             /\ s[i].number = t[i].number
    <2>1. CASE i \in 1..Len(a)
        <3>1. s[i] = a[i] /\ t[i] = b[i]
            BY <1>1, <1>2, <2>1 DEF Follows
        <3> QED
            BY <2>1, <3>1 DEF Alike
    <2>2. CASE i - Len(a) \in 1..Len(c)
        <3> DEFINE k == i - Len(a)
        <3>1. k \in 1..Len(c) /\ k \in 1..Len(d) /\ Len(a) + k = i /\ Len(b) + k = i
            BY <1>2, <2>2
        <3> HIDE DEF k
        <3>2. s[Len(a) + k] = c[k] /\ t[Len(b) + k] = d[k]
            BY <1>1, <3>1 DEF Follows
        <3> QED
            BY <3>1, <3>2 DEF Alike
    <2> QED
        BY <1>2, <2>1, <2>2
<1>4. Alike(s, t)
    BY <1>2, <1>3 DEF Alike
<1> QED
    BY <1>4 DEF s, t

\* Every frame is sent as four symbols.
LEMMA SymbolsFacts ==
    ASSUME NEW kinds \in Seq(Kinds), NEW token, NEW n
    PROVE  /\ Plain(symbols(kinds, token, n)) /\ Len(symbols(kinds, token, n)) = 4 * Len(kinds)
           /\ Clean(symbols(kinds, token, n))
<1> DEFINE m == 4 * Len(kinds)
           s == symbols(kinds, token, n)
           G(i) ==
            LET k == (i + 3) \div 4
                wide == kinds[k] = "plain"
            IN CASE i = 4 * k - 3 -> Symbol(IF wide THEN "lead" ELSE "text", kinds[k], token, n + k)
                 [] i = 4 * k - 2 -> Symbol(IF wide THEN "trail" ELSE "text", "none", 0, 0)
                 [] i = 4 * k - 1 -> Symbol("hashTab", "none", 0, 0)
                 [] i = 4 * k     -> Symbol("hash", "none", 0, 0)
<1>1. m \in Nat
    OBVIOUS
<1>2. s = [i \in 1..m |-> G(i)]
    BY DEF symbols
<1>3. ASSUME NEW i \in 1..m
      PROVE  \E p, q, t, u : G(i) = Symbol(p, q, t, u)
    <2> DEFINE k == (i + 3) \div 4
    <2>1. i = 4 * k - 3 \/ i = 4 * k - 2 \/ i = 4 * k - 1 \/ i = 4 * k
        <3> HIDE DEF m
        <3> QED
            BY <1>1
    <2>2. G(i) = CASE i = 4 * k - 3 -> Symbol(IF kinds[k] = "plain" THEN "lead" ELSE "text", kinds[k], token, n + k)
                   [] i = 4 * k - 2 -> Symbol(IF kinds[k] = "plain" THEN "trail" ELSE "text", "none", 0, 0)
                   [] i = 4 * k - 1 -> Symbol("hashTab", "none", 0, 0)
                   [] i = 4 * k     -> Symbol("hash", "none", 0, 0)
        OBVIOUS
    <2> HIDE DEF k, m, s, G
    <2>3. \E p, q, t, u : G(i) = Symbol(p, q, t, u)
        BY <2>1, <2>2
    <2> QED
        BY <2>3
<1> HIDE DEF G, m, s
<1>4. s = [i \in 1..m |-> s[i]] /\ \A i \in 1..m : s[i] = G(i)
    BY <1>2
<1>5. Plain(s) /\ Len(s) = m
    BY <1>1, <1>4, MadeSequence
<1>6. ASSUME NEW i \in 1..m
      PROVE  s[i] = Symbol(s[i].part, s[i].kind, s[i].token, s[i].number)
    <2>1. PICK p, q, t, u : s[i] = Symbol(p, q, t, u)
        BY <1>3, <1>4
    <2> QED
        BY <2>1 DEF Symbol
<1>7. Clean(s)
    BY <1>5, <1>6 DEF Clean
<1> QED
    BY <1>5, <1>7 DEF m, s

\* A connection's variables are as a new connection finds them wherever there is none.
Quiet ==
    /\ stage \in {"cycle", "login", "discover", "connecting", "delay", "summary", "closed"} =>
        got = <<>> /\ errors = 0
    /\ stage \notin {"open"} \cup Ended => taken = 0 /\ buffer = <<>>
    /\ stage = "open" =>
        /\ Plain(stream) /\ Clean(stream) /\ taken \in Nat /\ taken <= Len(stream)
        /\ Plain(buffer)

ChunkInv == Quiet /\ ChunksDoNotMatter

\* Events and errors as functions of the tokens, which do not change while frames are read.
Decrypted(f, ts) == f[1].kind = "sealed" /\ f[1].token \in ToSet(ts)
EventPlacesIn(fs, ts) ==
    Listing({k \in 1..Len(fs) : fs[k] # <<>> /\ (fs[k][1].kind = "plain" \/ Decrypted(fs[k], ts))})
EventsIn(fs, ts) ==
    [i \in DOMAIN EventPlacesIn(fs, ts) |-> fs[EventPlacesIn(fs, ts)[i]][1].number]
ErrorsIn(fs, ts) ==
    Cardinality({k \in 1..Len(fs) : /\ fs[k] # <<>>
                                    /\ \/ fs[k][1].kind = "malformed"
                                       \/ /\ fs[k][1].kind = "sealed"
                                          /\ ~ (fs[k][1].token \in ToSet(ts))})

\* What a connection reads depends on the current tokens.
LEMMA ReadWithTokens ==
    ASSUME NEW fs
    PROVE  eventsOf(fs) = EventsIn(fs, tokens) /\ errorsOf(fs) = ErrorsIn(fs, tokens)
BY DEF eventsOf, errorsOf, eventFrames, isEvent, isError, tokenCandidates,
       EventsIn, ErrorsIn, EventPlacesIn, Decrypted

\* ChunksDoNotMatter after a step, in terms of what has arrived and of the tokens then.
LEMMA ChunksNext ==
    ASSUME stage' = "open" =>
                /\ got' = EventsIn(frames(SubSeq(stream', 1, taken')), tokens')
                /\ errors' = ErrorsIn(frames(SubSeq(stream', 1, taken')), tokens')
                /\ undamaged(buffer') = rest(SubSeq(stream', 1, taken'))
    PROVE  ChunksDoNotMatter'
BY DEF ChunksDoNotMatter, eventsOf, errorsOf, eventFrames, isEvent, isError, tokenCandidates,
       EventsIn, ErrorsIn, EventPlacesIn, Decrypted

\* Before the first cycle nothing has arrived.
LEMMA ChunkInit == Init => ChunkInv
BY DEF Init, ChunkInv, Quiet, ChunksDoNotMatter, Ended

\* A chunk that arrives continues what has arrived of the stream.
LEMMA ChunkArrives ==
    ASSUME ChunkInv, stage = "open", NEW n \in 1..Len(stream) - taken
    PROVE  /\ Splits(SubSeq(stream, 1, taken + n), SubSeq(stream, 1, taken),
                     undamaged(arriving(n)))
           /\ Plain(arriving(n)) /\ Clean(undamaged(arriving(n)))
           /\ n \in Nat /\ taken \in Nat /\ taken + n <= Len(stream)
           /\ got = eventsOf(frames(SubSeq(stream, 1, taken)))
           /\ errors = errorsOf(frames(SubSeq(stream, 1, taken)))
<1> DEFINE r == rest(SubSeq(stream, 1, taken))
           w == chunk(n)
           y == arriving(n)
<1>1. /\ Plain(stream) /\ Clean(stream) /\ taken \in Nat /\ taken <= Len(stream)
      /\ Len(stream) \in Nat /\ Plain(buffer)
    BY PlainFacts DEF ChunkInv, Quiet
<1>2. n \in Nat /\ taken + n <= Len(stream)
    BY <1>1
<1>3. undamaged(buffer) = r
    BY DEF ChunkInv, ChunksDoNotMatter
<1>4. Splits(SubSeq(stream, 1, taken + n), SubSeq(stream, 1, taken), r \o w)
    BY <1>1, <1>2, ArrivingSplits DEF chunk
<1>5. Plain(w) /\ Clean(w)
    <2> DEFINE k == taken + 1
               l == taken + n
    <2>1. /\ k \in Nat /\ l \in Int /\ 1 <= k /\ k <= l + 1 /\ l <= Len(stream)
          /\ \A i \in 1..l - k + 1 : k + i - 1 \in 1..Len(stream)
        BY <1>1, <1>2
    <2>2. w = SubSeq(stream, k, l)
        BY DEF chunk
    <2> HIDE DEF k, l, w
    <2>3. /\ Plain(w) /\ Len(w) = l - k + 1 /\ \A i \in 1..l - k + 1 : w[i] = stream[k + i - 1]
        BY <1>1, <2>1, <2>2, PieceFacts
    <2> QED
        BY <1>1, <2>1, <2>3 DEF Clean
<1>6. Plain(r)
    <2>1. Plain(SubSeq(stream, 1, taken))
        BY <1>4 DEF Splits
    <2> QED
        BY <2>1, RestFacts
<1>7. Alike(y, r \o w)
    <2>1. Alike(decode(w), w)
        BY <1>5, DecodedFacts
    <2>2. Alike(buffer, r)
        BY <1>1, <1>3, UndamagedFacts
    <2>3. y = buffer \o decode(w)
        BY DEF arriving
    <2> HIDE DEF y, r, w
    <2> QED
        BY <2>1, <2>2, <2>3, AlikeJoined
<1>8. undamaged(y) = undamaged(r \o w)
    BY <1>7, AlikeUndamaged
<1>9. undamaged(r \o w) = r \o w
    <2> DEFINE t == r \o w
    <2>1. Follows(t, r, w)
        BY <1>5, <1>6, ConcatFollows
    <2>2. /\ Plain(undamaged(buffer)) /\ Len(undamaged(buffer)) = Len(buffer)
          /\ \A i \in 1..Len(buffer) : undamaged(buffer)[i]
                = Symbol(buffer[i].part, buffer[i].kind, buffer[i].token, buffer[i].number)
        BY <1>1, UndamagedFacts
    <2>3. Clean(r)
        <3> DEFINE v == undamaged(buffer)
        <3>1. \A i \in 1..Len(v) : v[i] = Symbol(v[i].part, v[i].kind, v[i].token, v[i].number)
            BY <2>2, SymbolFields
        <3> HIDE DEF v
        <3>2. Clean(v)
            BY <3>1 DEF Clean
        <3> QED
            BY <1>3, <3>2 DEF v
    <2> HIDE DEF t, r, w, y
    <2>4. Plain(t) /\ Len(t) = Len(r) + Len(w) /\ Len(r) \in Nat /\ Len(w) \in Nat
        BY <1>5, <1>6, <2>1, PlainFacts DEF Follows
    <2>5. ASSUME NEW i \in 1..Len(t)
          PROVE  t[i] = Symbol(t[i].part, t[i].kind, t[i].token, t[i].number)
        <3>1. CASE i \in 1..Len(r)
            <4>1. t[i] = r[i]
                BY <2>1, <3>1 DEF Follows
            <4> QED
                BY <2>3, <3>1, <4>1 DEF Clean
        <3>2. CASE i - Len(r) \in 1..Len(w)
            <4> DEFINE k == i - Len(r)
            <4>1. k \in 1..Len(w) /\ Len(r) + k = i
                BY <2>4, <3>2
            <4> HIDE DEF k
            <4>2. t[Len(r) + k] = w[k]
                BY <2>1, <4>1 DEF Follows
            <4> QED
                BY <1>5, <4>1, <4>2 DEF Clean
        <3> QED
            BY <2>4, <3>1, <3>2
    <2>6. /\ Plain(undamaged(t)) /\ Len(undamaged(t)) = Len(t)
          /\ \A i \in 1..Len(t) :
                undamaged(t)[i] = Symbol(t[i].part, t[i].kind, t[i].token, t[i].number)
        BY <2>4, UndamagedFacts
    <2>7. undamaged(t) = t
        BY <2>4, <2>5, <2>6, SameSequence
    <2> QED
        BY <2>7 DEF t
<1>10. Plain(y)
    BY <1>7 DEF Alike
<1>11. Clean(undamaged(y))
    <2> HIDE DEF y
    <2>1. /\ Len(undamaged(y)) = Len(y)
          /\ \A i \in 1..Len(y) :
                undamaged(y)[i] = Symbol(y[i].part, y[i].kind, y[i].token, y[i].number)
        BY <1>10, UndamagedFacts
    <2> DEFINE v == undamaged(y)
    <2>2. \A i \in 1..Len(v) : v[i] = Symbol(v[i].part, v[i].kind, v[i].token, v[i].number)
        BY <2>1, SymbolFields
    <2> HIDE DEF v
    <2>3. Clean(v)
        BY <2>2 DEF Clean
    <2> QED
        BY <2>3 DEF v
<1> QED
    BY <1>1, <1>2, <1>4, <1>8, <1>9, <1>10, <1>11 DEF ChunkInv, ChunksDoNotMatter

\* A connection that is over leaves nothing behind.
LEMMA QuietSettles ==
    ASSUME NEW r, NEW g, NEW e, settle(r, g, e)
    PROVE  ChunkInv' /\ stage' \in {"connecting", "print"}
<1>1. stage' \in {"connecting", "print"} /\ taken' = 0 /\ buffer' = <<>>
    BY DEF settle, noSocket
<1>2. stage' = "connecting" => got' = <<>> /\ errors' = 0
    BY DEF settle
<1> QED
    BY <1>1, <1>2 DEF ChunkInv, Quiet, ChunksDoNotMatter, Ended

\* Nothing happens to a connection.
LEMMA QuietStays ==
    ASSUME ChunkInv, UNCHANGED socketVars,
           \/ stage' = "failed"
           \/ stage' = "killed"
           \/ stage' = stage /\ tokens' = tokens
           \/ /\ stage \in {"cycle", "login", "discover", "connecting", "delay", "summary"}
              /\ stage' \in {"cycle", "login", "discover", "connecting", "delay", "summary",
                             "closed"}
           \/ /\ stage = "print" /\ got = <<>> /\ errors = 0
              /\ stage' \in {"delay", "summary"}
    PROVE  ChunkInv'
<1>1. Quiet'
    BY DEF ChunkInv, Quiet, socketVars, Ended
<1>2. ChunksDoNotMatter'
    <2>1. CASE stage' # "open"
        BY <2>1 DEF ChunksDoNotMatter
    <2>2. CASE stage' = "open"
        <3>1. stage = "open" /\ tokens' = tokens
            BY <2>2
        <3>2. /\ got = EventsIn(frames(SubSeq(stream, 1, taken)), tokens)
              /\ errors = ErrorsIn(frames(SubSeq(stream, 1, taken)), tokens)
              /\ undamaged(buffer) = rest(SubSeq(stream, 1, taken))
            BY <3>1, ReadWithTokens DEF ChunkInv, ChunksDoNotMatter
        <3>3. /\ stream' = stream /\ taken' = taken /\ buffer' = buffer /\ got' = got
              /\ errors' = errors
            BY DEF socketVars
        <3> QED
            BY <3>1, <3>2, <3>3, ChunksNext
    <2> QED
        BY <2>1, <2>2
<1> QED
    BY <1>1, <1>2 DEF ChunkInv

\* A new connection begins with nothing.
LEMMA ChunkConnects ==
    ASSUME ChunkInv, NEW kinds \in Streams, NEW token, Connects(kinds, token)
    PROVE  ChunkInv'
<1>1. Plain(stream') /\ Clean(stream') /\ Len(stream') \in Nat
    <2>1. kinds \in Seq(Kinds)
        BY StreamAssumption
    <2>2. stream' = symbols(kinds, token, sent)
        BY DEF Connects
    <2> QED
        BY <2>1, <2>2, SymbolsFacts, PlainFacts
<1>2. taken = 0 /\ buffer = <<>> /\ got = <<>> /\ errors = 0
    BY DEF ChunkInv, Quiet, Connects, Ended
<1>3. stage' = "open" /\ UNCHANGED <<taken, buffer, got, errors>>
    BY DEF Connects
<1>6. Plain(<<>>) /\ Len(<<>>) = 0 /\ undamaged(<<>>) = <<>>
    BY DEF Plain, undamaged
<1>4. Quiet'
    BY <1>1, <1>2, <1>3, <1>6 DEF Quiet, Ended
<1>5. ChunksDoNotMatter'
    <2>1. PICK b : b = SubSeq(stream', 1, 0)
        OBVIOUS
    <2>2. Plain(b) /\ Len(b) = 0
        <3> DEFINE n == 0
        <3>1. n \in Nat /\ n <= Len(stream')
            BY <1>1
        <3> HIDE DEF n
        <3>2. Plain(SubSeq(stream', 1, n)) /\ Len(SubSeq(stream', 1, n)) = n
            BY <1>1, <3>1, FirstPiece
        <3> QED
            BY <2>1, <3>2 DEF n
    <2>3. EventsIn(frames(b), tokens) = <<>> /\ ErrorsIn(frames(b), tokens) = 0 /\ rest(b) = <<>>
        BY <2>2, NothingArrived, ReadWithTokens
    <2>4. SubSeq(stream', 1, taken') = b /\ tokens' = tokens
        BY <1>2, <1>3, <2>1 DEF Connects, tokenVars
    <2> QED
        BY <1>2, <1>3, <1>6, <2>3, <2>4, ChunksNext
<1> QED
    BY <1>4, <1>5 DEF ChunkInv

\* A chunk is read like the rest of what the stream has brought.
LEMMA ChunkReads ==
    ASSUME ChunkInv, NEW n \in 1..Len(stream) - taken, Data(n)
    PROVE  ChunkInv'
<1> DEFINE x == SubSeq(stream, 1, taken)
           z == SubSeq(stream, 1, taken + n)
           y == arriving(n)
           u == undamaged(y)
<1>1. stage = "open" /\ tokens' = tokens
    BY DEF Data, tokenVars
<1>2. /\ Splits(z, x, u) /\ Plain(y) /\ Clean(u) /\ n \in Nat /\ taken \in Nat /\ taken + n <= Len(stream)
      /\ got = eventsOf(frames(x)) /\ errors = errorsOf(frames(x))
    BY <1>1, ChunkArrives
<1>3. CASE Len(eventsOf(frames(y))) >= MaxEvents - Len(events) - Len(got)
    <2>1. \E g, e : settle("max-events-reached", g, e)
        BY <1>3 DEF Data, readFrames
    <2> QED
        BY <2>1, QuietSettles
<1>4. CASE ~ (Len(eventsOf(frames(y))) >= MaxEvents - Len(events) - Len(got))
    <2>1. /\ taken' = taken + n /\ buffer' = rest(y)
          /\ got' = got \o eventsOf(frames(y)) /\ errors' = errors + errorsOf(frames(y))
          /\ UNCHANGED <<stage, stream>>
        BY <1>4 DEF Data, readFrames, readOn
    <2>9. /\ Plain(u) /\ Alike(y, u) /\ Plain(rest(y))
          /\ eventsOf(frames(y)) = eventsOf(frames(u))
          /\ errorsOf(frames(y)) = errorsOf(frames(u))
          /\ undamaged(rest(y)) = rest(u)
        <3> HIDE DEF y
        <3>1. Plain(u) /\ Alike(y, u)
            BY <1>2, UndamagedFacts
        <3> HIDE DEF u
        <3> QED
            BY <1>2, <3>1, AlikeEvents, RestUndamaged, RestFacts
    <2>2. Quiet'
        BY <1>1, <1>2, <2>1, <2>9 DEF Quiet, ChunkInv, Ended
    <2>3. SubSeq(stream', 1, taken') = z
        BY <2>1
    <2> HIDE DEF x, y, z, u
    <2>4. Follows(frames(z), frames(x), frames(u)) /\ rest(z) = rest(u)
        BY <1>2, FramesJoin, RestJoin
    <2>5. eventsOf(frames(z)) = got'
        <3>1. Follows(eventsOf(frames(z)), eventsOf(frames(x)), eventsOf(frames(u)))
            BY <2>4, EventsJoin
        <3>2. eventsOf(frames(z)) = eventsOf(frames(x)) \o eventsOf(frames(u))
            BY <3>1, FollowsIsJoined
        <3> QED
            BY <1>2, <2>1, <2>9, <3>2
    <2>6. errorsOf(frames(z)) = errors'
        BY <1>2, <2>1, <2>4, <2>9, ErrorsJoin
    <2>7. got' = EventsIn(frames(z), tokens') /\ errors' = ErrorsIn(frames(z), tokens')
        BY <1>1, <2>5, <2>6, ReadWithTokens
    <2>8. ChunksDoNotMatter'
        BY <2>1, <2>3, <2>4, <2>7, <2>9, ChunksNext
    <2> QED
        BY <2>2, <2>8 DEF ChunkInv
<1> QED
    BY <1>3, <1>4

\* Every step of the tool keeps this invariant.
LEMMA ChunkStep ==
    ASSUME ChunkInv, [Next]_vars
    PROVE  ChunkInv'
<1>1. ASSUME fails, stage \in Running PROVE ChunkInv'
    <2>1. stage' = "failed" /\ UNCHANGED socketVars
        BY <1>1 DEF fails, socketVars
    <2> QED
        BY <2>1, QuietStays
<1>2. CASE Cycle
    <2>1. CASE RequestFails
        BY <1>1, <2>1 DEF RequestFails, Running
    <2>2. CASE CycleEnds
        <3>1. /\ UNCHANGED socketVars /\ stage = "print" /\ got = <<>> /\ errors = 0
              /\ stage' \in {"delay", "summary"}
            BY <2>2 DEF CycleEnds
        <3> QED
            BY <3>1, QuietStays
    <2>3. CASE BeginCycle \/ LoggedIn \/ (\E n \in 1..MaxEndpoints : EndpointsReceived(n))
               \/ DelayEnds \/ LoopEnds
        <3>1. /\ UNCHANGED socketVars
              /\ stage \in {"cycle", "login", "discover", "delay"}
              /\ stage' \in {"login", "discover", "connecting", "cycle", "summary"}
            BY <2>3 DEF BeginCycle, LoggedIn, EndpointsReceived, DelayEnds, LoopEnds
        <3> QED
            BY <3>1, QuietStays
    <2> QED
        BY <1>2, <2>1, <2>2, <2>3 DEF Cycle
<1>3. CASE Connection
    <2>1. ASSUME NEW kinds \in Streams, NEW token, Connects(kinds, token) PROVE ChunkInv'
        BY <2>1, ChunkConnects
    <2>2. ASSUME NEW n \in 1..Len(stream) - taken, Data(n) PROVE ChunkInv'
        BY <2>2, ChunkReads
    <2>3. ASSUME NEW n, BufferExceeded(n) PROVE ChunkInv'
        BY <1>1, <2>3 DEF BufferExceeded, Running
    <2>4. CASE ConnectFails
        BY <1>1, <2>4 DEF ConnectFails, Running
    <2>5. CASE SocketTimesOut \/ ListenWindowElapses \/ SocketCloses
        <3>1. \E r : settle(r, got, errors)
            BY <2>5 DEF SocketTimesOut, ListenWindowElapses, SocketCloses
        <3> QED
            BY <3>1, QuietSettles
    <2> QED
        BY <1>3, <2>1, <2>2, <2>3, <2>4, <2>5 DEF Connection, Arrives
<1>4. CASE Output
    <2>1. CASE EventPrinted \/ ErrorPrinted
        <3>1. stage = "print" /\ stage' = "print" /\ UNCHANGED <<taken, buffer>>
            BY <2>1 DEF EventPrinted, ErrorPrinted
        <3> QED
            BY <3>1 DEF ChunkInv, Quiet, ChunksDoNotMatter, Ended
    <2>2. CASE RunRecorded
        <3>1. UNCHANGED socketVars /\ stage = "summary" /\ stage' = "closed"
            BY <2>2 DEF RunRecorded
        <3> QED
            BY <3>1, QuietStays
    <2> QED
        BY <1>4, <2>1, <2>2 DEF Output
<1>5. CASE Breaks
    <2>1. UNCHANGED socketVars /\ (stage' = "failed" \/ stage' = "killed")
        BY <1>5 DEF Breaks
    <2> QED
        BY <2>1, QuietStays
<1>6. CASE DeadlinePasses
    <2>1. UNCHANGED socketVars /\ stage' = stage /\ tokens' = tokens
        BY <1>6 DEF DeadlinePasses, tokenVars
    <2> QED
        BY <2>1, QuietStays
<1>7. CASE UNCHANGED vars
    <2>1. UNCHANGED socketVars /\ stage' = stage /\ tokens' = tokens
        BY <1>7 DEF vars, tokenVars
    <2> QED
        BY <2>1, QuietStays
<1> QED
    BY <1>2, <1>3, <1>4, <1>5, <1>6, <1>7 DEF Next

\* What a connection has given depends on what has arrived and not on where its chunks end.
THEOREM ChunksAnywhere == Spec => []ChunksDoNotMatter
<1>1. ChunkInv /\ [Next]_vars => ChunkInv'
    BY ChunkStep
<1>2. ChunkInv => ChunksDoNotMatter
    BY DEF ChunkInv
<1> QED
    BY <1>1, <1>2, ChunkInit, PTL DEF Spec

-----------------------------------------------------------------------------
(* How a capture ends *)

\* Printing moves the first of the events that wait behind those that are printed.
LEMMA PrintMoves ==
    ASSUME NEW e, Plain(e), NEW g, Plain(g), g # <<>>
    PROVE  /\ Plain(Append(e, Head(g))) /\ Len(Append(e, Head(g))) = Len(e) + 1
           /\ \A i \in 1..Len(e) : Append(e, Head(g))[i] = e[i]
           /\ Append(e, Head(g))[Len(e) + 1] = g[1]
           /\ Plain(Tail(g)) /\ Len(Tail(g)) = Len(g) - 1 /\ 1 <= Len(g)
           /\ \A i \in 1..Len(g) - 1 : Tail(g)[i] = g[i + 1]
           /\ Append(e, Head(g)) \o Tail(g) = e \o g
<1>1. PICK S : e \in Seq(S)
    BY DEF Plain
<1>2. PICK T : g \in Seq(T)
    BY DEF Plain
<1> DEFINE U == S \cup T
<1>3. e \in Seq(U) /\ g \in Seq(U)
    BY <1>1, <1>2
<1> HIDE DEF U
<1>4. Head(g) \in U /\ Head(g) = g[1] /\ Tail(g) \in Seq(U) /\ Len(Tail(g)) = Len(g) - 1
    BY <1>3
<1>5. Len(g) \in Nat /\ Len(e) \in Nat /\ 1 <= Len(g)
    BY <1>3
<1>6. \A i \in 1..Len(g) - 1 : Tail(g)[i] = g[i + 1]
    BY <1>3
<1>7. /\ Append(e, Head(g)) \in Seq(U) /\ Len(Append(e, Head(g))) = Len(e) + 1
      /\ \A i \in 1..Len(e) : Append(e, Head(g))[i] = e[i]
      /\ Append(e, Head(g))[Len(e) + 1] = g[1]
    BY <1>3, <1>4, <1>5
<1> DEFINE a == Append(e, Head(g))
           t == Tail(g)
<1> HIDE DEF a, t
<1>8. Plain(a) /\ Plain(t)
    BY <1>4, <1>7 DEF Plain, a, t
<1>9. a \o t = e \o g
    <2>1. Follows(a \o t, a, t) /\ Follows(e \o g, e, g)
        BY <1>8, ConcatFollows
    <2>2. /\ Len(a) = Len(e) + 1 /\ Len(t) = Len(g) - 1
          /\ Len(a \o t) = Len(e) + Len(g) /\ Len(e \o g) = Len(e) + Len(g)
          /\ Plain(a \o t) /\ Plain(e \o g)
        BY <1>4, <1>5, <1>7, <2>1 DEF Follows, a, t
    <2>3. ASSUME NEW i \in 1..Len(e) + Len(g) PROVE (a \o t)[i] = (e \o g)[i]
        <3>1. CASE i \in 1..Len(e)
            <4>1. i \in 1..Len(a)
                BY <1>5, <2>2, <3>1
            <4>2. (a \o t)[i] = a[i] /\ (e \o g)[i] = e[i]
                BY <2>1, <3>1, <4>1 DEF Follows
            <4> QED
                BY <1>7, <3>1, <4>2 DEF a
        <3>2. CASE i = Len(e) + 1
            <4>1. i \in 1..Len(a) /\ 1 \in 1..Len(g)
                BY <1>5, <2>2, <3>2
            <4>2. (a \o t)[i] = a[i] /\ (e \o g)[i] = g[1]
                BY <2>1, <3>2, <4>1 DEF Follows
            <4> QED
                BY <1>7, <3>2, <4>2 DEF a
        <3>3. CASE i - Len(e) - 1 \in 1..Len(g) - 1
            <4> DEFINE k == i - Len(e) - 1
            <4>1. /\ k \in 1..Len(t) /\ k \in 1..Len(g) - 1 /\ k + 1 \in 1..Len(g)
                  /\ Len(a) + k = i /\ Len(e) + (k + 1) = i
                BY <1>5, <2>2, <3>3
            <4> HIDE DEF k
            <4>2. (a \o t)[Len(a) + k] = t[k] /\ (e \o g)[Len(e) + (k + 1)] = g[k + 1]
                BY <2>1, <4>1 DEF Follows
            <4> QED
                BY <1>6, <4>1, <4>2 DEF t
        <3>4. \/ i \in 1..Len(e)
              \/ i = Len(e) + 1
              \/ i - Len(e) - 1 \in 1..Len(g) - 1
            BY <1>5
        <3> QED
            BY <3>1, <3>2, <3>3, <3>4
    <2> QED
        BY <2>2, <2>3, SameSequence
<1> QED
    BY <1>4, <1>5, <1>6, <1>7, <1>8, <1>9 DEF a, t

Early == {"cycle", "login", "discover", "connecting", "open", "delay"}

\* As long as there may be more events, fewer have been found than wanted.
CountInv ==
    /\ Plain(events) /\ Plain(got)
    /\ Len(events) + Len(got) <= MaxEvents
    /\ stage \in Early => Len(events) + Len(got) < MaxEvents
    /\ stage = "print" /\ reason = "max-events-reached" => Len(events) + Len(got) = MaxEvents
    /\ capturing /\ stage \in {"summary", "closed"} =>
        \/ late /\ reason = "capture-window-elapsed"
        \/ Len(events) = MaxEvents /\ reason = "max-events-reached"

\* The numbers of events are numbers.
LEMMA CountFacts ==
    ASSUME CountInv
    PROVE  Len(events) \in Nat /\ Len(got) \in Nat /\ MaxEvents \in Nat
BY PlainFacts, BoundAssumption DEF CountInv

\* There are no events before the first cycle.
LEMMA CountInit == Init => CountInv
<1> SUFFICES ASSUME Init PROVE CountInv
    OBVIOUS
<1>1. Plain(<<>>) /\ Len(<<>>) = 0
    BY DEF Plain
<1> QED
    BY <1>1, BoundAssumption DEF Init, CountInv, Early

\* A connection is over with at most as many events as are wanted.
LEMMA CountSettles ==
    ASSUME CountInv, stage \in {"open", "connecting"},
           NEW r, NEW g, NEW e, settle(r, g, e), events' = events,
           Plain(g), Len(events) + Len(g) <= MaxEvents,
           r = "max-events-reached" => Len(events) + Len(g) = MaxEvents
    PROVE  CountInv'
<1>1. Len(events) < MaxEvents /\ Len(events) \in Nat /\ MaxEvents \in Nat
    BY CountFacts DEF CountInv, Early
<1>2. CASE stage' = "connecting" /\ got' = <<>>
    <2>1. Plain(<<>>) /\ Len(<<>>) = 0
        BY DEF Plain
    <2> QED
        BY <1>1, <1>2, <2>1 DEF CountInv, Early
<1>3. CASE stage' = "print" /\ reason' = r /\ got' = g
    BY <1>1, <1>3 DEF CountInv, Early
<1> QED
    BY <1>2, <1>3 DEF settle

\* What is taken of the events that have been found, if there are too many of them.
LEMMA RoomFacts ==
    ASSUME ChunkInv, CountInv, stage = "open", NEW n \in 1..Len(stream) - taken
    PROVE  LET V == eventsOf(frames(arriving(n)))
               room == MaxEvents - Len(events) - Len(got)
           IN /\ Plain(V) /\ Len(V) \in Nat /\ room \in Nat /\ 1 <= room
              /\ room = MaxEvents - (Len(events) + Len(got))
              /\ Len(V) >= room =>
                    /\ Plain(SubSeq(V, 1, room)) /\ Len(SubSeq(V, 1, room)) = room
                    /\ \A i \in 1..room : SubSeq(V, 1, room)[i] = V[i]
<1> DEFINE V == eventsOf(frames(arriving(n)))
           room == MaxEvents - Len(events) - Len(got)
<1>1. Plain(V) /\ Len(V) \in Nat
    <2>1. Plain(arriving(n))
        BY ChunkArrives
    <2> QED
        BY <2>1, FramesPlain, EventsFacts
<1>2. room \in Nat /\ 1 <= room /\ room = MaxEvents - (Len(events) + Len(got))
    BY CountFacts DEF CountInv, Early
<1> HIDE DEF V, room
<1>3. ASSUME Len(V) >= room
      PROVE  /\ Plain(SubSeq(V, 1, room)) /\ Len(SubSeq(V, 1, room)) = room
             /\ \A i \in 1..room : SubSeq(V, 1, room)[i] = V[i]
    BY <1>1, <1>2, <1>3, FirstPiece
<1> QED
    BY <1>1, <1>2, <1>3 DEF V, room

\* Of what a chunk brings, no more is taken than there is room for.
LEMMA CountReads ==
    ASSUME ChunkInv, CountInv, NEW n \in 1..Len(stream) - taken, Data(n)
    PROVE  CountInv'
<1> DEFINE V == eventsOf(frames(arriving(n)))
           room == MaxEvents - Len(events) - Len(got)
<1>1. stage = "open" /\ events' = events
    BY DEF Data, resultVars
<1>2. /\ Plain(V) /\ Len(V) \in Nat /\ room \in Nat /\ 1 <= room
      /\ room = MaxEvents - (Len(events) + Len(got))
      /\ Len(V) >= room => Plain(SubSeq(V, 1, room)) /\ Len(SubSeq(V, 1, room)) = room
    BY <1>1, RoomFacts
<1>3. Len(events) \in Nat /\ Len(got) \in Nat /\ MaxEvents \in Nat /\ Plain(got) /\ Plain(events)
    BY CountFacts DEF CountInv
<1>4. CASE Len(V) >= room
    <2> DEFINE g == got \o SubSeq(V, 1, room)
    <2>1. \E e : settle("max-events-reached", g, e)
        BY <1>4 DEF Data, readFrames
    <2> HIDE DEF V, room
    <2>2. Follows(g, got, SubSeq(V, 1, room))
        BY <1>2, <1>3, <1>4, ConcatFollows
    <2>3. Plain(g) /\ Len(g) = Len(got) + room
        BY <1>2, <1>4, <2>2 DEF Follows
    <2>4. Len(events) + Len(g) = MaxEvents
        BY <1>2, <1>3, <2>3
    <2> HIDE DEF g
    <2> QED
        BY <1>1, <1>3, <2>1, <2>3, <2>4, CountSettles
<1>5. CASE ~ (Len(V) >= room)
    <2>1. got' = got \o V /\ stage' = stage
        BY <1>5 DEF Data, readFrames, readOn
    <2> HIDE DEF V, room
    <2>2. Follows(got', got, V)
        BY <1>2, <1>3, <2>1, ConcatFollows
    <2>3. Plain(got') /\ Len(got') = Len(got) + Len(V)
        BY <2>2 DEF Follows
    <2>4. Len(events) + Len(got') < MaxEvents /\ Len(events) + Len(got') <= MaxEvents
        BY <1>2, <1>3, <1>5, <2>3
    <2> QED
        BY <1>1, <1>3, <2>1, <2>3, <2>4 DEF CountInv, Early
<1> QED
    BY <1>4, <1>5

\* Every step of the tool keeps the counts.
LEMMA CountStep ==
    ASSUME ChunkInv, CountInv, [Next]_vars
    PROVE  CountInv'
<1> USE CountFacts
<1>0. ASSUME fails PROVE CountInv'
    BY <1>0 DEF fails, CountInv, Early, socketVars, resultVars
<1>1. CASE Cycle
    <2>1. CASE RequestFails
        BY <1>0, <2>1 DEF RequestFails
    <2>2. CASE CycleEnds
        <3>1. stage = "print" /\ got = <<>> /\ UNCHANGED <<capturing, late, events, got>>
            BY <2>2 DEF CycleEnds, resultVars, socketVars
        <3>2. Len(got) = 0
            BY <3>1
        <3>3. CASE stage' = "delay"
            <4>1. Len(events) < MaxEvents
                BY <2>2, <3>3 DEF CycleEnds
            <4> QED
                BY <3>1, <3>2, <3>3, <4>1 DEF CountInv, Early
        <3>4. CASE stage' = "summary"
            <4>1. /\ ~ (Len(events) < MaxEvents /\ shouldContinueCaptureAfterCycle)
                  /\ reason' = IF Len(events) >= MaxEvents THEN "max-events-reached"
                               ELSE IF late THEN "capture-window-elapsed" ELSE reason
                BY <2>2, <3>4 DEF CycleEnds
            <4>2. /\ Len(events) <= MaxEvents
                  /\ reason = "max-events-reached" => Len(events) = MaxEvents
                BY <3>1, <3>2 DEF CountInv
            <4>3. ASSUME capturing
                  PROVE  \/ late /\ reason' = "capture-window-elapsed"
                         \/ Len(events) = MaxEvents /\ reason' = "max-events-reached"
                BY <4>1, <4>2, <4>3 DEF shouldContinueCaptureAfterCycle
            <4> QED
                BY <3>1, <3>4, <4>3 DEF CountInv, Early
        <3> QED
            BY <2>2, <3>3, <3>4 DEF CycleEnds
    <2>3. CASE BeginCycle \/ LoggedIn \/ (\E n \in 1..MaxEndpoints : EndpointsReceived(n))
               \/ DelayEnds
        <3>1. /\ UNCHANGED <<events, got>>
              /\ stage \in Early /\ stage' \in {"login", "discover", "connecting", "cycle"}
            BY <2>3 DEF BeginCycle, LoggedIn, EndpointsReceived, DelayEnds, Early, resultVars,
                        socketVars
        <3> QED
            BY <3>1 DEF CountInv, Early
    <2>4. CASE LoopEnds
        <3>1. /\ UNCHANGED <<events, got, late>> /\ late /\ stage' = "summary"
              /\ reason' = "capture-window-elapsed"
            BY <2>4 DEF LoopEnds, resultVars, socketVars
        <3> QED
            BY <3>1 DEF CountInv, Early
    <2> QED
        BY <1>1, <2>1, <2>2, <2>3, <2>4 DEF Cycle
<1>2. CASE Connection
    <2>1. ASSUME NEW kinds, NEW token, Connects(kinds, token) PROVE CountInv'
        <3>1. stage \in Early /\ stage' = "open" /\ UNCHANGED <<events, got>>
            BY <2>1 DEF Connects, resultVars, Early
        <3> QED
            BY <3>1 DEF CountInv, Early
    <2>2. ASSUME NEW n \in 1..Len(stream) - taken, Data(n) PROVE CountInv'
        BY <2>2, CountReads
    <2>3. ASSUME NEW n, BufferExceeded(n) PROVE CountInv'
        BY <1>0, <2>3 DEF BufferExceeded
    <2>4. CASE ConnectFails
        BY <1>0, <2>4 DEF ConnectFails
    <2>5. CASE SocketTimesOut \/ ListenWindowElapses \/ SocketCloses
        <3>1. PICK r \in {"socket-timeout", "listen-window-elapsed", "socket-closed"} :
                    settle(r, got, errors)
            BY <2>5 DEF SocketTimesOut, ListenWindowElapses, SocketCloses
        <3>2. stage \in {"open", "connecting"} /\ events' = events
            BY <2>5 DEF SocketTimesOut, ListenWindowElapses, SocketCloses, resultVars
        <3>3. Plain(got) /\ Len(events) + Len(got) <= MaxEvents /\ r # "max-events-reached"
            BY <3>1 DEF CountInv
        <3> QED
            BY <3>1, <3>2, <3>3, CountSettles
    <2> QED
        BY <1>2, <2>1, <2>2, <2>3, <2>4, <2>5 DEF Connection, Arrives
<1>3. CASE Output
    <2>1. CASE EventPrinted
        <3>1. /\ stage = "print" /\ stage' = "print" /\ got # <<>> /\ reason' = reason
              /\ events' = Append(events, Head(got)) /\ got' = Tail(got)
            BY <2>1 DEF EventPrinted, printGatewayEvent
        <3>2. Plain(events) /\ Plain(got)
            BY DEF CountInv
        <3>3. /\ Plain(events') /\ Plain(got')
              /\ Len(events') = Len(events) + 1 /\ Len(got') = Len(got) - 1
            BY <3>1, <3>2, PrintMoves
        <3>4. Len(events') + Len(got') = Len(events) + Len(got)
            BY <3>3
        <3> QED
            BY <3>1, <3>3, <3>4 DEF CountInv, Early
    <2>2. CASE ErrorPrinted
        BY <2>2 DEF ErrorPrinted, CountInv, Early
    <2>3. CASE RunRecorded
        <3>1. /\ stage = "summary" /\ stage' = "closed"
              /\ UNCHANGED <<events, got, reason, late, capturing>>
            BY <2>3 DEF RunRecorded, socketVars
        <3> QED
            BY <3>1 DEF CountInv, Early
    <2> QED
        BY <1>3, <2>1, <2>2, <2>3 DEF Output
<1>4. CASE Breaks
    <2>1. stage' \in {"failed", "killed"} /\ UNCHANGED <<events, got>>
        BY <1>4 DEF Breaks, socketVars
    <2> QED
        BY <2>1 DEF CountInv, Early
<1>5. CASE DeadlinePasses
    <2>1. late' = TRUE /\ UNCHANGED <<events, got, reason, capturing, stage>>
        BY <1>5 DEF DeadlinePasses, socketVars, resultVars
    <2> QED
        BY <2>1 DEF CountInv, Early
<1>6. CASE UNCHANGED vars
    BY <1>6 DEF vars, socketVars, resultVars, CountInv, Early
<1> QED
    BY <1>1, <1>2, <1>3, <1>4, <1>5, <1>6 DEF Next

\* No connection that closes or times out ends a capture before its time.
THEOREM CaptureCompletes == Spec => []CapturesToTheEnd
<1>1. ChunkInv /\ CountInv /\ [Next]_vars => ChunkInv' /\ CountInv'
    BY ChunkStep, CountStep
<1>2. CountInv => CapturesToTheEnd
    BY DEF CountInv, CapturesToTheEnd
<1>3. Init => ChunkInv /\ CountInv
    BY ChunkInit, CountInit
<1> QED
    BY <1>1, <1>2, <1>3, PTL DEF Spec

-----------------------------------------------------------------------------
(* The numbers of events *)

Ascending(s) == Plain(s) /\ (\A i \in 1..Len(s) : s[i] \in Nat) /\ Increasing(s, Len(s))

\* Of what has arrived, the symbols with a number are in the order of their numbers.
Numbered(b) ==
    /\ \A p \in 1..Len(b) : b[p].kind # "none" => b[p].number \in Nat
    /\ \A p, q \in 1..Len(b) :
            p < q /\ b[p].kind # "none" /\ b[q].kind # "none" => b[p].number < b[q].number

\* The frames of a stream are numbered one after the other.
LEMMA SymbolsNumbered ==
    ASSUME NEW kinds \in Seq(Kinds), NEW token, NEW n \in Nat
    PROVE  LET s == symbols(kinds, token, n) IN
           /\ Numbered(s)
           /\ \A p \in 1..Len(s) : s[p].kind # "none" => s[p].number \in n + 1..n + Len(kinds)
<1> DEFINE s == symbols(kinds, token, n)
           N == Len(kinds)
<1>1. N \in Nat /\ Len(s) = 4 * N
    BY SymbolsFacts
<1>2. ASSUME NEW p \in 1..Len(s), s[p].kind # "none"
      PROVE  \E k \in 1..N : p = 4 * k - 3 /\ s[p].number = n + k
    <2> DEFINE k == (p + 3) \div 4
               wide == kinds[k] = "plain"
    <2>1. p \in 1..4 * N
        BY <1>1
    <2>2. s[p] = CASE p = 4 * k - 3 -> Symbol(IF wide THEN "lead" ELSE "text", kinds[k], token, n + k)
                   [] p = 4 * k - 2 -> Symbol(IF wide THEN "trail" ELSE "text", "none", 0, 0)
                   [] p = 4 * k - 1 -> Symbol("hashTab", "none", 0, 0)
                   [] p = 4 * k     -> Symbol("hash", "none", 0, 0)
        BY <2>1 DEF symbols
    <2>3. k \in 1..N /\ (p = 4 * k - 3 \/ p = 4 * k - 2 \/ p = 4 * k - 1 \/ p = 4 * k)
        <3> HIDE DEF N, s
        <3> QED
            BY <1>1, <2>1
    <2> HIDE DEF k, s, N, wide
    <2>4. CASE p = 4 * k - 3
        <3>1. \E q : s[p] = Symbol(q, kinds[k], token, n + k)
            <4>1. p # 4 * k - 2 /\ p # 4 * k - 1 /\ p # 4 * k
                BY <1>1, <2>3, <2>4
            <4> QED
                BY <2>2, <2>4, <4>1
        <3> QED
            BY <2>3, <2>4, <3>1 DEF Symbol
    <2>5. CASE p # 4 * k - 3
        <3>1. \E q : s[p] = Symbol(q, "none", 0, 0)
            BY <1>1, <2>2, <2>3, <2>5
        <3>2. s[p].kind = "none"
            BY <3>1 DEF Symbol
        <3> QED
            BY <1>2, <3>2
    <2> QED
        BY <2>4, <2>5
<1> HIDE DEF s, N
<1>3. ASSUME NEW p \in 1..Len(s), s[p].kind # "none"
      PROVE  s[p].number \in Nat /\ s[p].number \in n + 1..n + N
    BY <1>1, <1>2, <1>3
<1>4. ASSUME NEW p \in 1..Len(s), NEW q \in 1..Len(s),
             p < q, s[p].kind # "none", s[q].kind # "none"
      PROVE  s[p].number < s[q].number
    <2>1. PICK k \in 1..N : p = 4 * k - 3 /\ s[p].number = n + k
        BY <1>2, <1>4
    <2>2. PICK l \in 1..N : q = 4 * l - 3 /\ s[q].number = n + l
        BY <1>2, <1>4
    <2> QED
        BY <1>1, <1>4, <2>1, <2>2
<1>5. Numbered(s)
    BY <1>3, <1>4 DEF Numbered
<1> QED
    BY <1>3, <1>5 DEF s, N

\* Events come in the order of their numbers, which are those of symbols.
LEMMA EventsAscend ==
    ASSUME NEW b, Plain(b), Numbered(b)
    PROVE  LET v == eventsOf(frames(b)) IN
           /\ Ascending(v)
           /\ \A i \in 1..Len(v) : \E p \in 1..Len(b) : b[p].kind # "none" /\ v[i] = b[p].number
<1> DEFINE fs == frames(b)
           v == eventsOf(fs)
           e == Listing(EventPlaces(fs))
           c == Cardinality(EventPlaces(fs))
           d == Cardinality(ends(b))
           l == Listing(ends(b))
<1>1. Plain(fs) /\ Len(fs) = d /\ d \in Nat /\ Len(b) \in Nat
    BY FramesPlain, EndsFacts
<1>2. /\ c \in Nat /\ Plain(v) /\ Len(v) = c
      /\ \A i \in 1..c : e[i] \in EventPlaces(fs) /\ e[i] \in 1..Len(fs)
      /\ \A i, j \in 1..c : i < j => e[i] < e[j]
      /\ \A i \in 1..c : v[i] = fs[e[i]][1].number
    BY <1>1, EventsFacts
<1>3. ASSUME NEW k \in 1..d
      PROVE  /\ From(b, k) \in 1..Len(b) /\ From(b, k) < l[k] /\ l[k] \in 2..Len(b)
             /\ isEvent(fs[k]) => fs[k][1] = b[From(b, k)] /\ b[From(b, k)].kind # "none"
    <2>1. /\ From(b, k) \in Nat /\ 1 <= From(b, k) /\ From(b, k) < l[k]
          /\ l[k] \in 2..Len(b) /\ Plain(fs[k]) /\ Len(fs[k]) = l[k] - 1 - From(b, k)
          /\ \A i \in 1..Len(fs[k]) : fs[k][i] = b[From(b, k) + i - 1]
        BY FrameFacts
    <2> HIDE DEF fs, v, e, c, d, l
    <2>2. From(b, k) \in 1..Len(b)
        BY <1>1, <2>1
    <2>3. ASSUME isEvent(fs[k]) PROVE fs[k][1] = b[From(b, k)] /\ b[From(b, k)].kind # "none"
        <3>1. fs[k] # <<>> /\ fs[k][1].kind # "none"
            BY <2>3 DEF isEvent
        <3>2. Len(fs[k]) # 0
            <4>1. Plain(<<>>) /\ Len(<<>>) = 0
                BY DEF Plain
            <4> QED
                BY <2>1, <3>1, <4>1, SameSequence
        <3>3. 1 \in 1..Len(fs[k])
            BY <2>1, <3>2, PlainFacts
        <3>4. fs[k][1] = b[From(b, k) + 1 - 1]
            BY <2>1, <3>3
        <3>5. From(b, k) + 1 - 1 = From(b, k)
            BY <2>1
        <3> QED
            BY <3>1, <3>4, <3>5
    <2> QED
        BY <2>1, <2>2, <2>3
<1>4. ASSUME NEW j \in 1..d, NEW k \in 1..d, j < k PROVE From(b, j) < From(b, k)
    <2>1. \A i, m \in 1..d : i < m => l[i] < l[m]
        BY EndsFacts
    <2>2. k - 1 \in 1..d /\ (j = k - 1 \/ j < k - 1) /\ k # 1
        BY <1>1, <1>4
    <2>3. l[j] <= l[k - 1] /\ l[k - 1] \in 2..Len(b) /\ l[j] \in 2..Len(b)
        <3> HIDE DEF l, d
        <3>1. l[k - 1] \in 2..Len(b) /\ l[j] \in 2..Len(b)
            BY <1>3, <2>2
        <3>2. j = k - 1 \/ l[j] < l[k - 1]
            BY <2>1, <2>2
        <3> QED
            BY <1>1, <3>1, <3>2
    <2>4. From(b, k) = l[k - 1] + 1
        BY <2>2 DEF From
    <2> HIDE DEF l, d
    <2>5. From(b, j) < l[j] /\ From(b, j) \in 1..Len(b)
        BY <1>3
    <2> QED
        BY <1>1, <2>3, <2>4, <2>5
<1> HIDE DEF fs, v, e, c, d, l
<1>5. ASSUME NEW i \in 1..c
      PROVE  /\ e[i] \in 1..d /\ From(b, e[i]) \in 1..Len(b) /\ b[From(b, e[i])].kind # "none"
             /\ v[i] = b[From(b, e[i])].number /\ v[i] \in Nat
    <2>1. e[i] \in 1..d /\ isEvent(fs[e[i]])
        BY <1>1, <1>2 DEF EventPlaces
    <2>2. /\ From(b, e[i]) \in 1..Len(b) /\ b[From(b, e[i])].kind # "none"
          /\ fs[e[i]][1] = b[From(b, e[i])]
        BY <1>3, <2>1
    <2> QED
        BY <1>2, <2>1, <2>2 DEF Numbered
<1>6. ASSUME NEW i \in 1..c, NEW j \in 1..c, i < j PROVE v[i] < v[j]
    <2>1. e[i] \in 1..d /\ e[j] \in 1..d /\ e[i] < e[j]
        BY <1>2, <1>5, <1>6
    <2>2. From(b, e[i]) < From(b, e[j])
        BY <1>4, <2>1
    <2> QED
        BY <1>5, <2>2 DEF Numbered
<1>7. Ascending(v)
    BY <1>2, <1>5, <1>6 DEF Ascending, Increasing
<1>8. \A i \in 1..Len(v) : \E p \in 1..Len(b) : b[p].kind # "none" /\ v[i] = b[p].number
    BY <1>2, <1>5
<1> QED
    BY <1>7, <1>8 DEF v, fs

\* s is in order if it is x and then y, which has larger numbers.
LEMMA FollowsAscends ==
    ASSUME NEW s, NEW x, NEW y, Follows(s, x, y), Ascending(x), Ascending(y),
           \A i \in 1..Len(x) : \A j \in 1..Len(y) : x[i] < y[j]
    PROVE  Ascending(s)
<1>1. Len(x) \in Nat /\ Len(y) \in Nat /\ Plain(s) /\ Len(s) = Len(x) + Len(y)
    BY PlainFacts DEF Follows
<1>2. \A i \in 1..Len(s) : i \in 1..Len(x) \/ i - Len(x) \in 1..Len(y)
    BY <1>1
<1>3. \A i \in 1..Len(x) : s[i] = x[i] /\ x[i] \in Nat
    BY DEF Follows, Ascending
<1>4. ASSUME NEW i \in 1..Len(s), i - Len(x) \in 1..Len(y)
      PROVE  s[i] = y[i - Len(x)] /\ y[i - Len(x)] \in Nat
    <2> DEFINE k == i - Len(x)
    <2>1. Len(x) + k = i /\ k \in 1..Len(y)
        BY <1>1, <1>4
    <2> HIDE DEF k
    <2>2. s[Len(x) + k] = y[k] /\ y[k] \in Nat
        BY <2>1 DEF Follows, Ascending
    <2> QED
        BY <2>1, <2>2 DEF k
<1>5. \A i \in 1..Len(s) : s[i] \in Nat
    BY <1>2, <1>3, <1>4
<1>6. ASSUME NEW i \in 1..Len(s), NEW j \in 1..Len(s), i < j PROVE s[i] < s[j]
    <2>1. CASE i \in 1..Len(x) /\ j \in 1..Len(x)
        BY <1>3, <1>6, <2>1 DEF Ascending, Increasing
    <2>2. CASE i \in 1..Len(x) /\ j - Len(x) \in 1..Len(y)
        BY <1>3, <1>4, <2>2
    <2>3. CASE i - Len(x) \in 1..Len(y) /\ j - Len(x) \in 1..Len(y)
        <3>1. i - Len(x) < j - Len(x)
            BY <1>1, <1>6
        <3>2. y[i - Len(x)] < y[j - Len(x)]
            BY <2>3, <3>1 DEF Ascending, Increasing
        <3> QED
            BY <1>4, <2>3, <3>2
    <2>4. ~ (i - Len(x) \in 1..Len(y) /\ j \in 1..Len(x))
        BY <1>1, <1>6
    <2> QED
        BY <1>2, <2>1, <2>2, <2>3, <2>4
<1> QED
    BY <1>1, <1>5, <1>6 DEF Ascending, Increasing

\* The set of the elements of a sequence.
LEMMA ToSetFacts ==
    ASSUME NEW s, Plain(s)
    PROVE  /\ \A i \in 1..Len(s) : s[i] \in ToSet(s)
           /\ \A k \in ToSet(s) : \E i \in 1..Len(s) : s[i] = k
<1>1. DOMAIN s = 1..Len(s)
    BY DEF Plain
<1> QED
    BY <1>1 DEF ToSet

\* The elements of two sequences, one behind the other.
LEMMA FollowsToSet ==
    ASSUME NEW s, NEW x, NEW y, Follows(s, x, y)
    PROVE  ToSet(s) = ToSet(x) \cup ToSet(y)
<1>1. /\ Plain(s) /\ Plain(x) /\ Plain(y) /\ Len(s) = Len(x) + Len(y)
      /\ Len(x) \in Nat /\ Len(y) \in Nat
    BY PlainFacts DEF Follows
<1>2. ASSUME NEW k \in ToSet(s) PROVE k \in ToSet(x) \cup ToSet(y)
    <2>1. PICK i \in 1..Len(s) : s[i] = k
        BY <1>1, ToSetFacts
    <2>2. CASE i \in 1..Len(x)
        <3>1. s[i] = x[i]
            BY <2>2 DEF Follows
        <3> QED
            BY <1>1, <2>1, <2>2, <3>1, ToSetFacts
    <2>3. CASE i - Len(x) \in 1..Len(y)
        <3> DEFINE j == i - Len(x)
        <3>1. j \in 1..Len(y) /\ Len(x) + j = i
            BY <1>1, <2>3
        <3> HIDE DEF j
        <3>2. s[Len(x) + j] = y[j]
            BY <3>1 DEF Follows
        <3> QED
            BY <1>1, <2>1, <3>1, <3>2, ToSetFacts
    <2>4. i \in 1..Len(x) \/ i - Len(x) \in 1..Len(y)
        BY <1>1
    <2> QED
        BY <2>2, <2>3, <2>4
<1>3. ASSUME NEW k \in ToSet(x) PROVE k \in ToSet(s)
    <2>1. PICK i \in 1..Len(x) : x[i] = k
        BY <1>1, ToSetFacts
    <2>2. s[i] = x[i] /\ i \in 1..Len(s)
        BY <1>1 DEF Follows
    <2> QED
        BY <1>1, <2>1, <2>2, ToSetFacts
<1>4. ASSUME NEW k \in ToSet(y) PROVE k \in ToSet(s)
    <2>1. PICK i \in 1..Len(y) : y[i] = k
        BY <1>1, ToSetFacts
    <2>2. s[Len(x) + i] = y[i] /\ Len(x) + i \in 1..Len(s)
        BY <1>1 DEF Follows
    <2> QED
        BY <1>1, <2>1, <2>2, ToSetFacts
<1> QED
    BY <1>2, <1>3, <1>4

\* Every number of R is one of s, or s is full and it comes later.
Told(R, s) ==
    \A k \in R : /\ k \in Nat
                 /\ \/ k \in ToSet(s)
                    \/ Len(s) = MaxEvents /\ \A m \in ToSet(s) : m < k

\* e and g are what there was; more has come, and of all of it, w, h is kept.
LEMMA MoreIsTold ==
    ASSUME NEW e, Ascending(e), NEW g, Plain(g), NEW v, Plain(v), NEW w, Ascending(w),
           Follows(w, g, v), \A m \in ToSet(e) : \A k \in ToSet(w) : m < k,
           NEW h, Plain(h), Len(g) <= Len(h), Len(h) <= Len(w),
           \A i \in 1..Len(h) : h[i] = w[i],
           Len(h) = Len(w) \/ Len(e) + Len(h) = MaxEvents,
           NEW R, Told(R, e \o g), Len(e) + Len(g) # MaxEvents
    PROVE  /\ Ascending(e \o h) /\ Told(R \cup ToSet(v), e \o h)
           /\ ToSet(e \o h) \subseteq ToSet(e) \cup ToSet(w)
<1>1. /\ Len(e) \in Nat /\ Len(g) \in Nat /\ Len(v) \in Nat /\ Len(w) \in Nat /\ Len(h) \in Nat
      /\ Plain(e) /\ Plain(w) /\ Len(w) = Len(g) + Len(v)
    BY PlainFacts DEF Ascending, Follows
<1>2. \A i \in 1..Len(h) : i \in 1..Len(w)
    BY <1>1
<1>3. Ascending(h)
    BY <1>2 DEF Ascending, Increasing
<1>4. ToSet(h) \subseteq ToSet(w)
    <2>1. ASSUME NEW k \in ToSet(h) PROVE k \in ToSet(w)
        <3>1. PICK i \in 1..Len(h) : h[i] = k
            BY ToSetFacts
        <3> QED
            BY <1>1, <1>2, <3>1, ToSetFacts
    <2> QED
        BY <2>1
<1>5. Follows(e \o h, e, h) /\ Follows(e \o g, e, g)
    BY <1>1, ConcatFollows
<1>6. \A i \in 1..Len(e) : \A j \in 1..Len(h) : e[i] < h[j]
    <2>1. (\A i \in 1..Len(e) : e[i] \in ToSet(e)) /\ (\A j \in 1..Len(h) : h[j] \in ToSet(w))
        BY <1>1, <1>4, ToSetFacts
    <2> QED
        BY <2>1
<1>7. Ascending(e \o h)
    BY <1>3, <1>5, <1>6, FollowsAscends
<1>8. /\ ToSet(e \o h) = ToSet(e) \cup ToSet(h) /\ ToSet(e \o g) = ToSet(e) \cup ToSet(g)
      /\ ToSet(w) = ToSet(g) \cup ToSet(v)
    BY <1>5, FollowsToSet
<1>9. ToSet(g) \subseteq ToSet(h)
    <2>1. ASSUME NEW k \in ToSet(g) PROVE k \in ToSet(h)
        <3>1. PICK i \in 1..Len(g) : g[i] = k
            BY ToSetFacts
        <3>2. i \in 1..Len(h) /\ w[i] = g[i]
            BY <1>1 DEF Follows
        <3> QED
            BY <3>1, <3>2, ToSetFacts
    <2> QED
        BY <2>1
<1>10. Len(e \o h) = Len(e) + Len(h) /\ Len(e \o g) = Len(e) + Len(g)
    BY <1>5 DEF Follows
<1>11. ASSUME NEW k \in R PROVE k \in Nat /\ k \in ToSet(e \o h)
    <2>1. k \in Nat /\ k \in ToSet(e \o g)
        BY <1>10 DEF Told
    <2> QED
        BY <1>8, <1>9, <2>1
<1>12. ASSUME NEW k \in ToSet(v)
       PROVE  /\ k \in Nat
              /\ \/ k \in ToSet(e \o h)
                 \/ Len(e \o h) = MaxEvents /\ \A m \in ToSet(e \o h) : m < k
    <2>1. PICK i \in 1..Len(w) : w[i] = k
        BY <1>1, <1>8, ToSetFacts
    <2>2. k \in Nat
        BY <2>1 DEF Ascending
    <2>3. CASE i <= Len(h)
        <3>1. i \in 1..Len(h)
            BY <1>1, <2>3
        <3>2. k \in ToSet(h)
            BY <2>1, <3>1, ToSetFacts
        <3> QED
            BY <1>8, <2>2, <3>2
    <2>4. CASE ~ (i <= Len(h))
        <3>1. Len(e \o h) = MaxEvents
            BY <1>1, <1>10, <2>4
        <3>2. ASSUME NEW m \in ToSet(h) PROVE m < k
            <4>1. PICK j \in 1..Len(h) : h[j] = m
                BY ToSetFacts
            <4>2. j \in 1..Len(w) /\ j < i /\ w[j] = m
                BY <1>1, <2>4, <4>1
            <4> QED
                BY <2>1, <4>2 DEF Ascending, Increasing
        <3>3. ASSUME NEW m \in ToSet(e) PROVE m < k
            BY <1>8
        <3> QED
            BY <1>8, <2>2, <3>1, <3>2, <3>3
    <2> QED
        BY <2>3, <2>4
<1>13. Told(R \cup ToSet(v), e \o h)
    BY <1>11, <1>12 DEF Told
<1> QED
    BY <1>4, <1>7, <1>8, <1>13

\* What has been found and told, printed or not, is in the order of the frames; a new stream
\* only has later ones.
NumbersInv ==
    /\ sent \in Nat
    /\ Ascending(events \o got)
    /\ \A m \in ToSet(events \o got) : m <= sent
    /\ Told(readable, events \o got)
    /\ stage = "open" =>
        /\ Numbered(stream)
        /\ \A p \in 1..Len(stream) : stream[p].kind # "none" =>
                stream[p].number <= sent /\ \A m \in ToSet(events) : m < stream[p].number

\* Before the first cycle nothing is sent.
LEMMA NumbersInit == Init => NumbersInv
<1> SUFFICES ASSUME Init PROVE NumbersInv
    OBVIOUS
<1>1. Plain(<<>>) /\ Len(<<>>) = 0
    BY DEF Plain
<1>2. Follows(<<>> \o <<>>, <<>>, <<>>)
    BY <1>1, ConcatFollows
<1>3. Plain(<<>> \o <<>>) /\ Len(<<>> \o <<>>) = 0
    BY <1>1, <1>2 DEF Follows
<1>4. ToSet(<<>> \o <<>>) = {}
    BY <1>3, ToSetFacts
<1> QED
    BY <1>3, <1>4 DEF Init, NumbersInv, Ascending, Increasing, Told

\* Nothing is found and nothing is sent.
LEMMA NumbersStay ==
    ASSUME NumbersInv, events' \o got' = events \o got, UNCHANGED <<sent, readable>>,
           \/ stage' # "open"
           \/ stage = "open" /\ UNCHANGED <<stream, events>>
    PROVE  NumbersInv'
BY DEF NumbersInv

\* The frames of a new connection have later numbers than all before.
LEMMA NumbersConnect ==
    ASSUME CountInv, NumbersInv, NEW kinds \in Streams, NEW token, Connects(kinds, token)
    PROVE  NumbersInv'
<1>1. kinds \in Seq(Kinds) /\ Len(kinds) \in Nat
    BY StreamAssumption
<1>2. /\ stream' = symbols(kinds, token, sent) /\ sent' = sent + Len(kinds)
      /\ UNCHANGED <<events, got, readable>>
    BY DEF Connects, resultVars
<1>3. sent \in Nat
    BY DEF NumbersInv
<1>4. /\ Numbered(stream')
      /\ \A p \in 1..Len(stream') : stream'[p].kind # "none" =>
            stream'[p].number \in sent + 1..sent + Len(kinds)
    BY <1>1, <1>2, <1>3, SymbolsNumbered
<1>5. \A m \in ToSet(events \o got) : m <= sent /\ m \in Nat
    <2>1. Plain(events \o got) /\ \A i \in 1..Len(events \o got) : (events \o got)[i] \in Nat
        BY DEF NumbersInv, Ascending
    <2>2. \A m \in ToSet(events \o got) : m \in Nat
        BY <2>1, ToSetFacts
    <2> QED
        BY <2>2 DEF NumbersInv
<1>6. ToSet(events) \subseteq ToSet(events \o got)
    <2>1. Plain(events) /\ Plain(got)
        BY DEF CountInv
    <2>2. Follows(events \o got, events, got)
        BY <2>1, ConcatFollows
    <2> QED
        BY <2>2, FollowsToSet
<1>7. sent' \in Nat /\ \A m \in ToSet(events \o got) : m <= sent'
    BY <1>1, <1>2, <1>3, <1>5
<1>8. ASSUME NEW p \in 1..Len(stream'), stream'[p].kind # "none"
      PROVE  stream'[p].number <= sent' /\ \A m \in ToSet(events) : m < stream'[p].number
    <2>1. stream'[p].number \in sent + 1..sent + Len(kinds)
        BY <1>4, <1>8
    <2>2. \A m \in ToSet(events) : m <= sent /\ m \in Nat
        BY <1>5, <1>6
    <2> QED
        BY <1>1, <1>2, <1>3, <2>1, <2>2
<1> QED
    BY <1>2, <1>4, <1>7, <1>8 DEF NumbersInv

\* The events a chunk brings come behind those before and in the order of the stream.
LEMMA NumbersRead ==
    ASSUME ChunkInv, CountInv, NumbersInv, NEW n \in 1..Len(stream) - taken, Data(n)
    PROVE  NumbersInv'
<1> DEFINE x == SubSeq(stream, 1, taken)
           z == SubSeq(stream, 1, taken + n)
           y == arriving(n)
           u == undamaged(y)
           V == eventsOf(frames(y))
           W == eventsOf(frames(z))
           room == MaxEvents - Len(events) - Len(got)
<1>1. /\ stage = "open" /\ UNCHANGED <<events, sent>> /\ readable' = readable \cup ToSet(V)
      /\ Plain(events) /\ Plain(got) /\ Len(events) \in Nat /\ Len(got) \in Nat
      /\ MaxEvents \in Nat
    BY CountFacts DEF Data, resultVars, readFrames, CountInv
<1>2. /\ Splits(z, x, u) /\ Plain(y) /\ n \in Nat /\ taken \in Nat /\ taken + n <= Len(stream)
      /\ got = eventsOf(frames(x)) /\ Plain(stream)
    BY <1>1, ChunkArrives DEF ChunkInv, Quiet
<1>3. Plain(z) /\ Len(z) = taken + n /\ \A i \in 1..taken + n : z[i] = stream[i]
    <2> DEFINE l == taken + n
    <2>1. l \in Nat /\ l <= Len(stream)
        BY <1>2
    <2> HIDE DEF l, x, y, u, V, W, room
    <2>2. /\ Plain(SubSeq(stream, 1, l)) /\ Len(SubSeq(stream, 1, l)) = l
          /\ \A i \in 1..l : SubSeq(stream, 1, l)[i] = stream[i]
        BY <1>2, <2>1, FirstPiece
    <2> QED
        BY <2>2 DEF l
<1>4. /\ Plain(V) /\ Len(V) \in Nat /\ room \in Nat /\ 1 <= room
      /\ room = MaxEvents - (Len(events) + Len(got))
      /\ Len(V) >= room => /\ Plain(SubSeq(V, 1, room)) /\ Len(SubSeq(V, 1, room)) = room
                           /\ \A i \in 1..room : SubSeq(V, 1, room)[i] = V[i]
    BY <1>1, RoomFacts
<1>5. Follows(W, got, V)
    <2> HIDE DEF x, y, z, room
    <2>1. Alike(y, u)
        BY <1>2, UndamagedFacts
    <2> HIDE DEF u
    <2>2. Follows(frames(z), frames(x), frames(u))
        BY <1>2, FramesJoin
    <2>3. eventsOf(frames(y)) = eventsOf(frames(u))
        BY <2>1, AlikeEvents
    <2> QED
        BY <1>2, <2>2, <2>3, EventsJoin
<1>6. Len(stream) \in Nat /\ \A i \in 1..Len(z) : i \in 1..Len(stream) /\ z[i] = stream[i]
    <2>1. Len(stream) \in Nat
        BY <1>2, PlainFacts
    <2> HIDE DEF x, y, z, u, V, W, room
    <2> QED
        BY <1>2, <1>3, <2>1
<1> HIDE DEF x, y, z, u, room
<1>7. Numbered(z)
    BY <1>1, <1>6 DEF NumbersInv, Numbered
<1>8. /\ Ascending(W)
      /\ \A i \in 1..Len(W) : \E p \in 1..Len(z) : z[p].kind # "none" /\ W[i] = z[p].number
    BY <1>3, <1>7, EventsAscend
<1> HIDE DEF V, W
<1>9. \A k \in ToSet(W) : k <= sent /\ \A m \in ToSet(events) : m < k
    <2> SUFFICES ASSUME NEW k \in ToSet(W) PROVE k <= sent /\ \A m \in ToSet(events) : m < k
        OBVIOUS
    <2>1. PICK i \in 1..Len(W) : W[i] = k
        BY <1>8, ToSetFacts DEF Ascending
    <2>2. PICK p \in 1..Len(stream) : stream[p].kind # "none" /\ k = stream[p].number
        BY <1>6, <1>8, <2>1
    <2> QED
        BY <1>1, <2>2 DEF NumbersInv
<1>10. Ascending(events)
    <2>1. Follows(events \o got, events, got)
        BY <1>1, ConcatFollows
    <2>2. \A i \in 1..Len(events) : i \in 1..Len(events \o got) /\ (events \o got)[i] = events[i]
        BY <1>1, <2>1 DEF Follows
    <2> QED
        BY <1>1, <2>2 DEF NumbersInv, Ascending, Increasing
<1>11. Told(readable, events \o got) /\ Len(events) + Len(got) # MaxEvents
    <2>1. Len(events) + Len(got) # MaxEvents
        BY <1>1, <1>4
    <2> QED
        BY <2>1 DEF NumbersInv
<1>12. /\ Plain(got') /\ Len(got) <= Len(got') /\ Len(got') <= Len(W)
       /\ \A i \in 1..Len(got') : got'[i] = W[i]
       /\ Len(got') = Len(W) \/ Len(events) + Len(got') = MaxEvents
    <2>1. Plain(W) /\ Len(W) = Len(got) + Len(V)
        BY <1>5 DEF Follows
    <2>2. CASE Len(V) >= room
        <3>1. got' = got \o SubSeq(V, 1, room)
            <4>1. \E r, e : settle(r, got \o SubSeq(V, 1, room), e)
                BY <2>2 DEF Data, readFrames, V, y, room
            <4> QED
                BY <4>1 DEF settle
        <3> DEFINE s == SubSeq(V, 1, room)
        <3>2. Plain(s) /\ Len(s) = room /\ \A i \in 1..room : s[i] = V[i]
            BY <1>4, <2>2
        <3> HIDE DEF s
        <3>3. Follows(got', got, s)
            BY <1>1, <3>1, <3>2, ConcatFollows DEF s
        <3>4. Plain(got') /\ Len(got') = Len(got) + room
            BY <3>2, <3>3 DEF Follows
        <3>5. /\ Len(got) <= Len(got') /\ Len(got') <= Len(W) /\ Len(events) + Len(got') = MaxEvents
            <4>1. /\ room \in Nat /\ room = MaxEvents - (Len(events) + Len(got))
                  /\ Len(events) \in Nat /\ Len(got) \in Nat /\ MaxEvents \in Nat
                BY <1>1, <1>4
            <4>2. Len(V) \in Nat /\ Len(W) = Len(got) + Len(V) /\ room <= Len(V)
                BY <1>4, <2>1, <2>2
            <4> QED
                BY <3>4, <4>1, <4>2
        <3>6. ASSUME NEW i \in 1..Len(got') PROVE got'[i] = W[i]
            <4>1. CASE i \in 1..Len(got)
                BY <1>5, <3>3, <4>1 DEF Follows
            <4>2. CASE i - Len(got) \in 1..room
                <5> DEFINE k == i - Len(got)
                <5>1. Len(got) + k = i /\ k \in 1..Len(s) /\ k \in 1..Len(V) /\ k \in 1..room
                    BY <1>1, <1>4, <2>2, <3>2, <4>2
                <5> HIDE DEF k
                <5>2. got'[Len(got) + k] = s[k] /\ W[Len(got) + k] = V[k]
                    BY <1>5, <3>3, <5>1 DEF Follows
                <5> QED
                    BY <3>2, <5>1, <5>2
            <4>3. i \in 1..Len(got) \/ i - Len(got) \in 1..room
                BY <1>1, <1>4, <3>4
            <4> QED
                BY <4>1, <4>2, <4>3
        <3> QED
            BY <3>4, <3>5, <3>6
    <2>3. CASE ~ (Len(V) >= room)
        <3>1. got' = got \o V
            BY <2>3 DEF Data, readFrames, readOn, V, y, room
        <3>2. W = got \o V
            BY <1>5, FollowsIsJoined
        <3> QED
            BY <1>1, <1>4, <2>1, <3>1, <3>2
    <2> QED
        BY <2>2, <2>3
<1>13. /\ Ascending(events \o got') /\ Told(readable \cup ToSet(V), events \o got')
       /\ ToSet(events \o got') \subseteq ToSet(events) \cup ToSet(W)
    BY <1>1, <1>4, <1>5, <1>8, <1>9, <1>10, <1>11, <1>12, MoreIsTold
<1>14. \A m \in ToSet(events \o got') : m <= sent
    <2>1. ToSet(events) \subseteq ToSet(events \o got)
        BY <1>1, ConcatFollows, FollowsToSet
    <2> QED
        BY <1>9, <1>13, <2>1 DEF NumbersInv
<1>15. stage' = "open" => stream' = stream
    <2>1. \/ stage' \in {"connecting", "print"}
          \/ stream' = stream
        BY DEF Data, readFrames, readOn, settle
    <2> QED
        BY <2>1
<1> QED
    BY <1>1, <1>13, <1>14, <1>15 DEF NumbersInv

\* Every step of the tool keeps the order of the numbers.
LEMMA NumbersStep ==
    ASSUME ChunkInv, CountInv, NumbersInv, [Next]_vars
    PROVE  NumbersInv'
<1>0. ASSUME fails PROVE NumbersInv'
    <2>1. stage' # "open" /\ UNCHANGED <<events, got, sent, readable>>
        BY <1>0 DEF fails, socketVars, resultVars
    <2> QED
        BY <2>1, NumbersStay
<1>1. CASE Cycle
    <2>1. CASE RequestFails
        BY <1>0, <2>1 DEF RequestFails
    <2>2. CASE BeginCycle \/ LoggedIn \/ (\E n \in 1..MaxEndpoints : EndpointsReceived(n))
               \/ CycleEnds \/ DelayEnds \/ LoopEnds
        <3>1. stage' # "open" /\ UNCHANGED <<events, got, sent, readable>>
            BY <2>2 DEF BeginCycle, LoggedIn, EndpointsReceived, CycleEnds, DelayEnds, LoopEnds,
                        socketVars, resultVars
        <3> QED
            BY <3>1, NumbersStay
    <2> QED
        BY <1>1, <2>1, <2>2 DEF Cycle
<1>2. CASE Connection
    <2>1. ASSUME NEW kinds \in Streams, NEW token, Connects(kinds, token) PROVE NumbersInv'
        BY <2>1, NumbersConnect
    <2>2. ASSUME NEW n \in 1..Len(stream) - taken, Data(n) PROVE NumbersInv'
        BY <2>2, NumbersRead
    <2>3. ASSUME NEW n, BufferExceeded(n) PROVE NumbersInv'
        BY <1>0, <2>3 DEF BufferExceeded
    <2>4. CASE ConnectFails
        BY <1>0, <2>4 DEF ConnectFails
    <2>5. CASE SocketTimesOut \/ ListenWindowElapses \/ SocketCloses
        <3>1. \E r : settle(r, got, errors)
            BY <2>5 DEF SocketTimesOut, ListenWindowElapses, SocketCloses
        <3>2. UNCHANGED <<events, sent, readable>>
            BY <2>5 DEF SocketTimesOut, ListenWindowElapses, SocketCloses, resultVars
        <3>3. stage' # "open" /\ got' = got
            BY <3>1 DEF settle
        <3> QED
            BY <3>2, <3>3, NumbersStay
    <2> QED
        BY <1>2, <2>1, <2>2, <2>3, <2>4, <2>5 DEF Connection, Arrives
<1>3. CASE Output
    <2>1. CASE EventPrinted
        <3>1. /\ stage' = "print" /\ got # <<>> /\ UNCHANGED <<sent, readable>>
              /\ events' = Append(events, Head(got)) /\ got' = Tail(got)
            BY <2>1 DEF EventPrinted, printGatewayEvent
        <3>2. Plain(events) /\ Plain(got)
            BY DEF CountInv
        <3>3. events' \o got' = events \o got
            BY <3>1, <3>2, PrintMoves
        <3> QED
            BY <3>1, <3>3, NumbersStay
    <2>2. CASE ErrorPrinted \/ RunRecorded
        <3>1. stage' # "open" /\ UNCHANGED <<events, got, sent, readable>>
            BY <2>2 DEF ErrorPrinted, RunRecorded, socketVars
        <3> QED
            BY <3>1, NumbersStay
    <2> QED
        BY <1>3, <2>1, <2>2 DEF Output
<1>4. CASE Breaks
    <2>1. stage' # "open" /\ UNCHANGED <<events, got, sent, readable>>
        BY <1>4 DEF Breaks, socketVars
    <2> QED
        BY <2>1, NumbersStay
<1>5. CASE DeadlinePasses \/ UNCHANGED vars
    <2>1. UNCHANGED <<stage, stream, events, got, sent, readable>>
        BY <1>5 DEF DeadlinePasses, vars, socketVars, resultVars
    <2>2. events' \o got' = events \o got /\ (stage' # "open" \/ stage = "open")
        BY <2>1
    <2> QED
        BY <2>1, <2>2, NumbersStay
<1> QED
    BY <1>1, <1>2, <1>3, <1>4, <1>5 DEF Next

-----------------------------------------------------------------------------
(* The file *)

\* The elements of a sequence with one more.
LEMMA AppendFacts ==
    ASSUME NEW f, Plain(f), NEW e
    PROVE  LET g == Append(f, e) IN
           /\ Plain(g) /\ Len(g) = Len(f) + 1 /\ Len(f) \in Nat
           /\ \A i \in 1..Len(f) : g[i] = f[i]
           /\ g[Len(f) + 1] = e
<1>1. PICK S : f \in Seq(S)
    BY DEF Plain
<1>2. f \in Seq(S \cup {e}) /\ e \in S \cup {e}
    BY <1>1
<1> DEFINE T == S \cup {e}
<1> HIDE DEF T
<1>3. f \in Seq(T) /\ e \in T
    BY <1>2 DEF T
<1>4. /\ Append(f, e) \in Seq(T) /\ Len(Append(f, e)) = Len(f) + 1 /\ Len(f) \in Nat
      /\ \A i \in 1..Len(f) : Append(f, e)[i] = f[i]
      /\ Append(f, e)[Len(f) + 1] = e
    BY <1>3
<1> QED
    BY <1>4 DEF Plain

OfIn(f, kind) == {i \in 1..Len(f) : f[i].kind = kind}
UpTo(S, i) == {j \in S : j <= i}

\* There are n entries of a kind, and they are numbered.
Indexed(f, kind, n) ==
    /\ n \in Nat /\ Cardinality(OfIn(f, kind)) = n
    /\ \A i \in OfIn(f, kind) : f[i].index = Cardinality(UpTo(OfIn(f, kind), i))

\* The entries of a kind when one is appended.
LEMMA OfAppended ==
    ASSUME NEW f, Plain(f), NEW e, NEW kind
    PROVE  /\ e.kind # kind => OfIn(Append(f, e), kind) = OfIn(f, kind)
           /\ e.kind = kind => OfIn(Append(f, e), kind) = OfIn(f, kind) \cup {Len(f) + 1}
<1> DEFINE g == Append(f, e)
<1>1. /\ Len(g) = Len(f) + 1 /\ Len(f) \in Nat /\ \A i \in 1..Len(f) : g[i] = f[i]
      /\ g[Len(f) + 1] = e
    BY AppendFacts
<1> HIDE DEF g
<1>2. \A i \in 1..Len(g) : i \in 1..Len(f) \/ i = Len(f) + 1
    BY <1>1
<1>3. /\ \A i \in 1..Len(f) : i \in 1..Len(g)
      /\ Len(f) + 1 \in 1..Len(g)
    BY <1>1
<1> QED
    BY <1>1, <1>2, <1>3 DEF OfIn, g

\* An entry that is appended has to have the next number of its kind.
LEMMA IndexedAppend ==
    ASSUME NEW f, Plain(f), NEW e, NEW kind, NEW n, Indexed(f, kind, n)
    PROVE  /\ e.kind # kind => Indexed(Append(f, e), kind, n)
           /\ e.kind = kind /\ e.index = n + 1 => Indexed(Append(f, e), kind, n + 1)
<1> DEFINE g == Append(f, e)
           L == Len(f)
           O == OfIn(f, kind)
<1>1. /\ Len(g) = L + 1 /\ L \in Nat /\ \A i \in 1..L : g[i] = f[i]
      /\ g[L + 1] = e
    BY AppendFacts
<1>2. /\ e.kind # kind => OfIn(g, kind) = O
      /\ e.kind = kind => OfIn(g, kind) = O \cup {L + 1}
    BY OfAppended
<1>3. /\ n \in Nat /\ Cardinality(O) = n
      /\ \A i \in O : f[i].index = Cardinality(UpTo(O, i))
    BY DEF Indexed
<1>4. \A i \in O : i \in 1..L
    BY DEF OfIn
<1> HIDE DEF g, L, O
<1>5. \A i \in O : g[i] = f[i]
    BY <1>1, <1>4
<1>6. ASSUME e.kind # kind PROVE Indexed(g, kind, n)
    BY <1>2, <1>3, <1>5, <1>6 DEF Indexed
<1>7. ASSUME e.kind = kind, e.index = n + 1 PROVE Indexed(g, kind, n + 1)
    <2> DEFINE P == O \cup {L + 1}
    <2>1. OfIn(g, kind) = P /\ P \in SUBSET (1..L + 1) /\ L + 1 \in P
        <3>1. \A i \in O : i \in 1..L + 1
            BY <1>1, <1>4
        <3>2. L + 1 \in 1..L + 1
            BY <1>1
        <3> QED
            BY <1>2, <1>7, <3>1, <3>2
    <2>2. L + 1 \notin O
        BY <1>1, <1>4
    <2>3. P \ {L + 1} = O
        BY <2>2
    <2> HIDE DEF P
    <2>4. Cardinality(P) = n + 1
        <3>1. Cardinality(P) = Cardinality(P \ {L + 1}) + 1
            BY <1>1, <2>1, WithoutLargest
        <3> QED
            BY <1>3, <2>3, <3>1
    <2>5. ASSUME NEW i \in O PROVE g[i].index = Cardinality(UpTo(P, i))
        <3>1. ~ (L + 1 <= i)
            BY <1>1, <1>4
        <3>2. UpTo(P, i) = UpTo(O, i)
            BY <3>1 DEF UpTo, P
        <3> QED
            BY <1>3, <1>5, <3>2
    <2>6. g[L + 1].index = Cardinality(UpTo(P, L + 1))
        <3>1. \A i \in P : i <= L + 1
            BY <1>1, <2>1
        <3>2. UpTo(P, L + 1) = P
            BY <3>1 DEF UpTo
        <3> QED
            BY <1>1, <1>7, <2>4, <3>2
    <2>7. n + 1 \in Nat
        BY <1>3
    <2>8. \A i \in P : i \in O \/ i = L + 1
        BY DEF P
    <2> QED
        BY <2>1, <2>4, <2>5, <2>6, <2>7, <2>8 DEF Indexed
<1> QED
    BY <1>6, <1>7 DEF g

NumbersOf(f) == {f[i].number : i \in OfIn(f, "event")}
InOrder(f) == \A i, j \in OfIn(f, "event") : i < j => f[i].number < f[j].number

\* The file tells of the events ev and of n errors.
FileTells(f, ev, n) ==
    /\ Plain(f) /\ Indexed(f, "event", Len(ev)) /\ Indexed(f, "frame-error", n)
    /\ NumbersOf(f) = ToSet(ev) /\ InOrder(f)

\* An event that is appended has to come after those before.
LEMMA TellsEvent ==
    ASSUME NEW f, NEW ev, Plain(ev), NEW n, FileTells(f, ev, n),
           NEW k \in Nat, \A m \in ToSet(ev) : m < k
    PROVE  FileTells(Append(f, entry("event", Len(ev) + 1, k)), Append(ev, k), n)
<1> DEFINE e == entry("event", Len(ev) + 1, k)
           g == Append(f, e)
           L == Len(f)
<1>1. e.kind = "event" /\ e.index = Len(ev) + 1 /\ e.number = k
    BY DEF entry
<1> HIDE DEF e
<1>2. Plain(f)
    BY DEF FileTells
<1>3. /\ Plain(g) /\ L \in Nat /\ \A i \in 1..L : g[i] = f[i]
      /\ g[L + 1] = e
    BY <1>2, AppendFacts
<1>4. Len(Append(ev, k)) = Len(ev) + 1 /\ ToSet(Append(ev, k)) = ToSet(ev) \cup {k}
    <2> DEFINE a == Append(ev, k)
    <2>1. /\ Plain(a) /\ Len(a) = Len(ev) + 1 /\ Len(ev) \in Nat
          /\ \A i \in 1..Len(ev) : a[i] = ev[i]
          /\ a[Len(ev) + 1] = k
        BY AppendFacts
    <2> HIDE DEF a
    <2>2. \A i \in 1..Len(a) : i \in 1..Len(ev) \/ i = Len(ev) + 1
        BY <2>1
    <2>3. (\A i \in 1..Len(ev) : i \in 1..Len(a)) /\ Len(ev) + 1 \in 1..Len(a)
        BY <2>1
    <2>4. \A x \in ToSet(a) : x \in ToSet(ev) \cup {k}
        BY <2>1, <2>2, ToSetFacts
    <2>5. \A x \in ToSet(ev) : x \in ToSet(a)
        BY <2>1, <2>3, ToSetFacts
    <2>6. k \in ToSet(a)
        BY <2>1, <2>3, ToSetFacts
    <2>7. ToSet(a) = ToSet(ev) \cup {k}
        BY <2>4, <2>5, <2>6
    <2> QED
        BY <2>1, <2>7 DEF a
<1>5. Indexed(g, "event", Len(ev) + 1) /\ Indexed(g, "frame-error", n)
    BY <1>1, <1>2, IndexedAppend DEF FileTells
<1>6. OfIn(g, "event") = OfIn(f, "event") \cup {L + 1}
    BY <1>1, <1>2, OfAppended
<1>7. \A i \in OfIn(f, "event") : i \in 1..L /\ f[i].number \in ToSet(ev)
    <2>1. \A i \in OfIn(f, "event") : i \in 1..L
        BY DEF OfIn
    <2> QED
        BY <2>1 DEF FileTells, NumbersOf
<1> HIDE DEF g, L
<1>8. \A i \in OfIn(f, "event") : g[i].number = f[i].number
    BY <1>3, <1>7
<1>9. NumbersOf(g) = NumbersOf(f) \cup {k}
    <2>1. \A x \in NumbersOf(g) : x \in NumbersOf(f) \cup {k}
        BY <1>1, <1>3, <1>6, <1>8 DEF NumbersOf
    <2>2. \A x \in NumbersOf(f) : x \in NumbersOf(g)
        BY <1>6, <1>8 DEF NumbersOf
    <2>3. k \in NumbersOf(g)
        BY <1>1, <1>3, <1>6 DEF NumbersOf
    <2> QED
        BY <2>1, <2>2, <2>3
<1>10. InOrder(g)
    <2> SUFFICES ASSUME NEW i \in OfIn(g, "event"), NEW j \in OfIn(g, "event"), i < j
                 PROVE  g[i].number < g[j].number
        BY DEF InOrder
    <2>1. CASE i \in OfIn(f, "event") /\ j \in OfIn(f, "event")
        BY <1>8, <2>1 DEF FileTells, InOrder
    <2>2. CASE i \in OfIn(f, "event") /\ j = L + 1
        BY <1>1, <1>3, <1>7, <1>8, <2>2
    <2>3. i # L + 1
        <3>1. j \in 1..L \/ j = L + 1
            BY <1>6, <1>7
        <3> QED
            BY <1>3, <3>1
    <2> QED
        BY <1>6, <2>1, <2>2, <2>3
<1> QED
    BY <1>3, <1>4, <1>5, <1>9, <1>10 DEF FileTells, g, e

\* An entry that is no event leaves those alone.
LEMMA TellsOther ==
    ASSUME NEW f, NEW ev, NEW n, FileTells(f, ev, n), NEW e, e.kind # "event"
    PROVE  /\ e.kind # "frame-error" => FileTells(Append(f, e), ev, n)
           /\ e.kind = "frame-error" /\ e.index = n + 1 => FileTells(Append(f, e), ev, n + 1)
<1> DEFINE g == Append(f, e)
           L == Len(f)
<1>1. Plain(f)
    BY DEF FileTells
<1>2. Plain(g) /\ L \in Nat /\ \A i \in 1..L : g[i] = f[i]
    BY <1>1, AppendFacts
<1>3. OfIn(g, "event") = OfIn(f, "event")
    BY <1>1, OfAppended
<1>4. /\ Indexed(g, "event", Len(ev))
      /\ e.kind # "frame-error" => Indexed(g, "frame-error", n)
      /\ e.kind = "frame-error" /\ e.index = n + 1 => Indexed(g, "frame-error", n + 1)
    BY <1>1, IndexedAppend DEF FileTells
<1>5. \A i \in OfIn(f, "event") : i \in 1..L
    BY DEF OfIn
<1> HIDE DEF g, L
<1>6. \A i \in OfIn(f, "event") : g[i] = f[i]
    BY <1>2, <1>5
<1>7. NumbersOf(g) = NumbersOf(f)
    BY <1>3, <1>6 DEF NumbersOf
<1>8. InOrder(g)
    BY <1>3, <1>6 DEF InOrder, FileTells
<1> QED
    BY <1>2, <1>4, <1>7, <1>8 DEF FileTells, g

LineKinds == {"event", "frame-error"}

FileInv ==
    /\ frameErrors \in Nat /\ FileTells(file, events, frameErrors)
    /\ \A i \in 1..Len(file) - 1 : file[i].kind \in LineKinds
    /\ stage \notin Ended => \A i \in 1..Len(file) : file[i].kind \in LineKinds
    /\ stage = "closed" => /\ Len(file) # 0 /\ file[Len(file)].kind = "run"
                           /\ file[Len(file)].index = Len(events) + frameErrors

\* The file is empty at first.
LEMMA FileInit == Init => FileInv
<1> SUFFICES ASSUME Init PROVE FileInv
    OBVIOUS
<1>1. file = <<>> /\ events = <<>> /\ frameErrors = 0 /\ stage = "cycle"
    BY DEF Init
<1>2. Plain(<<>>) /\ Len(<<>>) = 0
    BY DEF Plain
<1>3. \A kind : OfIn(<<>>, kind) = {}
    BY <1>2 DEF OfIn
<1>4. \A kind : Indexed(<<>>, kind, 0)
    BY <1>3, FS_EmptySet DEF Indexed
<1>5. NumbersOf(<<>>) = {} /\ InOrder(<<>>) /\ ToSet(<<>>) = {}
    BY <1>2, <1>3, ToSetFacts DEF NumbersOf, InOrder
<1>6. FileTells(<<>>, <<>>, 0)
    BY <1>2, <1>4, <1>5 DEF FileTells
<1> QED
    BY <1>1, <1>2, <1>6 DEF FileInv, Ended

\* Nothing is written, and the capture is not closed.
LEMMA FileStays ==
    ASSUME FileInv, UNCHANGED <<events, frameErrors, file>>, stage' # "closed",
           stage \notin Ended \/ stage' = stage
    PROVE  FileInv'
<1>1. FileTells(file, events, frameErrors)' = FileTells(file, events, frameErrors)
    BY DEF FileTells, Indexed, OfIn, UpTo, NumbersOf, InOrder, Plain
<1> QED
    BY <1>1 DEF FileInv, Ended

\* What is written behind a file that is whole so far.
LEMMA FileGrows ==
    ASSUME FileInv, stage \notin Ended, NEW e, file' = Append(file, e),
           frameErrors' \in Nat, FileTells(file', events', frameErrors'),
           e.kind \in LineKinds \/ stage' \in Ended,
           stage' = "closed" => e.kind = "run" /\ e.index = Len(events') + frameErrors'
    PROVE  FileInv'
<1>1. Plain(file)
    BY DEF FileInv, FileTells
<1>2. /\ Len(file') = Len(file) + 1 /\ Len(file) \in Nat
      /\ \A i \in 1..Len(file) : file'[i] = file[i]
      /\ file'[Len(file) + 1] = e
    BY <1>1, AppendFacts
<1>3. \A i \in 1..Len(file) : file'[i].kind \in LineKinds
    BY <1>2 DEF FileInv
<1>4. \A i \in 1..Len(file') - 1 : file'[i].kind \in LineKinds
    BY <1>2, <1>3
<1>5. \A i \in 1..Len(file') : i \in 1..Len(file) \/ i = Len(file) + 1
    BY <1>2
<1>6. stage' \notin Ended => \A i \in 1..Len(file') : file'[i].kind \in LineKinds
    BY <1>2, <1>3, <1>5
<1>7. Len(file') # 0 /\ file'[Len(file')] = e
    BY <1>2
<1> QED
    BY <1>4, <1>6, <1>7 DEF FileInv

\* An event is written behind the others.
LEMMA FilePrints ==
    ASSUME CountInv, NumbersInv, FileInv, EventPrinted
    PROVE  FileInv'
<1>1. /\ stage = "print" /\ stage' = "print" /\ got # <<>> /\ frameErrors' = frameErrors
      /\ events' = Append(events, Head(got))
      /\ file' = Append(file, entry("event", Len(events'), Head(got)))
    BY DEF EventPrinted, printGatewayEvent
<1>2. /\ Plain(events) /\ Plain(got) /\ Ascending(events \o got)
      /\ frameErrors \in Nat /\ FileTells(file, events, frameErrors)
    BY DEF CountInv, NumbersInv, FileInv
<1>3. Head(got) = got[1] /\ 1 <= Len(got) /\ Len(got) \in Nat /\ Len(events') = Len(events) + 1
    <2>1. PICK S : got \in Seq(S)
        BY <1>2 DEF Plain
    <2>2. Head(got) = got[1]
        BY <1>1, <2>1
    <2> QED
        BY <1>1, <1>2, <2>2, PrintMoves, PlainFacts
<1>4. Head(got) \in Nat /\ \A m \in ToSet(events) : m < Head(got)
    <2>1. Follows(events \o got, events, got) /\ Len(events) \in Nat
        BY <1>2, ConcatFollows, PlainFacts
    <2> DEFINE A == events \o got
               n == Len(events) + 1
    <2> HIDE DEF A
    <2>2. 1 \in 1..Len(got) /\ n \in 1..Len(A) /\ A[n] = Head(got)
        <3>1. Len(A) = Len(events) + Len(got) /\ \A i \in 1..Len(got) : A[Len(events) + i] = got[i]
            BY <2>1 DEF Follows, A
        <3> QED
            BY <1>3, <2>1, <3>1
    <2>3. \A i \in 1..Len(events) : i \in 1..Len(A) /\ i < n /\ A[i] = events[i]
        <3>1. Len(A) = Len(events) + Len(got) /\ \A i \in 1..Len(events) : A[i] = events[i]
            BY <2>1 DEF Follows, A
        <3> QED
            BY <1>3, <2>1, <3>1
    <2>4. Ascending(A)
        BY <1>2 DEF A
    <2> HIDE DEF n
    <2>5. \A i \in 1..Len(events) : events[i] < Head(got)
        BY <2>2, <2>3, <2>4 DEF Ascending, Increasing
    <2> QED
        BY <1>2, <2>2, <2>4, <2>5, ToSetFacts DEF Ascending
<1> DEFINE e == entry("event", Len(events) + 1, Head(got))
<1>5. file' = Append(file, e) /\ e.kind = "event"
    BY <1>1, <1>3 DEF entry
<1>6. FileTells(file', events', frameErrors)
    BY <1>1, <1>2, <1>3, <1>4, <1>5, TellsEvent
<1> HIDE DEF e
<1> QED
    BY <1>1, <1>2, <1>5, <1>6, FileGrows DEF LineKinds, Ended

\* Every step of the tool keeps the file whole.
LEMMA FileStep ==
    ASSUME ChunkInv, CountInv, NumbersInv, FileInv, [Next]_vars
    PROVE  FileInv'
<1>0. ASSUME fails, stage \in Running PROVE FileInv'
    <2>1. stage' = "failed" /\ UNCHANGED <<events, frameErrors, file>>
        BY <1>0 DEF fails, resultVars
    <2> QED
        BY <1>0, <2>1, FileStays DEF Running, Ended
<1>1. CASE Cycle
    <2>1. CASE RequestFails
        BY <1>0, <2>1 DEF RequestFails, Running
    <2>2. CASE BeginCycle \/ LoggedIn \/ (\E n \in 1..MaxEndpoints : EndpointsReceived(n))
               \/ CycleEnds \/ DelayEnds \/ LoopEnds
        <3>1. /\ stage \in Running
              /\ stage' \in {"login", "discover", "connecting", "delay", "cycle", "summary"}
              /\ UNCHANGED <<events, frameErrors, file>>
            BY <2>2 DEF BeginCycle, LoggedIn, EndpointsReceived, CycleEnds, DelayEnds, LoopEnds,
                        resultVars, Running
        <3> QED
            BY <3>1, FileStays DEF Running, Ended
    <2> QED
        BY <1>1, <2>1, <2>2 DEF Cycle
<1>2. CASE Connection
    <2>1. ASSUME stage \in Running, stage' \in {"open", "connecting", "print"},
                 UNCHANGED <<events, frameErrors, file>>
          PROVE  FileInv'
        BY <2>1, FileStays DEF Running, Ended
    <2>2. ASSUME NEW kinds, NEW token, Connects(kinds, token) PROVE FileInv'
        BY <2>1, <2>2 DEF Connects, resultVars, Running
    <2>3. ASSUME NEW n, Data(n) PROVE FileInv'
        <3>1. stage = "open" /\ UNCHANGED <<events, frameErrors, file>>
            BY <2>3 DEF Data, resultVars
        <3>2. stage' \in {"connecting", "print"} \/ stage' = stage
            BY <2>3 DEF Data, readFrames, readOn, settle
        <3> QED
            BY <2>1, <3>1, <3>2 DEF Running
    <2>4. ASSUME NEW n, BufferExceeded(n) PROVE FileInv'
        BY <1>0, <2>4 DEF BufferExceeded, Running
    <2>5. CASE ConnectFails
        BY <1>0, <2>5 DEF ConnectFails, Running
    <2>6. CASE SocketTimesOut \/ ListenWindowElapses \/ SocketCloses
        <3>1. \E r : settle(r, got, errors)
            BY <2>6 DEF SocketTimesOut, ListenWindowElapses, SocketCloses
        <3>2. stage \in {"connecting", "open"} /\ UNCHANGED <<events, frameErrors, file>>
            BY <2>6 DEF SocketTimesOut, ListenWindowElapses, SocketCloses, resultVars
        <3>3. stage' \in {"connecting", "print"}
            BY <3>1 DEF settle
        <3> QED
            BY <2>1, <3>2, <3>3 DEF Running
    <2> QED
        BY <1>2, <2>2, <2>3, <2>4, <2>5, <2>6 DEF Connection, Arrives
<1>3. CASE Output
    <2>1. CASE EventPrinted
        BY <2>1, FilePrints
    <2>2. CASE ErrorPrinted
        <3> DEFINE e == entry("frame-error", frameErrors + 1, 0)
        <3>1. /\ stage = "print" /\ stage' = "print" /\ UNCHANGED events
              /\ frameErrors' = frameErrors + 1 /\ file' = Append(file, e)
            BY <2>2 DEF ErrorPrinted
        <3>2. e.kind = "frame-error" /\ e.index = frameErrors + 1
            BY DEF entry
        <3> HIDE DEF e
        <3>3. frameErrors' \in Nat /\ FileTells(file', events', frameErrors')
            BY <3>1, <3>2, TellsOther DEF FileInv
        <3> QED
            BY <3>1, <3>2, <3>3, FileGrows DEF LineKinds, Ended
    <2>3. CASE RunRecorded
        <3> DEFINE e == entry("run", Len(events) + frameErrors, cycles)
        <3>1. /\ stage = "summary" /\ stage' = "closed" /\ UNCHANGED <<events, frameErrors>>
              /\ file' = Append(file, e)
            BY <2>3 DEF RunRecorded
        <3>2. e.kind = "run" /\ e.index = Len(events) + frameErrors
            BY DEF entry
        <3> HIDE DEF e
        <3>3. frameErrors' \in Nat /\ FileTells(file', events', frameErrors')
            BY <3>1, <3>2, TellsOther DEF FileInv
        <3> QED
            BY <3>1, <3>2, <3>3, FileGrows DEF Ended
    <2> QED
        BY <1>3, <2>1, <2>2, <2>3 DEF Output
<1>4. CASE Breaks
    <2>1. stage \in Running /\ stage' \in {"failed", "killed"} /\ UNCHANGED <<events, frameErrors>>
        BY <1>4 DEF Breaks
    <2>2. CASE UNCHANGED file
        BY <2>1, <2>2, FileStays DEF Running, Ended
    <2>3. CASE file' = Append(file, entry("torn", 0, 0))
        <3> DEFINE e == entry("torn", 0, 0)
        <3>1. e.kind = "torn"
            BY DEF entry
        <3>2. file' = Append(file, e)
            BY <2>3
        <3> HIDE DEF e
        <3>3. frameErrors' \in Nat /\ FileTells(file', events', frameErrors')
            BY <2>1, <3>1, <3>2, TellsOther DEF FileInv
        <3> QED
            BY <2>1, <3>1, <3>2, <3>3, FileGrows DEF Running, Ended
    <2> QED
        BY <1>4, <2>2, <2>3 DEF Breaks
<1>5. CASE DeadlinePasses
    <2>1. stage \in Running /\ stage' = stage /\ UNCHANGED <<events, frameErrors, file>>
        BY <1>5 DEF DeadlinePasses, resultVars
    <2> QED
        BY <2>1, FileStays DEF Running, Ended
<1>6. CASE UNCHANGED vars
    <2>1. UNCHANGED <<stage, events, frameErrors, file>>
        BY <1>6 DEF vars, resultVars
    <2>2. FileTells(file, events, frameErrors)' = FileTells(file, events, frameErrors)
        BY <2>1 DEF FileTells, Indexed, OfIn, UpTo, NumbersOf, InOrder, Plain
    <2> QED
        BY <2>1, <2>2 DEF FileInv
<1> QED
    BY <1>1, <1>2, <1>3, <1>4, <1>5, <1>6 DEF Next

\* What is told and could be read, up to the last that is told, is in the file.
LEMMA ReadableIsTold ==
    ASSUME CountInv, NumbersInv
    PROVE  /\ \A n \in ToSet(events) : \A k \in readable : k < n => k \in ToSet(events)
           /\ got = <<>> => readable \subseteq ToSet(events) \/ Len(events) = MaxEvents
<1> DEFINE A == events \o got
<1>1. Follows(A, events, got) /\ Len(events) \in Nat /\ Len(got) \in Nat
    BY ConcatFollows, CountFacts DEF CountInv
<1>2. /\ Plain(events) /\ Plain(got) /\ Plain(A) /\ Len(A) = Len(events) + Len(got)
      /\ \A i \in 1..Len(events) : i \in 1..Len(A) /\ A[i] = events[i]
    BY <1>1 DEF Follows
<1>3. ToSet(A) = ToSet(events) \cup ToSet(got)
    BY <1>1, FollowsToSet
<1>4. Ascending(A) /\ Told(readable, A)
    BY DEF NumbersInv
<1> HIDE DEF A
<1>5. ASSUME NEW n \in ToSet(events), NEW k \in readable, k < n PROVE k \in ToSet(events)
    <2>1. PICK q \in 1..Len(events) : events[q] = n
        BY <1>2, ToSetFacts
    <2>2. q \in 1..Len(A) /\ A[q] = n /\ n \in Nat
        BY <1>2, <1>4, <2>1 DEF Ascending
    <2>3. k \in Nat /\ k \in ToSet(A)
        <3>1. n \in ToSet(A) /\ ~ (n < k)
            BY <1>3, <1>4, <1>5, <2>2 DEF Told
        <3> QED
            BY <1>4, <3>1 DEF Told
    <2>4. PICK p \in 1..Len(A) : A[p] = k
        BY <1>2, <2>3, ToSetFacts
    <2>5. p \in 1..Len(events)
        <3>1. ~ (q < p)
            BY <1>4, <1>5, <2>2, <2>3, <2>4 DEF Ascending, Increasing
        <3> QED
            BY <1>1, <1>2, <2>1, <3>1
    <2> QED
        BY <1>2, <2>4, <2>5, ToSetFacts
<1>6. ASSUME got = <<>>, Len(events) # MaxEvents PROVE readable \subseteq ToSet(events)
    <2>1. Len(A) = Len(events) /\ ToSet(got) = {}
        BY <1>1, <1>2, <1>6, ToSetFacts
    <2> QED
        BY <1>3, <1>4, <1>6, <2>1 DEF Told
<1> QED
    BY <1>5, <1>6

\* The file of a capture is whole and in order.
THEOREM FileTellsAll == Spec => []FileIsWhole
<1> DEFINE I == ChunkInv /\ CountInv /\ NumbersInv /\ FileInv
<1>1. I /\ [Next]_vars => I'
    BY ChunkStep, CountStep, NumbersStep, FileStep
<1>2. ASSUME I PROVE FileIsWhole
    <2>1. /\ \A kind : Of(kind) = OfIn(file, kind)
          /\ Numbers = ToSet(events) /\ InOrder(file)
          /\ Indexed(file, "event", Len(events)) /\ Indexed(file, "frame-error", frameErrors)
        BY <1>2 DEF Of, OfIn, Numbers, NumbersOf, FileInv, FileTells
    <2>2. \A kind \in {"event", "frame-error"} : \A i \in Of(kind) :
            file[i].index = Cardinality({j \in Of(kind) : j <= i})
        BY <2>1 DEF Indexed, UpTo
    <2>3. \A i, j \in Of("event") : i < j => file[i].number < file[j].number
        BY <2>1 DEF InOrder
    <2>4. \A n \in Numbers : \A k \in readable : k < n => k \in Numbers
        BY <1>2, <2>1, ReadableIsTold
    <2>5. Cardinality(Of("event")) = Len(events) /\ Cardinality(Of("frame-error")) = frameErrors
        BY <2>1 DEF Indexed
    <2>6. Len(events) <= MaxEvents
        BY <1>2, CountFacts DEF CountInv
    <2>7. \A i \in 1..Len(file) - 1 : file[i].kind \in {"event", "frame-error"}
        BY <1>2 DEF FileInv, LineKinds
    <2>8. ASSUME stage = "closed"
          PROVE  /\ Last(file).kind = "run" /\ Last(file).index = Len(events) + frameErrors
                 /\ readable \subseteq Numbers \/ Len(events) = MaxEvents
        <3>1. got = <<>>
            BY <1>2, <2>8 DEF ChunkInv, Quiet
        <3>2. Last(file).kind = "run" /\ Last(file).index = Len(events) + frameErrors
            BY <1>2, <2>8 DEF FileInv, Last
        <3> QED
            BY <1>2, <2>1, <3>1, <3>2, ReadableIsTold
    <2> QED
        BY <2>2, <2>3, <2>4, <2>5, <2>6, <2>7, <2>8 DEF FileIsWhole
<1>3. Init => I
    BY ChunkInit, CountInit, NumbersInit, FileInit
<1> HIDE DEF I
<1> QED
    BY <1>1, <1>2, <1>3, PTL DEF Spec

-----------------------------------------------------------------------------
(* The analysis: lines *)

\* The greatest element is the one that is.
LEMMA GreatestIs ==
    ASSUME NEW S, S \subseteq Int, NEW m \in S, \A x \in S : x <= m
    PROVE  Max(S) = m
<1>1. \A x \in S : m >= x
    OBVIOUS
<1>2. \A x \in S : (\A y \in S : x >= y) => x = m
    OBVIOUS
<1> QED
    BY <1>1, <1>2 DEF Max

\* The least element is the one that is.
LEMMA LeastIs ==
    ASSUME NEW S, S \subseteq Int, NEW m \in S, \A x \in S : m <= x
    PROVE  Min(S) = m
<1>1. \A x \in S : (\A y \in S : x <= y) => x = m
    OBVIOUS
<1> QED
    BY <1>1 DEF Min

\* Among the lines read there is a first and a last one.
LEMMA LineEnds ==
    ASSUME NEW n \in Nat, NEW D \in SUBSET (1..n), D # {}
    PROVE  /\ Min(D) \in D /\ \A i \in D : Min(D) <= i
           /\ Max(D) \in D /\ \A i \in D : i <= Max(D)
<1>1. D \subseteq Nat /\ D \subseteq Int
    OBVIOUS
<1>2. PICK x \in D : \A y \in D : x <= y
    BY <1>1, LeastNumber
<1>3. Min(D) = x
    BY <1>1, <1>2, LeastIs
<1> DEFINE T == {n - i : i \in D}
<1>4. T \subseteq Nat /\ T # {}
    OBVIOUS
<1>5. PICK t \in T : \A y \in T : t <= y
    BY <1>4, LeastNumber
<1>6. PICK m \in D : t = n - m
    OBVIOUS
<1>7. \A i \in D : i <= m
    <2> TAKE i \in D
    <2>1. t <= n - i
        BY <1>5
    <2> QED
        BY <2>1, <1>1, <1>6
<1>8. Max(D) = m
    BY <1>1, <1>7, GreatestIs
<1> QED
    BY <1>2, <1>3, <1>7, <1>8

\* What another line changes in a set of lines: it comes last.
LEMMA AnotherLine ==
    ASSUME NEW n \in Nat, NEW D \in SUBSET (1..n)
    PROVE  LET E == D \cup {n + 1} IN
           /\ Cardinality(D) \in Nat /\ Cardinality(E) = Cardinality(D) + 1
           /\ Max(E) = n + 1
           /\ D = {} => Min(E) = n + 1
           /\ D # {} => Min(E) = Min(D) /\ before(E, n + 1) = Max(D)
           /\ \A i \in D : before(E, i) = before(D, i) /\ rank(E, i) = rank(D, i)
           /\ \A i \in D : rank(D, i) \in 1..Cardinality(D)
           /\ rank(E, n + 1) = Cardinality(D) + 1
<1> DEFINE E == D \cup {n + 1}
<1>1. IsFiniteSet(D) /\ Cardinality(D) \in Nat
    BY PartOfInterval
<1>2. /\ n + 1 \notin D /\ D \subseteq Int /\ E \subseteq Int /\ n + 1 \in E /\ D \subseteq E
      /\ \A i \in D : i <= n /\ i < n + 1 /\ i \in Int /\ ~ (n + 1 <= i)
      /\ \A i \in E : i <= n + 1 /\ (i \in D \/ i = n + 1) /\ i \in Int
    OBVIOUS
<1>3. Cardinality(E) = Cardinality(D) + 1
    BY <1>1, <1>2, FS_AddElement
<1>4. Max(E) = n + 1
    <2> HIDE DEF E
    <2> QED
        BY <1>2, GreatestIs
<1>5. D = {} => Min(E) = n + 1
    BY <1>2, LeastIs
<1>6. ASSUME D # {} PROVE Min(E) = Min(D) /\ before(E, n + 1) = Max(D)
    <2>1. Min(D) \in D /\ \A i \in D : Min(D) <= i
        BY <1>6, LineEnds
    <2>2. Min(D) \in E /\ \A i \in E : Min(D) <= i
        <3> DEFINE m == Min(D)
        <3>1. m \in D /\ \A i \in D : m <= i
            BY <2>1
        <3> HIDE DEF m, E
        <3>2. m \in E /\ m <= n + 1 /\ \A i \in E : m <= i
            BY <3>1, <1>2
        <3> QED
            BY <3>2 DEF m
    <2>3. Min(E) = Min(D)
        BY <1>2, <2>2, LeastIs
    <2>4. {j \in E : j < n + 1} = D
        <3>1. \A j \in D : j \in E /\ j < n + 1
            BY <1>2
        <3>2. \A j \in E : j < n + 1 => j \in D
            BY <1>2
        <3> HIDE DEF E
        <3> QED
            BY <3>1, <3>2
    <2> QED
        BY <2>3, <2>4 DEF before
<1>7. ASSUME NEW i \in D PROVE before(E, i) = before(D, i) /\ rank(E, i) = rank(D, i)
    <2>1. {j \in E : j < i} = {j \in D : j < i} /\ {j \in E : j <= i} = {j \in D : j <= i}
        BY <1>2
    <2> QED
        BY <2>1 DEF before, rank
<1>8. ASSUME NEW i \in D PROVE rank(D, i) \in 1..Cardinality(D)
    <2> DEFINE B == {j \in D : j <= i}
    <2>1. B \subseteq D /\ i \in B
        BY <1>2
    <2>2. IsFiniteSet(B) /\ Cardinality(B) <= Cardinality(D) /\ Cardinality(B) \in Nat
        BY <1>1, <2>1, FS_Subset, FS_CardinalityType
    <2>3. Cardinality(B) # 0
        BY <2>1, <2>2, FS_EmptySet
    <2> HIDE DEF B
    <2>4. Cardinality(B) \in 1..Cardinality(D)
        BY <1>1, <2>2, <2>3
    <2> QED
        BY <2>4 DEF rank, B
<1>9. rank(E, n + 1) = Cardinality(D) + 1
    <2>1. {j \in E : j <= n + 1} = E
        <3> HIDE DEF E
        <3> QED
            BY <1>2
    <2> QED
        BY <1>3, <2>1 DEF rank
<1> QED
    BY <1>1, <1>3, <1>4, <1>5, <1>6, <1>7, <1>8, <1>9

\* The values w are the values v and one more, at line n + 1.
Continues(w, v, n, x) ==
    /\ DOMAIN v \in SUBSET (1..n) /\ DOMAIN w = DOMAIN v \cup {n + 1}
    /\ w[n + 1] = x /\ \A i \in DOMAIN v : w[i] = v[i]

\* Another value is another change if it differs from the last one.
LEMMA AnotherMove ==
    ASSUME NEW n \in Nat, NEW w, NEW v, NEW x, Continues(w, v, n, x)
    PROVE  /\ moves(v) \subseteq DOMAIN v
           /\ DOMAIN v = {} => moves(w) = {}
           /\ DOMAIN v # {} /\ x = v[Max(DOMAIN v)] => moves(w) = moves(v)
           /\ DOMAIN v # {} /\ x # v[Max(DOMAIN v)] => moves(w) = moves(v) \cup {n + 1}
<1> DEFINE D == DOMAIN v
           E == D \cup {n + 1}
<1>1. D \in SUBSET (1..n) /\ DOMAIN w = E /\ w[n + 1] = x /\ \A i \in D : w[i] = v[i]
    BY DEF Continues
<1>2. moves(v) = {i \in D : i # Min(D) /\ v[i] # v[before(D, i)]}
    BY DEF moves
<1>3. moves(w) = {i \in E : i # Min(E) /\ w[i] # w[before(E, i)]}
    BY <1>1 DEF moves
<1>4. n + 1 \notin D
    BY <1>1
<1>5. D = {} => Min(E) = n + 1 /\ E = {n + 1}
    BY <1>1, AnotherLine
<1>6. ASSUME D # {} PROVE moves(w) = moves(v) \cup (IF x = v[Max(D)] THEN {} ELSE {n + 1})
    <2>1. Min(E) = Min(D) /\ before(E, n + 1) = Max(D) /\ Max(D) \in D /\ Min(D) \in D
        BY <1>1, <1>6, AnotherLine, LineEnds
    <2>2. ASSUME NEW i \in D, i # Min(D) PROVE before(E, i) = before(D, i) /\ before(D, i) \in D
        <3> DEFINE B == {j \in D : j < i}
        <3>1. Min(D) \in B /\ B \in SUBSET (1..n)
            <4> DEFINE m == Min(D)
            <4>1. m \in D /\ m <= i
                BY <1>1, <1>6, <2>2, LineEnds
            <4> HIDE DEF m
            <4>2. m # i
                BY <2>2 DEF m
            <4>3. m < i
                BY <4>1, <4>2, <1>1
            <4> QED
                BY <4>1, <4>3, <1>1 DEF m
        <3>2. Max(B) \in B
            BY <3>1, LineEnds
        <3>3. before(E, i) = before(D, i)
            BY <1>1, AnotherLine
        <3> QED
            BY <3>2, <3>3 DEF before
    <2>3. ASSUME NEW i \in D PROVE i \in moves(w) <=> i \in moves(v)
        BY <1>1, <1>2, <1>3, <2>1, <2>2, <2>3
    <2>4. n + 1 \in moves(w) <=> x # v[Max(D)]
        BY <1>1, <1>3, <1>4, <2>1
    <2>5. moves(w) \subseteq E /\ moves(v) \subseteq D
        BY <1>2, <1>3
    <2> HIDE DEF D, E
    <2> QED
        BY <2>3, <2>4, <2>5, <1>4 DEF E
<1> HIDE DEF D, E
<1>7. D = {} => moves(w) = {}
    BY <1>3, <1>5
<1>8. moves(v) \subseteq D
    BY <1>2
<1> QED
    BY <1>6, <1>7, <1>8 DEF D

\* Numbers of more lines are those of the lines before, and others.
LEMMA TellsSame ==
    ASSUME NEW n \in Nat, NEW v, DOMAIN v \in SUBSET (1..n),
           NEW number, NEW more, \A i \in 1..n : more[i] = number[i],
           NEW s, Tells(s, v, number)
    PROVE  Tells(s, v, more)
<1>1. \A i \in moves(v) : i \in 1..n
    BY DEF moves
<1> QED
    BY <1>1 DEF Tells

\* A sequence of an analysis, with its parts.
IsSequence(s) ==
    /\ s = [f \in {"first", "last", "observations", "changes", "transitions"} |-> s[f]]
    /\ \E S : s.transitions \in Seq(S)

\* What is told of one value.
LEMMA TellsFirst ==
    ASSUME NEW n \in Nat, NEW w, NEW v, NEW x, Continues(w, v, n, x), DOMAIN v = {}, NEW number
    PROVE  IsSequence(started(x)) /\ Tells(started(x), w, number)
<1> DEFINE s == started(x)
<1>1. /\ s.first = x /\ s.last = x /\ s.observations = 1 /\ s.changes = 0
      /\ s.transitions = <<>>
      /\ s = [f \in {"first", "last", "observations", "changes", "transitions"} |-> s[f]]
    BY DEF started, NoSequence
<1>2. DOMAIN w = {n + 1} /\ w[n + 1] = x
    BY DEF Continues
<1>3. Min({n + 1}) = n + 1 /\ Max({n + 1}) = n + 1
    BY LeastIs, GreatestIs
<1>4. moves(w) = {}
    BY AnotherMove
<1>5. Cardinality(DOMAIN w) = 1 /\ Cardinality(moves(w)) = 0
    BY <1>2, <1>4, FS_Singleton, FS_EmptySet
<1>6. s.transitions \in Seq({}) /\ Len(s.transitions) = 0
    BY <1>1
<1> HIDE DEF s
<1>7. IsSequence(s)
    BY <1>1, <1>6 DEF IsSequence
<1>8. Tells(s, w, number)
    BY <1>1, <1>2, <1>3, <1>4, <1>5, <1>6 DEF Tells
<1> QED
    BY <1>7, <1>8 DEF s

\* What is told of one value more.
LEMMA TellsNext ==
    ASSUME NEW n \in Nat, NEW w, NEW v, NEW x, Continues(w, v, n, x), DOMAIN v # {},
           NEW number, NEW more, \A i \in 1..n : more[i] = number[i],
           NEW s, IsSequence(s), Tells(s, v, number)
    PROVE  LET t == updateSequenceIfDefined(s, x, more[n + 1])
           IN IsSequence(t) /\ Tells(t, w, more)
<1> DEFINE D == DOMAIN v
           E == D \cup {n + 1}
           m == more[n + 1]
           t == updateSequenceIfDefined(s, x, m)
           M == moves(v)
<1>1. D \in SUBSET (1..n) /\ DOMAIN w = E /\ w[n + 1] = x /\ \A i \in D : w[i] = v[i]
    BY DEF Continues
<1>2. /\ Cardinality(D) \in Nat /\ Cardinality(E) = Cardinality(D) + 1 /\ Max(E) = n + 1
      /\ Min(E) = Min(D) /\ before(E, n + 1) = Max(D)
      /\ \A i \in D : before(E, i) = before(D, i)
    BY <1>1, AnotherLine
<1>3. /\ Min(D) \in D /\ Max(D) \in D /\ n + 1 \notin D
    <2>1. D # {}
        OBVIOUS
    <2> HIDE DEF D
    <2>2. Min(D) \in D /\ Max(D) \in D
        BY <1>1, <2>1, LineEnds
    <2> QED
        BY <1>1, <2>2
<1>4. M \subseteq D /\ M \in SUBSET (1..n) /\ n + 1 \notin M
    BY <1>1, AnotherMove
<1>5. /\ s.first = v[Min(D)] /\ s.last = v[Max(D)] /\ s.observations = Cardinality(D)
      /\ s.changes = Cardinality(M) /\ Len(s.transitions) = s.changes
      /\ \A i \in M : s.transitions[rank(M, i)] =
             [event |-> number[i], from |-> v[before(D, i)], to |-> v[i]]
    BY DEF Tells
<1>6. s.observations # 0
    <2>1. IsFiniteSet(D)
        BY <1>1, PartOfInterval
    <2> QED
        BY <2>1, <1>3, <1>5, FS_EmptySet
<1>7. /\ s = [f \in {"first", "last", "observations", "changes", "transitions"} |-> s[f]]
      /\ \E S : s.transitions \in Seq(S)
    BY DEF IsSequence
<1>8. ASSUME NEW i \in D PROVE before(D, i) \in D \/ i \notin M
    <2> DEFINE B == {j \in D : j < i}
               l == Min(D)
    <2>1. ASSUME i # l PROVE B # {}
        <3>1. l \in D /\ l <= i
            BY <1>1, LineEnds
        <3> HIDE DEF l
        <3> QED
            BY <1>1, <2>1, <3>1
    <2>2. B # {} => Max(B) \in B
        BY <1>1, LineEnds
    <2> QED
        BY <2>1, <2>2 DEF before, moves
<1> HIDE DEF D, E, M
<1>9. CASE x = s.last
    <2>1. t = [s EXCEPT !.observations = @ + 1]
        BY <1>6, <1>9 DEF updateSequenceIfDefined
    <2>2. /\ t.first = s.first /\ t.last = s.last /\ t.observations = s.observations + 1
          /\ t.changes = s.changes /\ t.transitions = s.transitions
          /\ t = [f \in {"first", "last", "observations", "changes", "transitions"} |-> t[f]]
        BY <1>7, <2>1
    <2>3. moves(w) = M
        BY <1>5, <1>9, <1>3, AnotherMove DEF M, D
    <2> HIDE DEF t
    <2>4. \A i \in M : i \in 1..n /\ w[i] = v[i] /\ w[before(E, i)] = v[before(D, i)]
        BY <1>1, <1>2, <1>4, <1>8
    <2>5. \A i \in M : t.transitions[rank(M, i)] =
              [event |-> more[i], from |-> w[before(E, i)], to |-> w[i]]
        BY <1>5, <2>2, <2>4
    <2>6. t.first = w[Min(E)] /\ t.last = w[Max(E)] /\ t.observations = Cardinality(E)
        BY <1>1, <1>2, <1>3, <1>5, <1>9, <2>2
    <2>7. Tells(t, w, more)
        BY <1>1, <1>5, <2>2, <2>3, <2>5, <2>6 DEF Tells
    <2>8. IsSequence(t)
        BY <1>7, <2>2 DEF IsSequence
    <2> QED
        BY <2>7, <2>8 DEF t
<1>10. CASE x # s.last
    <2> DEFINE e == [event |-> m, from |-> s.last, to |-> x]
               N == M \cup {n + 1}
    <2>1. t = [s EXCEPT !.observations = @ + 1, !.last = x, !.changes = @ + 1,
                        !.transitions = Append(@, e)]
        BY <1>6, <1>10 DEF updateSequenceIfDefined
    <2> HIDE DEF e
    <2>2. /\ t.first = s.first /\ t.last = x /\ t.observations = s.observations + 1
          /\ t.changes = s.changes + 1 /\ t.transitions = Append(s.transitions, e)
          /\ t = [f \in {"first", "last", "observations", "changes", "transitions"} |-> t[f]]
        BY <1>7, <2>1
    <2>3. moves(w) = N
        BY <1>5, <1>10, <1>3, AnotherMove DEF M, D
    <2>4. /\ Cardinality(M) \in Nat /\ Cardinality(N) = Cardinality(M) + 1
          /\ \A i \in M : rank(N, i) = rank(M, i) /\ rank(M, i) \in 1..Cardinality(M)
          /\ rank(N, n + 1) = Cardinality(M) + 1
        BY <1>4, AnotherLine
    <2>5. PICK S : s.transitions \in Seq(S)
        BY <1>7
    <2>6. /\ t.transitions \in Seq(S \cup {e}) /\ Len(t.transitions) = Len(s.transitions) + 1
          /\ \A k \in 1..Len(s.transitions) : t.transitions[k] = s.transitions[k]
          /\ t.transitions[Len(s.transitions) + 1] = e
        <3> DEFINE q == s.transitions
        <3>1. q \in Seq(S \cup {e}) /\ e \in S \cup {e}
            BY <2>5
        <3> HIDE DEF q
        <3>2. /\ Append(q, e) \in Seq(S \cup {e}) /\ Len(Append(q, e)) = Len(q) + 1
              /\ \A k \in 1..Len(q) : Append(q, e)[k] = q[k]
              /\ Append(q, e)[Len(q) + 1] = e
            BY <3>1
        <3> QED
            BY <2>2, <3>2 DEF q
    <2> HIDE DEF t
    <2>7. \A i \in M : i \in 1..n /\ w[i] = v[i] /\ w[before(E, i)] = v[before(D, i)]
        BY <1>1, <1>2, <1>4, <1>8
    <2>8. ASSUME NEW i \in N
          PROVE  t.transitions[rank(N, i)] =
                     [event |-> more[i], from |-> w[before(E, i)], to |-> w[i]]
        <3>1. CASE i \in M
            <4>1. t.transitions[rank(N, i)] = s.transitions[rank(M, i)]
                BY <3>1, <2>4, <2>6, <1>5
            <4> QED
                BY <3>1, <4>1, <1>5, <2>7
        <3>2. CASE i = n + 1
            <4>1. t.transitions[rank(N, i)] = e
                BY <3>2, <2>4, <2>6, <1>5
            <4> QED
                BY <3>2, <4>1, <1>1, <1>2, <1>3, <1>5 DEF e
        <3> QED
            BY <3>1, <3>2
    <2>9. t.first = w[Min(E)] /\ t.last = w[Max(E)] /\ t.observations = Cardinality(E)
        BY <1>1, <1>2, <1>3, <1>5, <2>2
    <2>10. t.changes = Cardinality(N) /\ Len(t.transitions) = t.changes
        BY <1>5, <2>2, <2>4, <2>6
    <2> HIDE DEF N
    <2>11. Tells(t, w, more)
        BY <1>1, <2>3, <2>8, <2>9, <2>10 DEF Tells
    <2>12. IsSequence(t)
        BY <2>2, <2>6 DEF IsSequence
    <2> QED
        BY <2>11, <2>12 DEF t
<1> QED
    BY <1>9, <1>10

\* The values of one key, when another line gives values.
LEMMA AnotherValue ==
    ASSUME NEW n \in Nat, NEW g, NEW given, NEW values, Continues(g, given, n, values), NEW key
    PROVE  /\ DOMAIN valuesOf(key, given) \in SUBSET (1..n)
           /\ key \in DOMAIN values =>
                Continues(valuesOf(key, g), valuesOf(key, given), n, values[key])
           /\ key \notin DOMAIN values => valuesOf(key, g) = valuesOf(key, given)
<1> DEFINE D == {i \in DOMAIN given : key \in DOMAIN given[i]}
           E == {i \in DOMAIN g : key \in DOMAIN g[i]}
           v == valuesOf(key, given)
           w == valuesOf(key, g)
<1>1. /\ DOMAIN given \in SUBSET (1..n) /\ DOMAIN g = DOMAIN given \cup {n + 1}
      /\ g[n + 1] = values /\ \A i \in DOMAIN given : g[i] = given[i]
    BY DEF Continues
<1>2. v = [i \in D |-> given[i][key]] /\ w = [i \in E |-> g[i][key]]
    BY DEF valuesOf
<1>3. D \in SUBSET (1..n) /\ \A i \in D : i \in DOMAIN given /\ g[i] = given[i]
    BY <1>1
<1>4. E = D \cup (IF key \in DOMAIN values THEN {n + 1} ELSE {})
    BY <1>1
<1> HIDE DEF D, E
<1>5. ASSUME key \in DOMAIN values PROVE Continues(w, v, n, values[key])
    <2>1. E = D \cup {n + 1}
        BY <1>4, <1>5
    <2>2. w[n + 1] = values[key]
        BY <1>1, <1>2, <2>1
    <2>3. DOMAIN v = D /\ DOMAIN w = D \cup {n + 1} /\ \A i \in D : w[i] = v[i]
        BY <1>2, <1>3, <2>1
    <2> HIDE DEF v, w
    <2> QED
        BY <1>3, <2>2, <2>3 DEF Continues
<1>6. ASSUME key \notin DOMAIN values PROVE w = v
    <2>1. E = D
        BY <1>4, <1>6
    <2> QED
        BY <1>2, <1>3, <2>1
<1> QED
    BY <1>2, <1>3, <1>5, <1>6

\* All sequences of a bucket have their parts.
IsBucket(bucket) == \A key \in DOMAIN bucket : IsSequence(bucket[key])

\* The bucket of the values before, with those of another line, is that of all of them.
LEMMA ReplaysNext ==
    ASSUME NEW n \in Nat, NEW g, NEW given, NEW values, Continues(g, given, n, values),
           NEW number, NEW more, \A i \in 1..n : more[i] = number[i],
           NEW bucket, IsBucket(bucket), Replays(bucket, given, number)
    PROVE  LET b == updateSequences(bucket, values, more[n + 1])
           IN IsBucket(b) /\ Replays(b, g, more)
<1> DEFINE b == updateSequences(bucket, values, more[n + 1])
           m == more[n + 1]
<1>1. /\ DOMAIN given \in SUBSET (1..n) /\ DOMAIN g = DOMAIN given \cup {n + 1}
      /\ g[n + 1] = values /\ \A i \in DOMAIN given : g[i] = given[i]
    BY DEF Continues
<1>2. b = [k \in DOMAIN bucket \cup DOMAIN values |->
              LET old == IF k \in DOMAIN bucket THEN bucket[k] ELSE NoSequence
              IN IF k \in DOMAIN values THEN updateSequenceIfDefined(old, values[k], m) ELSE old]
    BY DEF updateSequences, into
<1>3. /\ DOMAIN bucket = keysOf(given)
      /\ \A key \in DOMAIN bucket : Tells(bucket[key], valuesOf(key, given), number)
    BY DEF Replays
<1>4. DOMAIN b = keysOf(g)
    <2>1. DOMAIN b = DOMAIN bucket \cup DOMAIN values
        BY <1>2
    <2>2. keysOf(g) = keysOf(given) \cup DOMAIN values
        <3>1. \A k \in keysOf(g) : k \in keysOf(given) \cup DOMAIN values
            <4> TAKE k \in keysOf(g)
            <4>1. PICK i \in DOMAIN g : k \in DOMAIN g[i]
                BY DEF keysOf
            <4> QED
                BY <4>1, <1>1 DEF keysOf
        <3>2. \A k \in keysOf(given) : k \in keysOf(g)
            <4> TAKE k \in keysOf(given)
            <4>1. PICK i \in DOMAIN given : k \in DOMAIN given[i]
                BY DEF keysOf
            <4>2. i \in DOMAIN g /\ k \in DOMAIN g[i]
                BY <4>1, <1>1
            <4> QED
                BY <4>2 DEF keysOf
        <3>3. \A k \in DOMAIN values : k \in keysOf(g)
            <4>1. n + 1 \in DOMAIN g /\ g[n + 1] = values
                BY <1>1
            <4> QED
                BY <4>1 DEF keysOf
        <3> QED
            BY <3>1, <3>2, <3>3
    <2> HIDE DEF b
    <2> QED
        BY <1>3, <2>1, <2>2
<1>5. ASSUME NEW key \in DOMAIN b
      PROVE  IsSequence(b[key]) /\ Tells(b[key], valuesOf(key, g), more)
    <2> DEFINE v == valuesOf(key, given)
               w == valuesOf(key, g)
    <2>1. DOMAIN v = {i \in DOMAIN given : key \in DOMAIN given[i]}
        BY DEF valuesOf
    <2>2. DOMAIN v \in SUBSET (1..n)
        BY AnotherValue
    <2>3. key \in DOMAIN bucket <=> DOMAIN v # {}
        BY <1>3, <2>1 DEF keysOf
    <2>4. CASE key \notin DOMAIN values
        <3>1. key \in DOMAIN bucket /\ b[key] = bucket[key] /\ w = v
            BY <1>2, <2>4, AnotherValue
        <3>2. IsSequence(bucket[key]) /\ Tells(bucket[key], v, number)
            BY <1>3, <3>1 DEF IsBucket
        <3> HIDE DEF v, w, b
        <3>3. Tells(bucket[key], v, more)
            BY <2>2, <3>2, TellsSame
        <3> QED
            BY <3>1, <3>2, <3>3 DEF w
    <2>5. CASE key \in DOMAIN values /\ key \in DOMAIN bucket
        <3>1. b[key] = updateSequenceIfDefined(bucket[key], values[key], m)
            BY <1>2, <2>5
        <3>2. IsSequence(bucket[key]) /\ Tells(bucket[key], v, number)
            BY <1>3, <2>5 DEF IsBucket
        <3>3. Continues(w, v, n, values[key])
            BY <2>5, AnotherValue
        <3>4. DOMAIN v # {}
            BY <2>3, <2>5
        <3> DEFINE s == bucket[key]
                   x == values[key]
                   t == updateSequenceIfDefined(s, x, m)
        <3>5. IsSequence(s) /\ Tells(s, v, number) /\ Continues(w, v, n, x)
            BY <3>2, <3>3
        <3> HIDE DEF v, w, b, s, x
        <3>6. IsSequence(t) /\ Tells(t, w, more)
            BY <3>4, <3>5, TellsNext
        <3> QED
            BY <3>1, <3>6 DEF w, s, x
    <2>6. CASE key \in DOMAIN values /\ key \notin DOMAIN bucket
        <3>1. b[key] = updateSequenceIfDefined(NoSequence, values[key], m)
            BY <1>2, <2>6
        <3>2. NoSequence.observations = 0
            BY DEF NoSequence
        <3>3. b[key] = started(values[key])
            BY <3>1, <3>2 DEF updateSequenceIfDefined
        <3>4. Continues(w, v, n, values[key])
            BY <2>6, AnotherValue
        <3> HIDE DEF v, w, b
        <3> QED
            BY <2>3, <2>6, <3>3, <3>4, TellsFirst DEF w
    <2> QED
        BY <2>4, <2>5, <2>6
<1> HIDE DEF b
<1>6. IsBucket(b)
    BY <1>5 DEF IsBucket
<1>7. Replays(b, g, more)
    BY <1>4, <1>5 DEF Replays
<1> QED
    BY <1>6, <1>7 DEF b

\* A bucket stays that of the values, whatever the numbers of other lines.
LEMMA ReplaysSame ==
    ASSUME NEW n \in Nat, NEW given, DOMAIN given \in SUBSET (1..n),
           NEW number, NEW more, \A i \in 1..n : more[i] = number[i],
           NEW bucket, Replays(bucket, given, number)
    PROVE  Replays(bucket, given, more)
<1>1. ASSUME NEW key \in DOMAIN bucket PROVE Tells(bucket[key], valuesOf(key, given), more)
    <2> DEFINE v == valuesOf(key, given)
    <2>1. DOMAIN v \in SUBSET (1..n)
        BY DEF valuesOf
    <2>2. Tells(bucket[key], v, number)
        BY DEF Replays
    <2> HIDE DEF v
    <2>3. Tells(bucket[key], v, more)
        BY <2>1, <2>2, TellsSame
    <2> QED
        BY <2>3 DEF v
<1> QED
    BY <1>1 DEF Replays

\* The lines of events.
eventLines == {j \in 1..Len(seen) : seen[j].kind = "event"}

\* The line is an event of the type, with an object for its data.
IsEventOf(line, type) == line.kind = "event" /\ line.object /\ line.infoType = type

\* A line that is read comes behind those read before.
LEMMA SeenNext ==
    ASSUME seen \in Seq(Lines), NEW line \in Lines, read(line)
    PROVE  LET n == Len(seen) IN
           /\ n \in Nat /\ seen' \in Seq(Lines) /\ Len(seen') = n + 1
           /\ \A i \in 1..n : seen'[i] = seen[i]
           /\ seen'[n + 1] = line
           /\ \A i \in 1..n + 1 : i \in 1..n \/ i = n + 1
           /\ \A i \in 1..n : i \in 1..n + 1
           /\ n + 1 \in 1..n + 1 /\ n + 1 \notin 1..n
<1>1. seen' = Append(seen, line)
    BY DEF read
<1> QED
    BY <1>1

\* Which lines are events of a type, with another line.
LEMMA EventsNext ==
    ASSUME seen \in Seq(Lines), NEW line \in Lines, read(line), NEW type
    PROVE  LET n == Len(seen) IN
           /\ EventsOf(type) \in SUBSET (1..n)
           /\ EventsOf(type)' = EventsOf(type)
                                \cup (IF IsEventOf(line, type) THEN {n + 1} ELSE {})
<1> DEFINE n == Len(seen)
           D == EventsOf(type)
           E == EventsOf(type)'
<1>1. /\ n \in Nat /\ Len(seen') = n + 1 /\ seen'[n + 1] = line
      /\ \A i \in 1..n : seen'[i] = seen[i]
      /\ \A i \in 1..n + 1 : i \in 1..n \/ i = n + 1
      /\ \A i \in 1..n : i \in 1..n + 1
      /\ n + 1 \in 1..n + 1 /\ n + 1 \notin 1..n
    BY SeenNext
<1>2. \A i : i \in D <=> i \in 1..n /\ IsEventOf(seen[i], type)
    BY DEF EventsOf, IsEventOf
<1>3. \A i : i \in E <=> i \in 1..Len(seen') /\ IsEventOf(seen'[i], type)
    BY DEF EventsOf, IsEventOf
<1> HIDE DEF D, E, n
<1>4. \A i \in 1..n : i \in E <=> i \in D
    BY <1>1, <1>2, <1>3
<1>5. n + 1 \in E <=> IsEventOf(line, type)
    BY <1>1, <1>3
<1>6. E = D \cup (IF IsEventOf(line, type) THEN {n + 1} ELSE {})
    BY <1>1, <1>2, <1>3, <1>4, <1>5
<1>7. D \in SUBSET (1..n)
    BY <1>2
<1> QED
    BY <1>6, <1>7 DEF D, E, n

\* Lines keep their numbers, and an event is given the next one if it has none.
LEMMA NumbersNext ==
    ASSUME seen \in Seq(Lines), NEW line \in Lines, read(line)
    PROVE  LET n == Len(seen) IN
           /\ \A i \in 1..n : eventNumber'[i] = eventNumber[i]
           /\ Cardinality(eventLines) \in Nat
           /\ line.kind # "event" => Cardinality(eventLines)' = Cardinality(eventLines)
           /\ line.kind = "event" =>
                /\ Cardinality(eventLines)' = Cardinality(eventLines) + 1
                /\ records.events = Cardinality(eventLines)
                       => eventNumber'[n + 1] = eventIndex(line)
<1> DEFINE n == Len(seen)
           D == eventLines
           E == eventLines'
           upTo(s, i) == {j \in 1..i : s[j].kind = "event"}
<1>1. /\ n \in Nat /\ Len(seen') = n + 1 /\ seen'[n + 1] = line
      /\ \A i \in 1..n : seen'[i] = seen[i]
      /\ \A i \in 1..n + 1 : i \in 1..n \/ i = n + 1
      /\ \A i \in 1..n : i \in 1..n + 1
      /\ n + 1 \in 1..n + 1 /\ n + 1 \notin 1..n
    BY SeenNext
<1>2. D = {j \in 1..n : seen[j].kind = "event"}
    BY DEF eventLines
<1>3. E = {j \in 1..n + 1 : seen'[j].kind = "event"}
    BY <1>1 DEF eventLines
<1>4. D \in SUBSET (1..n)
    BY <1>2
<1>5. /\ eventNumber' = [i \in 1..n + 1 |-> IF seen'[i].index > 0 THEN seen'[i].index
                                            ELSE Cardinality(upTo(seen', i))]
      /\ eventNumber = [i \in 1..n |-> IF seen[i].index > 0 THEN seen[i].index
                                       ELSE Cardinality(upTo(seen, i))]
    BY <1>1 DEF eventNumber
<1>6. ASSUME NEW i \in 1..n PROVE upTo(seen', i) = upTo(seen, i)
    <2>1. \A j \in 1..i : j \in 1..n
        BY <1>1
    <2> QED
        BY <2>1, <1>1
<1>7. upTo(seen', n + 1) = E
    BY <1>3
<1>8. E = D \cup (IF line.kind = "event" THEN {n + 1} ELSE {})
    BY <1>1, <1>2, <1>3
<1> HIDE DEF D, E, n, upTo
<1>9. \A i \in 1..n : eventNumber'[i] = eventNumber[i]
    BY <1>1, <1>5, <1>6
<1>10. eventNumber'[n + 1] = IF line.index > 0 THEN line.index ELSE Cardinality(E)
    BY <1>1, <1>5, <1>7
<1>11. Cardinality(D) \in Nat
    BY <1>1, <1>4, PartOfInterval
<1>12. line.kind = "event" => Cardinality(E) = Cardinality(D) + 1
    BY <1>1, <1>4, <1>8, AnotherLine
<1>13. line.kind # "event" => Cardinality(E) = Cardinality(D)
    BY <1>8
<1>14. line.kind = "event" /\ records.events = Cardinality(D)
           => eventNumber'[n + 1] = eventIndex(line)
    BY <1>10, <1>12 DEF eventIndex
<1>15. Cardinality(eventLines)' = Cardinality(E) /\ Cardinality(eventLines) = Cardinality(D)
    BY DEF D, E
<1> QED
    BY <1>9, <1>11, <1>12, <1>13, <1>14, <1>15 DEF n

-----------------------------------------------------------------------------
(* The values of the events *)

\* The values of the statuses.
LEMMA StatusValuesNext ==
    ASSUME seen \in Seq(Lines), NEW line \in Lines, read(line)
    PROVE  /\ IsEventOf(line, "20001") =>
                Continues(statusValues', statusValues, Len(seen),
                          safeStatusSequenceValues(line.data))
           /\ ~ IsEventOf(line, "20001") => statusValues' = statusValues
           /\ DOMAIN statusValues \in SUBSET (1..Len(seen))
<1> DEFINE n == Len(seen)
           D == EventsOf("20001")
           E == EventsOf("20001")'
<1>1. /\ D \in SUBSET (1..n)
      /\ E = D \cup (IF IsEventOf(line, "20001") THEN {n + 1} ELSE {})
    BY EventsNext
<1>2. (\A i \in 1..n : seen'[i] = seen[i]) /\ seen'[n + 1] = line
    BY SeenNext
<1>3. /\ statusValues = [i \in D |-> safeStatusSequenceValues(seen[i].data)]
      /\ statusValues' = [i \in E |-> safeStatusSequenceValues(seen'[i].data)]
    BY DEF statusValues
<1> HIDE DEF D, E, n
<1>4. \A i \in D : seen'[i] = seen[i]
    BY <1>1, <1>2
<1>5. ASSUME IsEventOf(line, "20001")
      PROVE  Continues(statusValues', statusValues, n, safeStatusSequenceValues(line.data))
    <2>1. E = D \cup {n + 1}
        BY <1>1, <1>5
    <2>2. /\ DOMAIN statusValues = D /\ DOMAIN statusValues' = E
          /\ \A i \in D : statusValues'[i] = statusValues[i]
          /\ statusValues'[n + 1] = safeStatusSequenceValues(line.data)
        BY <2>1, <1>2, <1>3, <1>4
    <2> QED
        BY <2>1, <2>2, <1>1 DEF Continues
<1>6. ASSUME ~ IsEventOf(line, "20001") PROVE statusValues' = statusValues
    <2>1. E = D
        BY <1>1, <1>6
    <2> QED
        BY <2>1, <1>3, <1>4
<1> QED
    BY <1>1, <1>3, <1>5, <1>6 DEF n

\* The values of the maps.
LEMMA MapValuesNext ==
    ASSUME seen \in Seq(Lines), NEW line \in Lines, read(line)
    PROVE  /\ IsEventOf(line, "20002") =>
                Continues(mapValues', mapValues, Len(seen), safeMapSequenceValues(line.data))
           /\ ~ IsEventOf(line, "20002") => mapValues' = mapValues
           /\ DOMAIN mapValues \in SUBSET (1..Len(seen))
<1> DEFINE n == Len(seen)
           D == EventsOf("20002")
           E == EventsOf("20002")'
<1>1. /\ D \in SUBSET (1..n)
      /\ E = D \cup (IF IsEventOf(line, "20002") THEN {n + 1} ELSE {})
    BY EventsNext
<1>2. (\A i \in 1..n : seen'[i] = seen[i]) /\ seen'[n + 1] = line
    BY SeenNext
<1>3. /\ mapValues = [i \in D |-> safeMapSequenceValues(seen[i].data)]
      /\ mapValues' = [i \in E |-> safeMapSequenceValues(seen'[i].data)]
    BY DEF mapValues
<1> HIDE DEF D, E, n
<1>4. \A i \in D : seen'[i] = seen[i]
    BY <1>1, <1>2
<1>5. ASSUME IsEventOf(line, "20002")
      PROVE  Continues(mapValues', mapValues, n, safeMapSequenceValues(line.data))
    <2>1. E = D \cup {n + 1}
        BY <1>1, <1>5
    <2>2. /\ DOMAIN mapValues = D /\ DOMAIN mapValues' = E
          /\ \A i \in D : mapValues'[i] = mapValues[i]
          /\ mapValues'[n + 1] = safeMapSequenceValues(line.data)
        BY <2>1, <1>2, <1>3, <1>4
    <2> QED
        BY <2>1, <2>2, <1>1 DEF Continues
<1>6. ASSUME ~ IsEventOf(line, "20002") PROVE mapValues' = mapValues
    <2>1. E = D
        BY <1>1, <1>6
    <2> QED
        BY <2>1, <1>3, <1>4
<1> QED
    BY <1>1, <1>3, <1>5, <1>6 DEF n

\* The values of the events of another type.
LEMMA ExtraValuesNext ==
    ASSUME seen \in Seq(Lines), NEW line \in Lines, read(line), NEW type
    PROVE  /\ IsEventOf(line, type) =>
                Continues(valuesOfType(type)', valuesOfType(type), Len(seen), extraValues(line))
           /\ ~ IsEventOf(line, type) => valuesOfType(type)' = valuesOfType(type)
           /\ DOMAIN valuesOfType(type) \in SUBSET (1..Len(seen))
<1> DEFINE n == Len(seen)
           D == EventsOf(type)
           E == EventsOf(type)'
<1>1. /\ D \in SUBSET (1..n)
      /\ E = D \cup (IF IsEventOf(line, type) THEN {n + 1} ELSE {})
    BY EventsNext
<1>2. (\A i \in 1..n : seen'[i] = seen[i]) /\ seen'[n + 1] = line
    BY SeenNext
<1>3. /\ valuesOfType(type) = [i \in D |-> extraValues(seen[i])]
      /\ valuesOfType(type)' = [i \in E |-> extraValues(seen'[i])]
    BY DEF valuesOfType
<1> HIDE DEF D, E, n
<1>4. \A i \in D : seen'[i] = seen[i]
    BY <1>1, <1>2
<1>5. ASSUME IsEventOf(line, type)
      PROVE  Continues(valuesOfType(type)', valuesOfType(type), n, extraValues(line))
    <2>1. E = D \cup {n + 1}
        BY <1>1, <1>5
    <2>2. /\ DOMAIN valuesOfType(type) = D /\ DOMAIN valuesOfType(type)' = E
          /\ \A i \in D : valuesOfType(type)'[i] = valuesOfType(type)[i]
          /\ valuesOfType(type)'[n + 1] = extraValues(line)
        BY <2>1, <1>2, <1>3, <1>4
    <2> QED
        BY <2>1, <2>2, <1>1 DEF Continues
<1>6. ASSUME ~ IsEventOf(line, type) PROVE valuesOfType(type)' = valuesOfType(type)
    <2>1. E = D
        BY <1>1, <1>6
    <2> QED
        BY <2>1, <1>3, <1>4
<1> QED
    BY <1>1, <1>3, <1>5, <1>6 DEF n

\* The paths of the maps.
LEMMA PathIdsNext ==
    ASSUME seen \in Seq(Lines), NEW line \in Lines, read(line)
    PROVE  /\ IsEventOf(line, "20002") =>
                Continues(pathIds', pathIds, Len(seen), pathIdOf(line.data))
           /\ ~ IsEventOf(line, "20002") => pathIds' = pathIds
           /\ DOMAIN pathIds \in SUBSET (1..Len(seen))
<1> DEFINE n == Len(seen)
           D == EventsOf("20002")
           E == EventsOf("20002")'
<1>1. /\ D \in SUBSET (1..n)
      /\ E = D \cup (IF IsEventOf(line, "20002") THEN {n + 1} ELSE {})
    BY EventsNext
<1>2. (\A i \in 1..n : seen'[i] = seen[i]) /\ seen'[n + 1] = line
    BY SeenNext
<1>3. /\ pathIds = [i \in D |-> pathIdOf(seen[i].data)]
      /\ pathIds' = [i \in E |-> pathIdOf(seen'[i].data)]
    BY DEF pathIds
<1> HIDE DEF D, E, n
<1>4. \A i \in D : seen'[i] = seen[i]
    BY <1>1, <1>2
<1>5. ASSUME IsEventOf(line, "20002")
      PROVE  Continues(pathIds', pathIds, n, pathIdOf(line.data))
    <2>1. E = D \cup {n + 1}
        BY <1>1, <1>5
    <2>2. /\ DOMAIN pathIds = D /\ DOMAIN pathIds' = E
          /\ \A i \in D : pathIds'[i] = pathIds[i]
          /\ pathIds'[n + 1] = pathIdOf(line.data)
        BY <2>1, <1>2, <1>3, <1>4
    <2> QED
        BY <2>1, <2>2, <1>1 DEF Continues
<1>6. ASSUME ~ IsEventOf(line, "20002") PROVE pathIds' = pathIds
    <2>1. E = D
        BY <1>1, <1>6
    <2> QED
        BY <2>1, <1>3, <1>4
<1> QED
    BY <1>1, <1>3, <1>5, <1>6 DEF n

\* The sizes of the maps that have one.
LEMMA EncodedSizesNext ==
    ASSUME seen \in Seq(Lines), NEW line \in Lines, read(line)
    PROVE  LET p == payloads(line.data) IN
           /\ IsEventOf(line, "20002") /\ p # <<>> =>
                Continues(encodedSizes', encodedSizes, Len(seen), byteLength(p[1]))
           /\ ~ (IsEventOf(line, "20002") /\ p # <<>>) => encodedSizes' = encodedSizes
           /\ DOMAIN encodedSizes \subseteq EventsOf("20002")
           /\ DOMAIN encodedSizes \in SUBSET (1..Len(seen))
<1> DEFINE n == Len(seen)
           p == payloads(line.data)
           of(i) == payloads(seen[i].data)
           ofNext(i) == payloads(seen'[i].data)
           D == {i \in EventsOf("20002") : of(i) # <<>>}
           E == {i \in EventsOf("20002")' : ofNext(i) # <<>>}
           more == IsEventOf(line, "20002") /\ p # <<>>
<1>1. /\ EventsOf("20002") \in SUBSET (1..n)
      /\ EventsOf("20002")' =
            EventsOf("20002") \cup (IF IsEventOf(line, "20002") THEN {n + 1} ELSE {})
    BY EventsNext
<1>2. (\A i \in 1..n : seen'[i] = seen[i]) /\ seen'[n + 1] = line /\ n + 1 \notin 1..n
    BY SeenNext
<1>3. /\ encodedSizes = [i \in D |-> byteLength(of(i)[1])]
      /\ encodedSizes' = [i \in E |-> byteLength(ofNext(i)[1])]
    BY DEF encodedSizes
<1>4. \A i \in EventsOf("20002") : ofNext(i) = of(i)
    BY <1>1, <1>2
<1>5. ofNext(n + 1) = p
    BY <1>2
<1> HIDE DEF p, of, ofNext
<1>6. E = D \cup (IF more THEN {n + 1} ELSE {})
    BY <1>1, <1>2, <1>4, <1>5
<1>7. D \in SUBSET (1..n) /\ D \subseteq EventsOf("20002")
    BY <1>1
<1>8. \A i \in D : ofNext(i) = of(i)
    BY <1>4
<1> HIDE DEF D, E, n, more
<1>9. ASSUME more PROVE Continues(encodedSizes', encodedSizes, n, byteLength(p[1]))
    <2>1. E = D \cup {n + 1}
        BY <1>6, <1>9
    <2>2. /\ DOMAIN encodedSizes = D /\ DOMAIN encodedSizes' = E
          /\ \A i \in D : encodedSizes'[i] = encodedSizes[i]
          /\ encodedSizes'[n + 1] = byteLength(p[1])
        BY <2>1, <1>3, <1>5, <1>8
    <2> QED
        BY <2>1, <2>2, <1>7 DEF Continues
<1>10. ASSUME ~ more PROVE encodedSizes' = encodedSizes
    <2>1. E = D
        BY <1>6, <1>10
    <2> QED
        BY <2>1, <1>3, <1>8
<1>11. DOMAIN encodedSizes = D
    BY <1>3
<1> QED
    BY <1>7, <1>9, <1>10, <1>11 DEF n, p, more

\* The maps that are not empty.
LEMMA SamplesNext ==
    ASSUME seen \in Seq(Lines), NEW line \in Lines, read(line)
    PROVE  LET p == payloads(line.data) IN
           /\ IsEventOf(line, "20002") /\ p \notin {<<>>, <<<<>>>>} =>
                Continues(samples', samples, Len(seen), p[1])
           /\ ~ (IsEventOf(line, "20002") /\ p \notin {<<>>, <<<<>>>>}) => samples' = samples
           /\ DOMAIN samples \subseteq EventsOf("20002")
           /\ DOMAIN samples \in SUBSET (1..Len(seen))
<1> DEFINE n == Len(seen)
           p == payloads(line.data)
           of(i) == payloads(seen[i].data)
           ofNext(i) == payloads(seen'[i].data)
           D == {i \in EventsOf("20002") : of(i) \notin {<<>>, <<<<>>>>}}
           E == {i \in EventsOf("20002")' : ofNext(i) \notin {<<>>, <<<<>>>>}}
           more == IsEventOf(line, "20002") /\ p \notin {<<>>, <<<<>>>>}
<1>1. /\ EventsOf("20002") \in SUBSET (1..n)
      /\ EventsOf("20002")' =
            EventsOf("20002") \cup (IF IsEventOf(line, "20002") THEN {n + 1} ELSE {})
    BY EventsNext
<1>2. (\A i \in 1..n : seen'[i] = seen[i]) /\ seen'[n + 1] = line /\ n + 1 \notin 1..n
    BY SeenNext
<1>3. /\ samples = [i \in D |-> of(i)[1]]
      /\ samples' = [i \in E |-> ofNext(i)[1]]
    BY DEF samples
<1>4. \A i \in EventsOf("20002") : ofNext(i) = of(i)
    BY <1>1, <1>2
<1>5. ofNext(n + 1) = p
    BY <1>2
<1> HIDE DEF p, of, ofNext
<1>6. E = D \cup (IF more THEN {n + 1} ELSE {})
    BY <1>1, <1>2, <1>4, <1>5
<1>7. D \in SUBSET (1..n) /\ D \subseteq EventsOf("20002")
    BY <1>1
<1>8. \A i \in D : ofNext(i) = of(i)
    BY <1>4
<1> HIDE DEF D, E, n, more
<1>9. ASSUME more PROVE Continues(samples', samples, n, p[1])
    <2>1. E = D \cup {n + 1}
        BY <1>6, <1>9
    <2>2. /\ DOMAIN samples = D /\ DOMAIN samples' = E
          /\ \A i \in D : samples'[i] = samples[i]
          /\ samples'[n + 1] = p[1]
        BY <2>1, <1>3, <1>5, <1>8
    <2> QED
        BY <2>1, <2>2, <1>7 DEF Continues
<1>10. ASSUME ~ more PROVE samples' = samples
    <2>1. E = D
        BY <1>6, <1>10
    <2> QED
        BY <2>1, <1>3, <1>8
<1>11. DOMAIN samples = D
    BY <1>3
<1> QED
    BY <1>7, <1>9, <1>10, <1>11 DEF n, p, more

\* The numbers of a field.
LEMMA NumbersOfNext ==
    ASSUME seen \in Seq(Lines), NEW line \in Lines, read(line), NEW field
    PROVE  numbersOf(field)' =
               numbersOf(field)
               \cup (IF IsEventOf(line, "20002") /\ has(line.data, field, "number")
                     THEN {line.data[field].of} ELSE {})
<1> DEFINE n == Len(seen)
           H(data) == has(data, field, "number")
           more == IsEventOf(line, "20002") /\ H(line.data)
           D == {i \in EventsOf("20002") : H(seen[i].data)}
           E == {i \in EventsOf("20002")' : H(seen'[i].data)}
<1>1. /\ EventsOf("20002") \in SUBSET (1..n)
      /\ EventsOf("20002")' =
            EventsOf("20002") \cup (IF IsEventOf(line, "20002") THEN {n + 1} ELSE {})
    BY EventsNext
<1>2. (\A i \in 1..n : seen'[i] = seen[i]) /\ seen'[n + 1] = line /\ n + 1 \notin 1..n
    BY SeenNext
<1>3. /\ numbersOf(field) = {seen[i].data[field].of : i \in D}
      /\ numbersOf(field)' = {seen'[i].data[field].of : i \in E}
    BY DEF numbersOf
<1> HIDE DEF H
<1>4. E = D \cup (IF more THEN {n + 1} ELSE {})
    BY <1>1, <1>2
<1>5. \A i \in D : seen'[i] = seen[i]
    BY <1>1, <1>2
<1> HIDE DEF D, E, n, more
<1>6. numbersOf(field)' = numbersOf(field) \cup (IF more THEN {line.data[field].of} ELSE {})
    <2>1. CASE more
        <3>1. E = D \cup {n + 1}
            BY <2>1, <1>4
        <3> QED
            BY <2>1, <3>1, <1>2, <1>3, <1>5
    <2>2. CASE ~ more
        <3>1. E = D
            BY <2>2, <1>4
        <3> QED
            BY <2>2, <3>1, <1>3, <1>5
    <2> QED
        BY <2>1, <2>2
<1> QED
    BY <1>6 DEF more, H

\* One of the lines is read.
Reads(line) ==
    \/ Malformed(line) \/ OtherRecord(line) \/ analyzeRunRecord(line)
    \/ analyzeFrameErrorRecord(line) \/ analyzeEventRecord(line)

\* What has been read, and how many events it has.
ReadInv ==
    /\ seen \in Seq(Lines) /\ done \in BOOLEAN
    /\ records = [f \in {"total", "malformed", "runs", "events", "frameErrors"} |-> records[f]]
    /\ records.events = Cardinality(eventLines)

\* What it is to read a line: an event is analysed under its number, another line is not.
LEMMA LineIsRead ==
    ASSUME ReadInv, NEW line \in Lines, Reads(line)
    PROVE  /\ read(line) /\ ~ done /\ ~ done' /\ ReadInv'
           /\ line.kind = "event" => analyzeEvent(line, eventNumber'[Len(seen) + 1])
           /\ line.kind # "event" => UNCHANGED eventVars
<1>1. read(line)
    BY DEF Reads, Malformed, OtherRecord, analyzeRunRecord, analyzeFrameErrorRecord,
           analyzeEventRecord
<1>2. ~ done /\ done' = done
    BY <1>1 DEF read
<1>3. /\ seen \in Seq(Lines) /\ done \in BOOLEAN
      /\ records = [f \in {"total", "malformed", "runs", "events", "frameErrors"} |-> records[f]]
      /\ records.events = Cardinality(eventLines)
    BY DEF ReadInv
<1>4. /\ seen' \in Seq(Lines) /\ Cardinality(eventLines) \in Nat
      /\ line.kind # "event" => Cardinality(eventLines)' = Cardinality(eventLines)
      /\ line.kind = "event" =>
            /\ Cardinality(eventLines)' = Cardinality(eventLines) + 1
            /\ records.events = Cardinality(eventLines)
                   => eventNumber'[Len(seen) + 1] = eventIndex(line)
    BY <1>1, <1>3, SeenNext, NumbersNext
<1>5. /\ records' = [f \in {"total", "malformed", "runs", "events", "frameErrors"}
                        |-> records'[f]]
      /\ line.kind = "event" => records'.events = records.events + 1
      /\ line.kind # "event" => records'.events = records.events
    BY <1>3 DEF Reads, Malformed, OtherRecord, analyzeRunRecord, analyzeFrameErrorRecord,
                analyzeEventRecord
<1>6. ReadInv'
    <2>1. records'.events = Cardinality(eventLines)'
        BY <1>3, <1>4, <1>5
    <2> QED
        BY <2>1, <1>2, <1>3, <1>4, <1>5 DEF ReadInv
<1>7. line.kind = "event" => analyzeEvent(line, eventIndex(line))
    BY DEF Reads, Malformed, OtherRecord, analyzeRunRecord, analyzeFrameErrorRecord,
           analyzeEventRecord
<1>8. line.kind # "event" => UNCHANGED eventVars
    BY DEF Reads, Malformed, OtherRecord, analyzeRunRecord, analyzeFrameErrorRecord,
           analyzeEventRecord
<1> QED
    BY <1>1, <1>2, <1>3, <1>4, <1>6, <1>7, <1>8

-----------------------------------------------------------------------------
(* The sequences of the statuses *)

StatusInv ==
    /\ IsBucket(status20001.sequences)
    /\ Replays(status20001.sequences, statusValues, eventNumber)

\* A status brings its values to the sequences, and another line nothing.
LEMMA StatusStep ==
    ASSUME ReadInv, StatusInv, NEW line \in Lines, Reads(line)
    PROVE  StatusInv'
<1> DEFINE n == Len(seen)
           b == status20001.sequences
           more == eventNumber'
           values == safeStatusSequenceValues(line.data)
<1>1. /\ read(line) /\ seen \in Seq(Lines) /\ n \in Nat
      /\ line.kind = "event" => analyzeEvent(line, more[n + 1])
      /\ line.kind # "event" => UNCHANGED eventVars
    BY LineIsRead DEF ReadInv
<1>2. \A i \in 1..n : more[i] = eventNumber[i]
    BY <1>1, NumbersNext
<1>3. /\ IsEventOf(line, "20001") => Continues(statusValues', statusValues, n, values)
      /\ ~ IsEventOf(line, "20001") => statusValues' = statusValues
      /\ DOMAIN statusValues \in SUBSET (1..n)
    BY <1>1, StatusValuesNext
<1>4. IsBucket(b) /\ Replays(b, statusValues, eventNumber)
    BY DEF StatusInv
<1>5. CASE IsEventOf(line, "20001")
    <2>1. analyzeStatus20001(line.data, more[n + 1])
        BY <1>1, <1>5 DEF IsEventOf, analyzeEvent
    <2>2. status20001'.sequences = updateSequences(b, values, more[n + 1])
        BY <2>1 DEF analyzeStatus20001
    <2> HIDE DEF b, values, more, n
    <2>3. IsBucket(status20001'.sequences) /\ Replays(status20001'.sequences, statusValues', more)
        BY <1>1, <1>2, <1>3, <1>4, <1>5, <2>2, ReplaysNext
    <2> QED
        BY <2>3 DEF StatusInv, more
<1>6. CASE ~ IsEventOf(line, "20001")
    <2>1. status20001' = status20001
        BY <1>1, <1>6 DEF IsEventOf, analyzeEvent, eventVars
    <2> HIDE DEF more, n
    <2>2. Replays(b, statusValues, more)
        BY <1>1, <1>2, <1>3, <1>4, ReplaysSame
    <2> QED
        BY <2>1, <2>2, <1>3, <1>4, <1>6 DEF StatusInv, more
<1> QED
    BY <1>5, <1>6

-----------------------------------------------------------------------------
(* What a map changes *)

MapFields ==
    {"count", "availableCount", "metadataRanges", "areaCounts", "areaSamples",
     "encodedByteRanges", "sequences", "pathSegments", "samples", "stablePrefixBytes",
     "sameSize", "changedSize", "samePayload", "changedPayload", "interpretation"}

IsMap(m) == m = [f \in MapFields |-> m[f]]

\* The parts of the analysis of maps after one of them.
LEMMA MapAnalysed ==
    ASSUME IsMap(map20002), NEW data, NEW n, analyzeMap20002(data, n)
    PROVE  LET p == payloads(data)
               available == p # <<>> /\ p[1] # <<>>
               changed == previousPayload # <<>> /\ previousPayload[1] # p[1]
           IN /\ IsMap(map20002')
              /\ map20002'.sequences =
                     updateSequences(map20002.sequences, safeMapSequenceValues(data), n)
              /\ map20002'.pathSegments = updateMapPathSegment(map20002.pathSegments, data, n)
              /\ map20002'.metadataRanges =
                     updateRanges(map20002.metadataRanges, pick(data, MapMetadata, "number"))
              /\ map20002'.interpretation = map20002.interpretation
              /\ ~ available =>
                    /\ map20002'.samples = map20002.samples
                    /\ map20002'.stablePrefixBytes = map20002.stablePrefixBytes
                    /\ map20002'.changedPayload = map20002.changedPayload
                    /\ UNCHANGED <<firstPayload, previousPayload>>
              /\ available =>
                    /\ map20002'.samples = map20002.samples + 1
                    /\ map20002'.changedPayload =
                           map20002.changedPayload + (IF changed THEN 1 ELSE 0)
                    /\ map20002'.stablePrefixBytes =
                           IF firstPayload = <<>> THEN Len(p[1])
                           ELSE Min({map20002.stablePrefixBytes,
                                     commonPrefixLength(firstPayload[1], p[1])})
                    /\ firstPayload' = (IF firstPayload = <<>> THEN <<p[1]>> ELSE firstPayload)
                    /\ previousPayload' = <<p[1]>>
<1> DEFINE p == payloads(data)
           available == p # <<>> /\ p[1] # <<>>
           m == [map20002 EXCEPT
                 !.count = @ + 1,
                 !.availableCount = @ + (IF available THEN 1 ELSE 0),
                 !.encodedByteRanges = IF available THEN mergeRange(@, byteLength(p[1])) ELSE @,
                 !.pathSegments = updateMapPathSegment(@, data, n),
                 !.metadataRanges = updateRanges(@, pick(data, MapMetadata, "number")),
                 !.areaCounts = increment(@, arrayLengths(data, "area")),
                 !.areaSamples = IF \E k \in arrayLengths(data, "area") : k > 0
                                 THEN Append(@, summarizeMapAreas(data, n)) ELSE @,
                 !.sequences = updateSequences(@, safeMapSequenceValues(data), n)]
<1>1. IF available THEN analyzeMapBlockSignals(m, p[1])
      ELSE map20002' = m /\ UNCHANGED <<firstPayload, previousPayload>>
    BY DEF analyzeMap20002
<1>2. map20002 = [f \in MapFields |-> map20002[f]]
    BY DEF IsMap
<1> HIDE DEF p, available
<1>3. /\ m.sequences = updateSequences(map20002.sequences, safeMapSequenceValues(data), n)
      /\ m.pathSegments = updateMapPathSegment(map20002.pathSegments, data, n)
      /\ m.metadataRanges =
             updateRanges(map20002.metadataRanges, pick(data, MapMetadata, "number"))
      /\ m.interpretation = map20002.interpretation /\ m.samples = map20002.samples
      /\ m.stablePrefixBytes = map20002.stablePrefixBytes
      /\ m.changedPayload = map20002.changedPayload
      /\ m = [f \in MapFields |-> m[f]]
    <2> DEFINE k == map20002
               e1 == k.count + 1
               e2 == k.availableCount + (IF available THEN 1 ELSE 0)
               e3 == IF available THEN mergeRange(k.encodedByteRanges, byteLength(p[1]))
                     ELSE k.encodedByteRanges
               e4 == updateMapPathSegment(k.pathSegments, data, n)
               e5 == updateRanges(k.metadataRanges, pick(data, MapMetadata, "number"))
               e6 == increment(k.areaCounts, arrayLengths(data, "area"))
               e7 == IF \E l \in arrayLengths(data, "area") : l > 0
                     THEN Append(k.areaSamples, summarizeMapAreas(data, n)) ELSE k.areaSamples
               e8 == updateSequences(k.sequences, safeMapSequenceValues(data), n)
    <2>1. m = [k EXCEPT !.count = e1, !.availableCount = e2, !.encodedByteRanges = e3,
                        !.pathSegments = e4, !.metadataRanges = e5, !.areaCounts = e6,
                        !.areaSamples = e7, !.sequences = e8]
        OBVIOUS
    <2> HIDE DEF e1, e2, e3, e4, e5, e6, e7, e8, m, k
    <2>2. k = [f \in MapFields |-> k[f]]
        BY <1>2 DEF k
    <2>3. /\ m.sequences = e8 /\ m.pathSegments = e4 /\ m.metadataRanges = e5
          /\ m.interpretation = k.interpretation /\ m.samples = k.samples
          /\ m.stablePrefixBytes = k.stablePrefixBytes
          /\ m.changedPayload = k.changedPayload
          /\ m = [f \in MapFields |-> m[f]]
        BY <2>1, <2>2 DEF MapFields
    <2> QED
        BY <2>3 DEF e4, e5, e8, k
<1> HIDE DEF m
<1>4. CASE ~ available
    BY <1>1, <1>3, <1>4 DEF IsMap, p, available
<1>5. CASE available
    <2> DEFINE one(b) == IF previousPayload # <<>> /\ b THEN 1 ELSE 0
               q == p[1]
               previous == previousPayload[1]
    <2>1. /\ map20002' = [m EXCEPT
              !.samples = @ + 1,
              !.stablePrefixBytes = IF firstPayload = <<>> THEN Len(q)
                                    ELSE Min({@, commonPrefixLength(firstPayload[1], q)}),
              !.sameSize = @ + one(Len(previous) = Len(q)),
              !.changedSize = @ + one(Len(previous) # Len(q)),
              !.samePayload = @ + one(previous = q),
              !.changedPayload = @ + one(previous # q)]
          /\ firstPayload' = (IF firstPayload = <<>> THEN <<q>> ELSE firstPayload)
          /\ previousPayload' = <<q>>
        BY <1>1, <1>5 DEF analyzeMapBlockSignals
    <2> DEFINE c == one(previous # q)
               l == IF firstPayload = <<>> THEN Len(q)
                    ELSE Min({map20002.stablePrefixBytes, commonPrefixLength(firstPayload[1], q)})
               s1 == one(Len(previous) = Len(q))
               s2 == one(Len(previous) # Len(q))
               s3 == one(previous = q)
    <2>2. map20002' = [m EXCEPT !.samples = @ + 1, !.stablePrefixBytes = l,
                                !.sameSize = @ + s1, !.changedSize = @ + s2,
                                !.samePayload = @ + s3, !.changedPayload = @ + c]
        BY <2>1, <1>3
    <2>3. c = IF previousPayload # <<>> /\ previousPayload[1] # p[1] THEN 1 ELSE 0
        OBVIOUS
    <2> HIDE DEF one, c, s1, s2, s3
    <2> DEFINE w == map20002'
    <2>4. /\ w.samples = map20002.samples + 1 /\ w.stablePrefixBytes = l
          /\ w.changedPayload = map20002.changedPayload + c
          /\ w.sequences = m.sequences /\ w.pathSegments = m.pathSegments
          /\ w.metadataRanges = m.metadataRanges /\ w.interpretation = m.interpretation
          /\ w = [f \in MapFields |-> w[f]]
        <3> HIDE DEF l
        <3> QED
            BY <2>2, <1>3 DEF MapFields
    <2> QED
        BY <2>1, <2>3, <2>4, <1>3, <1>5 DEF IsMap, p, available
<1> QED
    BY <1>4, <1>5

\* A map event is analysed as one; any other line leaves the analysis of maps alone.
LEMMA MapIsRead ==
    ASSUME ReadInv, NEW line \in Lines, Reads(line)
    PROVE  /\ IsEventOf(line, "20002") =>
                analyzeMap20002(line.data, eventNumber'[Len(seen) + 1])
           /\ ~ IsEventOf(line, "20002") => UNCHANGED <<map20002, firstPayload, previousPayload>>
<1>1. /\ line.kind = "event" => analyzeEvent(line, eventNumber'[Len(seen) + 1])
      /\ line.kind # "event" => UNCHANGED eventVars
    BY LineIsRead
<1> QED
    BY <1>1 DEF IsEventOf, analyzeEvent, eventVars

-----------------------------------------------------------------------------
(* The sequences of the maps *)

MapInv ==
    /\ IsMap(map20002)
    /\ IsBucket(map20002.sequences)
    /\ Replays(map20002.sequences, mapValues, eventNumber)

\* A map brings its values to the sequences, and another line nothing.
LEMMA MapStep ==
    ASSUME ReadInv, MapInv, NEW line \in Lines, Reads(line)
    PROVE  MapInv'
<1> DEFINE n == Len(seen)
           b == map20002.sequences
           more == eventNumber'
           values == safeMapSequenceValues(line.data)
<1>1. /\ read(line) /\ seen \in Seq(Lines) /\ n \in Nat
      /\ IsEventOf(line, "20002") => analyzeMap20002(line.data, more[n + 1])
      /\ ~ IsEventOf(line, "20002") => map20002' = map20002
    BY LineIsRead, MapIsRead DEF ReadInv
<1>2. \A i \in 1..n : more[i] = eventNumber[i]
    BY <1>1, NumbersNext
<1>3. /\ IsEventOf(line, "20002") => Continues(mapValues', mapValues, n, values)
      /\ ~ IsEventOf(line, "20002") => mapValues' = mapValues
      /\ DOMAIN mapValues \in SUBSET (1..n)
    BY <1>1, MapValuesNext
<1>4. IsBucket(b) /\ Replays(b, mapValues, eventNumber) /\ IsMap(map20002)
    BY DEF MapInv
<1>5. CASE IsEventOf(line, "20002")
    <2> HIDE DEF more, n
    <2>3. IsMap(map20002) /\ analyzeMap20002(line.data, more[n + 1])
        BY <1>1, <1>4, <1>5
    <2>4. IsMap(map20002')
        BY <2>3, MapAnalysed
    <2>5. map20002'.sequences =
              updateSequences(map20002.sequences, safeMapSequenceValues(line.data), more[n + 1])
        BY <2>3, MapAnalysed
    <2>1. map20002'.sequences = updateSequences(b, values, more[n + 1]) /\ IsMap(map20002')
        BY <2>4, <2>5
    <2> HIDE DEF b, values
    <2>2. IsBucket(map20002'.sequences) /\ Replays(map20002'.sequences, mapValues', more)
        <3> DEFINE g == mapValues'
                   given == mapValues
        <3>1. Continues(g, given, n, values) /\ IsBucket(b) /\ Replays(b, given, eventNumber)
            BY <1>3, <1>4, <1>5
        <3> HIDE DEF g, given
        <3>2. /\ IsBucket(updateSequences(b, values, more[n + 1]))
              /\ Replays(updateSequences(b, values, more[n + 1]), g, more)
            BY <1>1, <1>2, <3>1, ReplaysNext
        <3> QED
            BY <2>1, <3>2 DEF g
    <2> QED
        BY <2>1, <2>2 DEF MapInv, more
<1>6. CASE ~ IsEventOf(line, "20002")
    <2>1. map20002' = map20002
        BY <1>1, <1>6
    <2> HIDE DEF more, n
    <2>2. Replays(b, mapValues, more)
        BY <1>1, <1>2, <1>3, <1>4, ReplaysSame
    <2> QED
        BY <2>1, <2>2, <1>3, <1>4, <1>6 DEF MapInv, more
<1> QED
    BY <1>5, <1>6

-----------------------------------------------------------------------------
(* The sequences of the other types *)

\* The sequences of a type are those of its events.  Until the end a type that has an event
\* has its bucket, though it be empty.
OfType(type, x) ==
    IF type \in DOMAIN x
    THEN IsBucket(x[type]) /\ Replays(x[type], valuesOfType(type), eventNumber)
    ELSE \A i \in EventsOf(type) : done /\ DOMAIN extraValues(seen[i]) = {}

ExtraInv ==
    /\ analysisEvents = [f \in {"infoTypes", "dataShapes", "fieldOccurrences",
                                "extraSequences"} |-> analysisEvents[f]]
    /\ DOMAIN analysisEvents.extraSequences \subseteq extraTypes
    /\ \A type \in extraTypes : OfType(type, analysisEvents.extraSequences)

\* What another line does to the sequences of the other types.
LEMMA ExtraIsRead ==
    ASSUME ReadInv, ExtraInv, NEW line \in Lines, Reads(line)
    PROVE  LET x == analysisEvents.extraSequences
               y == analysisEvents'.extraSequences
               t == line.infoType
               isExtra == IsEventOf(line, t) /\ t \notin {"20001", "20002"}
           IN /\ analysisEvents' = [f \in {"infoTypes", "dataShapes", "fieldOccurrences",
                                           "extraSequences"} |-> analysisEvents'[f]]
              /\ ~ isExtra => y = x
              /\ isExtra => y = with(x, t, updateSequences(entryOf(x, t), extraValues(line),
                                                           eventNumber'[Len(seen) + 1]))
<1>1. /\ line.kind = "event" => analyzeEvent(line, eventNumber'[Len(seen) + 1])
      /\ line.kind # "event" => UNCHANGED eventVars
    BY LineIsRead
<1>2. analysisEvents = [f \in {"infoTypes", "dataShapes", "fieldOccurrences",
                               "extraSequences"} |-> analysisEvents[f]]
    BY DEF ExtraInv
<1>3. CASE line.kind = "event"
    <2> DEFINE m == eventNumber'[Len(seen) + 1]
               t == line.infoType
               x == analysisEvents.extraSequences
               e1 == count(analysisEvents.infoTypes, t)
               e2 == with(analysisEvents.dataShapes, t, DOMAIN line.data)
               e3 == IF line.object
                     THEN with(analysisEvents.fieldOccurrences, t,
                               increment(entryOf(analysisEvents.fieldOccurrences, t),
                                         DOMAIN line.data))
                     ELSE analysisEvents.fieldOccurrences
               e4 == IF line.object /\ t \notin {"20001", "20002"}
                     THEN with(x, t, updateSequences(entryOf(x, t), extraValues(line), m))
                     ELSE x
    <2>1. analysisEvents' = [infoTypes |-> e1, dataShapes |-> e2, fieldOccurrences |-> e3,
                             extraSequences |-> e4]
        BY <1>1, <1>3 DEF analyzeEvent
    <2>2. IsEventOf(line, t) <=> line.object
        BY <1>3 DEF IsEventOf
    <2>3. t \notin {"20001", "20002"} /\ IsEventOf(line, t) =>
              e4 = with(x, t, updateSequences(entryOf(x, t), extraValues(line), m))
        BY <2>2
    <2>4. ~ (t \notin {"20001", "20002"} /\ IsEventOf(line, t)) => e4 = x
        BY <2>2
    <2> HIDE DEF e1, e2, e3, e4
    <2>5. analysisEvents'.extraSequences = e4
        BY <2>1
    <2>6. analysisEvents' = [f \in {"infoTypes", "dataShapes", "fieldOccurrences",
                                    "extraSequences"} |-> analysisEvents'[f]]
        BY <2>1
    <2> QED
        BY <2>3, <2>4, <2>5, <2>6
<1>4. CASE line.kind # "event"
    BY <1>1, <1>2, <1>4 DEF IsEventOf, eventVars
<1> QED
    BY <1>3, <1>4

\* The types are those before and that of the line.
LEMMA TypesNext ==
    ASSUME seen \in Seq(Lines), NEW line \in Lines, read(line)
    PROVE  extraTypes' = extraTypes \cup ({line.infoType} \ {"20001", "20002"})
<1>1. /\ Len(seen') = Len(seen) + 1 /\ seen'[Len(seen) + 1] = line
      /\ \A i \in 1..Len(seen) : seen'[i] = seen[i]
      /\ \A i \in 1..Len(seen) + 1 : i \in 1..Len(seen) \/ i = Len(seen) + 1
      /\ \A i \in 1..Len(seen) : i \in 1..Len(seen) + 1
      /\ Len(seen) + 1 \in 1..Len(seen) + 1
    BY SeenNext
<1> DEFINE n == Len(seen)
<1>2. extraTypes = {seen[i].infoType : i \in 1..n} \ {"20001", "20002"}
    BY DEF extraTypes
<1>3. extraTypes' = {seen'[i].infoType : i \in 1..n + 1} \ {"20001", "20002"}
    BY <1>1 DEF extraTypes
<1> HIDE DEF n
<1>4. {seen'[i].infoType : i \in 1..n + 1} =
          {seen[i].infoType : i \in 1..n} \cup {line.infoType}
    BY <1>1 DEF n
<1> QED
    BY <1>2, <1>3, <1>4

\* An event brings its values to the sequences of its type, and to no other.
LEMMA ExtraStep ==
    ASSUME ReadInv, ExtraInv, NEW line \in Lines, Reads(line)
    PROVE  ExtraInv'
<1> DEFINE n == Len(seen)
           x == analysisEvents.extraSequences
           y == analysisEvents'.extraSequences
           t == line.infoType
           isExtra == IsEventOf(line, t) /\ t \notin {"20001", "20002"}
           more == eventNumber'
           values == extraValues(line)
           b == updateSequences(entryOf(x, t), values, more[n + 1])
<1>1. read(line) /\ seen \in Seq(Lines) /\ n \in Nat /\ ~ done
    BY LineIsRead DEF ReadInv
<1>2. \A i \in 1..n : more[i] = eventNumber[i]
    BY <1>1, NumbersNext
<1>3. /\ analysisEvents' = [f \in {"infoTypes", "dataShapes", "fieldOccurrences",
                                   "extraSequences"} |-> analysisEvents'[f]]
      /\ ~ isExtra => y = x
      /\ isExtra => y = with(x, t, b)
    BY ExtraIsRead
<1>4. extraTypes' = extraTypes \cup ({t} \ {"20001", "20002"})
    BY <1>1, TypesNext
<1>5. DOMAIN x \subseteq extraTypes /\ \A type \in extraTypes : OfType(type, x)
    BY DEF ExtraInv
<1>6. isExtra => y = [k \in DOMAIN x \cup {t} |-> IF k = t THEN b ELSE x[k]]
    BY <1>3 DEF with
<1>7. ASSUME NEW type
      PROVE  /\ IsEventOf(line, type) =>
                    Continues(valuesOfType(type)', valuesOfType(type), n, values)
             /\ ~ IsEventOf(line, type) => valuesOfType(type)' = valuesOfType(type)
             /\ DOMAIN valuesOfType(type) \in SUBSET (1..n)
             /\ DOMAIN valuesOfType(type) = EventsOf(type)
             /\ EventsOf(type)' = EventsOf(type)
                                  \cup (IF IsEventOf(line, type) THEN {n + 1} ELSE {})
    <2>1. DOMAIN valuesOfType(type) = EventsOf(type)
        BY DEF valuesOfType
    <2> QED
        BY <2>1, <1>1, ExtraValuesNext, EventsNext
<1>8. \A type : IsEventOf(line, type) => type = t
    BY DEF IsEventOf
<1>9. ASSUME NEW type, type \notin DOMAIN x, type \notin {"20001", "20002"}
      PROVE  EventsOf(type) = {}
    <2>1. CASE type \in extraTypes
        BY <1>1, <1>5, <1>9, <2>1 DEF OfType
    <2>2. CASE type \notin extraTypes
        BY <1>9, <2>2 DEF extraTypes, EventsOf
    <2> QED
        BY <2>1, <2>2
<1> HIDE DEF n, x, y, t, more, values, b
<1>10. DOMAIN y \subseteq extraTypes'
    BY <1>3, <1>4, <1>5, <1>6
<1>11. ASSUME NEW type \in extraTypes', type # t \/ ~ isExtra
       PROVE  IF type \in DOMAIN y
              THEN IsBucket(y[type]) /\ Replays(y[type], valuesOfType(type)', more)
              ELSE EventsOf(type)' = {}
    <2>1. type \notin {"20001", "20002"}
        BY <1>4 DEF extraTypes
    <2>2. ~ IsEventOf(line, type)
        BY <1>8, <1>11, <2>1
    <2>3. (type \in DOMAIN y <=> type \in DOMAIN x) /\ (type \in DOMAIN x => y[type] = x[type])
        BY <1>3, <1>6, <1>11
    <2>4. CASE type \in DOMAIN x
        <3>1. IsBucket(x[type]) /\ Replays(x[type], valuesOfType(type), eventNumber)
            BY <1>5, <2>4 DEF OfType
        <3>2. Replays(x[type], valuesOfType(type), more)
            BY <1>1, <1>2, <1>7, <3>1, ReplaysSame
        <3> QED
            BY <1>7, <2>2, <2>3, <2>4, <3>1, <3>2
    <2>5. CASE type \notin DOMAIN x
        BY <1>7, <1>9, <2>1, <2>2, <2>3, <2>5
    <2> QED
        BY <2>4, <2>5
<1>12. ASSUME isExtra
       PROVE  t \in DOMAIN y /\ IsBucket(y[t]) /\ Replays(y[t], valuesOfType(t)', more)
    <2> DEFINE old == entryOf(x, t)
    <2>1. IsBucket(old) /\ Replays(old, valuesOfType(t), eventNumber)
        <3>1. CASE t \in DOMAIN x
            <4>1. old = x[t]
                BY <3>1 DEF entryOf
            <4> QED
                BY <3>1, <4>1, <1>5 DEF OfType
        <3>2. CASE t \notin DOMAIN x
            <4>1. DOMAIN old = {}
                BY <3>2 DEF entryOf, Empty
            <4>2. DOMAIN valuesOfType(t) = {}
                BY <3>2, <1>7, <1>9, <1>12
            <4>3. keysOf(valuesOfType(t)) = {}
                BY <4>2 DEF keysOf
            <4> QED
                BY <4>1, <4>3 DEF IsBucket, Replays
        <3> QED
            BY <3>1, <3>2
    <2>2. t \in DOMAIN y /\ y[t] = b
        BY <1>6, <1>12
    <2>3. Continues(valuesOfType(t)', valuesOfType(t), n, values)
        BY <1>7, <1>12
    <2>4. b = updateSequences(old, values, more[n + 1])
        BY DEF b
    <2> HIDE DEF old
    <2>5. IsBucket(b) /\ Replays(b, valuesOfType(t)', more)
        BY <1>1, <1>2, <2>1, <2>3, <2>4, ReplaysNext
    <2> QED
        BY <2>2, <2>5
<1>13. ASSUME NEW type \in extraTypes' PROVE OfType(type, analysisEvents.extraSequences)'
    <2>1. /\ type \in DOMAIN y =>
                IsBucket(y[type]) /\ Replays(y[type], valuesOfType(type)', more)
          /\ type \notin DOMAIN y => EventsOf(type)' = {}
        BY <1>11, <1>12
    <2> QED
        BY <2>1 DEF OfType, y, more
<1> QED
    BY <1>3, <1>10, <1>13 DEF ExtraInv, y

-----------------------------------------------------------------------------
(* Ranges *)

\* The range is that of the numbers of the set.
IsRangeOf(r, S) ==
    /\ r = [f \in {"min", "max", "count"} |-> r[f]]
    /\ S \subseteq Int /\ r.count \in Nat /\ (r.count = 0 <=> S = {})
    /\ S # {} => /\ r.min \in S /\ r.max \in S
                 /\ \A x \in S : r.min <= x /\ x <= r.max

\* It is one of no number before there is any.
LEMMA NoRangeYet == IsRangeOf(NoRange, {})
<1>1. NoRange.count = 0 /\ NoRange = [f \in {"min", "max", "count"} |-> NoRange[f]]
    BY DEF NoRange
<1> QED
    BY <1>1 DEF IsRangeOf

\* The bounds of a range are the least and the greatest number.
LEMMA RangeBounds ==
    ASSUME NEW r, NEW S, IsRangeOf(r, S), S # {}
    PROVE  Min(S) = r.min /\ Max(S) = r.max
<1>1. /\ S \subseteq Int /\ r.min \in S /\ r.max \in S
      /\ \A x \in S : r.min <= x /\ x <= r.max
    BY DEF IsRangeOf
<1> QED
    BY <1>1, LeastIs, GreatestIs

\* The least and the greatest of two numbers.
LEMMA OfTwo ==
    ASSUME NEW a \in Int, NEW b \in Int
    PROVE  Min({a, b}) = (IF a <= b THEN a ELSE b) /\ Max({a, b}) = (IF a <= b THEN b ELSE a)
<1> DEFINE S == {a, b}
<1>1. S \subseteq Int /\ a \in S /\ b \in S /\ \A x \in S : x = a \/ x = b
    OBVIOUS
<1> HIDE DEF S
<1>2. CASE a <= b
    <2>1. (\A x \in S : a <= x) /\ (\A x \in S : x <= b)
        BY <1>1, <1>2
    <2>2. Min(S) = a /\ Max(S) = b
        BY <1>1, <2>1, LeastIs, GreatestIs
    <2> QED
        BY <1>2, <2>2 DEF S
<1>3. CASE ~ (a <= b)
    <2>1. (\A x \in S : b <= x) /\ (\A x \in S : x <= a)
        BY <1>1, <1>3
    <2>2. Min(S) = b /\ Max(S) = a
        BY <1>1, <2>1, LeastIs, GreatestIs
    <2> QED
        BY <1>3, <2>2 DEF S
<1> QED
    BY <1>2, <1>3

\* Another number is merged into a range.
LEMMA RangeNext ==
    ASSUME NEW r, NEW S, IsRangeOf(r, S), NEW y \in Int
    PROVE  IsRangeOf(mergeRange(r, y), S \cup {y})
<1> DEFINE q == mergeRange(r, y)
           U == S \cup {y}
<1>1. /\ S \subseteq Int /\ r.count \in Nat /\ (r.count = 0 <=> S = {})
      /\ S # {} => /\ r.min \in S /\ r.max \in S
                   /\ \A x \in S : r.min <= x /\ x <= r.max
    BY DEF IsRangeOf
<1>2. U \subseteq Int /\ U # {} /\ y \in U /\ S \subseteq U /\ \A x \in U : x \in S \/ x = y
    BY <1>1
<1>3. CASE r.count = 0
    <2>1. q = [min |-> y, max |-> y, count |-> 1]
        BY <1>3 DEF mergeRange
    <2>2. \A x \in U : x = y
        BY <1>1, <1>2, <1>3
    <2> HIDE DEF q, U
    <2>3. /\ q = [f \in {"min", "max", "count"} |-> q[f]]
          /\ q.min = y /\ q.max = y /\ q.count = 1
        BY <2>1
    <2>4. IsRangeOf(q, U)
        BY <1>2, <2>2, <2>3 DEF IsRangeOf
    <2> QED
        BY <2>4 DEF q, U
<1>4. CASE r.count # 0
    <2> DEFINE a == Min({r.min, y})
               b == Max({r.max, y})
    <2>1. q = [min |-> a, max |-> b, count |-> r.count + 1]
        BY <1>4 DEF mergeRange
    <2>2. /\ r.min \in S /\ r.max \in S /\ r.min \in Int /\ r.max \in Int
          /\ \A x \in S : r.min <= x /\ x <= r.max /\ x \in Int
        BY <1>1, <1>4
    <2>3. /\ a = (IF r.min <= y THEN r.min ELSE y)
          /\ b = (IF r.max <= y THEN y ELSE r.max)
        BY <2>2, OfTwo
    <2> HIDE DEF a, b
    <2>4. /\ a \in U /\ b \in U /\ a <= y /\ y <= b /\ a <= r.min /\ r.max <= b
        BY <2>2, <2>3, <1>2
    <2>5. \A x \in U : a <= x /\ x <= b
        BY <2>2, <2>4, <1>2
    <2> HIDE DEF q, U
    <2>6. /\ q = [f \in {"min", "max", "count"} |-> q[f]]
          /\ q.min = a /\ q.max = b /\ q.count = r.count + 1
        BY <2>1
    <2>7. q.count \in Nat /\ q.count # 0
        BY <2>6, <1>1
    <2>8. IsRangeOf(q, U)
        BY <1>2, <2>4, <2>5, <2>6, <2>7 DEF IsRangeOf
    <2> QED
        BY <2>8 DEF q, U
<1> QED
    BY <1>3, <1>4

-----------------------------------------------------------------------------
(* Stretches *)

\* The first line starts a stretch; all starts are lines, and so are those of a stretch.
LEMMA StretchLines ==
    ASSUME NEW n \in Nat, NEW id, DOMAIN id \in SUBSET (1..n)
    PROVE  /\ starts(id) \in SUBSET (1..n) /\ starts(id) \subseteq DOMAIN id
           /\ DOMAIN id # {} => starts(id) # {}
           /\ \A i \in starts(id) : /\ i \in stretch(id, i)
                                    /\ stretch(id, i) \in SUBSET (1..n)
                                    /\ stretch(id, i) \subseteq DOMAIN id
<1>1. starts(id) \subseteq DOMAIN id
    BY DEF starts, moves
<1>2. ASSUME DOMAIN id # {} PROVE starts(id) # {}
    <2>1. Min(DOMAIN id) \in DOMAIN id
        BY <1>2, LineEnds
    <2> QED
        BY <2>1 DEF starts
<1>3. ASSUME NEW i \in starts(id)
      PROVE  i \in stretch(id, i) /\ stretch(id, i) \subseteq DOMAIN id
    <2>1. i \in DOMAIN id /\ i \in Int /\ i >= i
        BY <1>1
    <2> QED
        BY <2>1 DEF stretch
<1> QED
    BY <1>1, <1>2, <1>3

\* The same id again extends the last stretch.
LEMMA SameStretch ==
    ASSUME NEW n \in Nat, NEW w, NEW id, NEW x, Continues(w, id, n, x),
           DOMAIN id # {}, x = id[Max(DOMAIN id)]
    PROVE  /\ starts(w) = starts(id) /\ Max(starts(id)) \in starts(id)
           /\ stretch(w, Max(starts(id))) = stretch(id, Max(starts(id))) \cup {n + 1}
           /\ \A i \in starts(id) : i # Max(starts(id)) => stretch(w, i) = stretch(id, i)
<1> DEFINE D == DOMAIN id
           S == starts(id)
           m == Max(S)
<1>1. D \in SUBSET (1..n) /\ DOMAIN w = D \cup {n + 1} /\ n + 1 \notin D
    BY DEF Continues
<1>2. moves(w) = moves(id) /\ Min(DOMAIN w) = Min(D)
    <2>1. moves(w) = moves(id)
        BY AnotherMove
    <2>2. Min(D \cup {n + 1}) = Min(D)
        BY <1>1, AnotherLine
    <2> QED
        BY <1>1, <2>1, <2>2
<1>2a. Min(D) \in D
    BY <1>1, LineEnds
<1>3. starts(w) = S
    BY <1>1, <1>2, <1>2a DEF starts
<1>4. S \in SUBSET (1..n) /\ S # {} /\ S \subseteq D
    BY <1>1, StretchLines
<1>5. m \in S /\ \A k \in S : k <= m
    BY <1>4, LineEnds
<1>6. \A i : stretch(id, i) = {j \in D : j >= i /\ \A k \in S : k <= j => k <= i}
    BY DEF stretch
<1>7. \A i : stretch(w, i) = {j \in D \cup {n + 1} : j >= i /\ \A k \in S : k <= j => k <= i}
    BY <1>1, <1>3 DEF stretch
<1> HIDE DEF D, S, m
<1>8. \A k \in S : k \in Int /\ k <= n + 1 /\ k <= n
    BY <1>4
<1>9. stretch(w, m) = stretch(id, m) \cup {n + 1}
    <2>1. n + 1 >= m /\ \A k \in S : k <= n + 1 => k <= m
        BY <1>5, <1>8
    <2> QED
        BY <1>6, <1>7, <2>1
<1>10. ASSUME NEW i \in S, i # m PROVE stretch(w, i) = stretch(id, i)
    <2>1. m \in S /\ m <= n + 1 /\ ~ (m <= i)
        BY <1>5, <1>8, <1>10
    <2>2. ~ \A k \in S : k <= n + 1 => k <= i
        BY <2>1
    <2>3. n + 1 \notin stretch(w, i)
        BY <1>7, <2>2
    <2>4. \A j \in D : j \in stretch(w, i) <=> j \in stretch(id, i)
        BY <1>6, <1>7
    <2>5. stretch(w, i) \subseteq D \cup {n + 1} /\ stretch(id, i) \subseteq D
        BY <1>6, <1>7
    <2> QED
        BY <2>3, <2>4, <2>5
<1> QED
    BY <1>3, <1>5, <1>9, <1>10 DEF S, m

\* Another id, or the first one, starts a stretch, which has no other line yet.
LEMMA NewStretch ==
    ASSUME NEW n \in Nat, NEW w, NEW id, NEW x, Continues(w, id, n, x),
           DOMAIN id = {} \/ x # id[Max(DOMAIN id)]
    PROVE  /\ starts(w) = starts(id) \cup {n + 1} /\ stretch(w, n + 1) = {n + 1}
           /\ \A i \in starts(id) : stretch(w, i) = stretch(id, i)
<1> DEFINE D == DOMAIN id
           S == starts(id)
<1>1. D \in SUBSET (1..n) /\ DOMAIN w = D \cup {n + 1} /\ n + 1 \notin D
    BY DEF Continues
<1>2. S \in SUBSET (1..n) /\ S \subseteq D
    BY <1>1, StretchLines
<1>3. starts(w) = S \cup {n + 1}
    <2>1. CASE D = {}
        <3>1. S = {} /\ DOMAIN w = {n + 1}
            BY <2>1, <1>1, <1>2
        <3>2. moves(w) = {}
            BY <2>1, AnotherMove
        <3>3. Min(D \cup {n + 1}) = n + 1
            BY <2>1, <1>1, AnotherLine
        <3> QED
            BY <1>1, <3>1, <3>2, <3>3 DEF starts
    <2>2. CASE D # {}
        <3>1. moves(w) = moves(id) \cup {n + 1}
            BY <2>2, AnotherMove
        <3>2. Min(D \cup {n + 1}) = Min(D)
            BY <2>2, <1>1, AnotherLine
        <3>3. Min(D) \in D
            BY <2>2, <1>1, LineEnds
        <3> QED
            BY <3>1, <3>2, <3>3, <1>1 DEF starts
    <2> QED
        BY <2>1, <2>2
<1>4. \A i : stretch(id, i) = {j \in D : j >= i /\ \A k \in S : k <= j => k <= i}
    BY DEF stretch
<1>5. \A i : stretch(w, i) = {j \in D \cup {n + 1} :
                                 j >= i /\ \A k \in S \cup {n + 1} : k <= j => k <= i}
    BY <1>1, <1>3 DEF stretch
<1> HIDE DEF D, S
<1>6. /\ \A j \in D : j \in Int /\ ~ (j >= n + 1) /\ ~ (n + 1 <= j)
      /\ \A k \in S : k \in Int /\ k <= n + 1 /\ ~ (n + 1 <= k)
    BY <1>1, <1>2
<1>7. stretch(w, n + 1) = {n + 1}
    BY <1>5, <1>6
<1>8. ASSUME NEW i \in S PROVE stretch(w, i) = stretch(id, i)
    <2>1. n + 1 \in S \cup {n + 1} /\ n + 1 <= n + 1 /\ ~ (n + 1 <= i)
        BY <1>6
    <2>2. n + 1 \notin stretch(w, i)
        BY <1>5, <2>1
    <2>3. ASSUME NEW j \in D PROVE j \in stretch(w, i) <=> j \in stretch(id, i)
        BY <1>4, <1>5, <1>6
    <2>4. stretch(w, i) \subseteq D \cup {n + 1} /\ stretch(id, i) \subseteq D
        BY <1>4, <1>5
    <2> QED
        BY <2>2, <2>3, <2>4
<1> QED
    BY <1>3, <1>7, <1>8 DEF S

-----------------------------------------------------------------------------
(* Segments *)

SegmentFields == {"pathId", "firstEvent", "lastEvent", "events", "encodedBytes", "decodedBytes",
                  "areaCounts"}

\* The segment is one of the given lines, which began with the given path and number.
IsOfLines(segment, lines, size, path, first) ==
    /\ segment = [f \in SegmentFields |-> segment[f]]
    /\ segment.pathId = path /\ segment.firstEvent = first
    /\ segment.events = Cardinality(lines)
    /\ IsRangeOf(segment.encodedBytes, sizesOf(size, lines))

IsSegment(segment, i, id, size, number) ==
    /\ IsOfLines(segment, stretch(id, i), size, id[i], number[i])
    /\ segment.lastEvent = number[Max(stretch(id, i))]

\* The sizes of the maps, when another map has the payloads p.
SizesContinue(more, size, n, p) ==
    /\ DOMAIN size \in SUBSET (1..n)
    /\ p = <<>> => more = size
    /\ p # <<>> => byteLength(p[1]) \in Int /\ Continues(more, size, n, byteLength(p[1]))

\* A segment says what is asked of it.
LEMMA SegmentTells ==
    ASSUME NEW segment, NEW i, NEW id, NEW size, NEW number,
           IsSegment(segment, i, id, size, number)
    PROVE  IsOfStretch(segment, i, id, size, number)
<1> DEFINE sizes == sizesOf(size, stretch(id, i))
<1>1. /\ segment.pathId = id[i] /\ segment.firstEvent = number[i]
      /\ segment.events = Cardinality(stretch(id, i))
      /\ segment.lastEvent = number[Max(stretch(id, i))]
      /\ IsRangeOf(segment.encodedBytes, sizes)
    BY DEF IsSegment, IsOfLines
<1>2. sizes # {} => Min(sizes) = segment.encodedBytes.min /\ Max(sizes) = segment.encodedBytes.max
    <2> HIDE DEF sizes
    <2> QED
        BY <1>1, RangeBounds
<1> QED
    BY <1>1, <1>2 DEF IsOfStretch

\* The sizes of lines read before stay.
LEMMA SizesStay ==
    ASSUME NEW n \in Nat, NEW more, NEW size, NEW p, SizesContinue(more, size, n, p),
           NEW lines \in SUBSET (1..n)
    PROVE  sizesOf(more, lines) = sizesOf(size, lines)
<1> DEFINE L == lines \cap DOMAIN size
<1>1. sizesOf(size, lines) = {size[j] : j \in L}
    BY DEF sizesOf
<1>2. n + 1 \notin lines
    OBVIOUS
<1>3. \A j \in L : more[j] = size[j]
    BY DEF SizesContinue, Continues
<1>4. lines \cap DOMAIN more = L
    BY <1>2 DEF SizesContinue, Continues
<1>5. sizesOf(more, lines) = {more[j] : j \in L}
    BY <1>4 DEF sizesOf
<1> HIDE DEF L
<1> QED
    BY <1>1, <1>3, <1>5

\* That of the new line is added.
LEMMA SizesNext ==
    ASSUME NEW n \in Nat, NEW more, NEW size, NEW p, SizesContinue(more, size, n, p),
           NEW lines \in SUBSET (1..n)
    PROVE  sizesOf(more, lines \cup {n + 1}) =
               sizesOf(size, lines) \cup (IF p = <<>> THEN {} ELSE {byteLength(p[1])})
<1>1. sizesOf(more, lines) = sizesOf(size, lines)
    BY SizesStay
<1>2. DOMAIN size \in SUBSET (1..n) /\ n + 1 \notin DOMAIN size
    BY DEF SizesContinue
<1>3. CASE p = <<>>
    <2>1. more = size /\ (lines \cup {n + 1}) \cap DOMAIN size = lines \cap DOMAIN size
        BY <1>2, <1>3 DEF SizesContinue
    <2> QED
        BY <2>1, <1>3 DEF sizesOf
<1>4. CASE p # <<>>
    <2>1. n + 1 \in DOMAIN more /\ more[n + 1] = byteLength(p[1])
        BY <1>4 DEF SizesContinue, Continues
    <2>2. sizesOf(more, lines \cup {n + 1}) = sizesOf(more, lines) \cup {more[n + 1]}
        BY <2>1 DEF sizesOf
    <2> QED
        BY <2>1, <2>2, <1>1, <1>4
<1> QED
    BY <1>3, <1>4

\* A new segment is one of no line.
LEMMA SegmentBegins ==
    ASSUME NEW data, NEW m, NEW size
    PROVE  IsOfLines(newSegment(data, m), {}, size, pathIdOf(data), m)
<1> DEFINE s == newSegment(data, m)
           c == pathIdOf(data)
<1>1. sizesOf(size, {}) = {} /\ Cardinality({}) = 0
    BY FS_EmptySet DEF sizesOf
<1>2. s = [pathId |-> c, firstEvent |-> m, lastEvent |-> m, events |-> 0,
           encodedBytes |-> NoRange, decodedBytes |-> NoRange, areaCounts |-> Empty]
    BY DEF newSegment
<1> HIDE DEF s, c
<1>3. /\ s = [f \in SegmentFields |-> s[f]]
      /\ s.pathId = c /\ s.firstEvent = m /\ s.events = 0 /\ s.encodedBytes = NoRange
    BY <1>2 DEF SegmentFields
<1>4. IsOfLines(s, {}, size, c, m)
    BY <1>1, <1>3, NoRangeYet DEF IsOfLines
<1> QED
    BY <1>4 DEF s, c

\* A segment of some lines, extended by the next line, is one of those lines and that one.
LEMMA SegmentExtends ==
    ASSUME NEW n \in Nat, NEW lines \in SUBSET (1..n), NEW size, NEW path, NEW first,
           NEW segment, IsOfLines(segment, lines, size, path, first),
           NEW data, NEW m, NEW more, SizesContinue(more, size, n, payloads(data))
    PROVE  /\ IsOfLines(extended(segment, data, m), lines \cup {n + 1}, more, path, first)
           /\ extended(segment, data, m).lastEvent = m
<1> DEFINE p == payloads(data)
           s == extended(segment, data, m)
           e == IF p = <<>> THEN segment.encodedBytes
                ELSE mergeRange(segment.encodedBytes, byteLength(p[1]))
           d == IF p = <<>> THEN segment.decodedBytes
                ELSE mergeRange(segment.decodedBytes, Len(p[1]))
           a == increment(segment.areaCounts, arrayLengths(data, "area"))
<1>1. /\ segment = [f \in SegmentFields |-> segment[f]]
      /\ segment.pathId = path /\ segment.firstEvent = first
      /\ segment.events = Cardinality(lines)
      /\ IsRangeOf(segment.encodedBytes, sizesOf(size, lines))
    BY DEF IsOfLines
<1>2. s = [segment EXCEPT !.events = @ + 1, !.lastEvent = m, !.encodedBytes = e,
                          !.decodedBytes = d, !.areaCounts = a]
    BY DEF extended
<1>3. Cardinality(lines \cup {n + 1}) = Cardinality(lines) + 1
    BY AnotherLine
<1>4. sizesOf(more, lines \cup {n + 1}) =
          sizesOf(size, lines) \cup (IF p = <<>> THEN {} ELSE {byteLength(p[1])})
    BY SizesNext
<1>5. p # <<>> => byteLength(p[1]) \in Int
    BY DEF SizesContinue
<1>6. IsRangeOf(e, sizesOf(more, lines \cup {n + 1}))
    <2>1. CASE p = <<>>
        BY <2>1, <1>1, <1>4
    <2>2. CASE p # <<>>
        <3> DEFINE y == byteLength(p[1])
        <3>1. y \in Int
            BY <2>2, <1>5
        <3>2. sizesOf(more, lines \cup {n + 1}) = sizesOf(size, lines) \cup {y}
            BY <2>2, <1>4
        <3>3. e = mergeRange(segment.encodedBytes, y)
            BY <2>2
        <3> DEFINE r == segment.encodedBytes
                   S == sizesOf(size, lines)
        <3>4. IsRangeOf(r, S)
            BY <1>1
        <3> HIDE DEF y, e, r, S
        <3>5. IsRangeOf(mergeRange(r, y), S \cup {y})
            BY <3>1, <3>4, RangeNext
        <3> QED
            BY <3>2, <3>3, <3>5 DEF r, S
    <2> QED
        BY <2>1, <2>2
<1> HIDE DEF p, s, e, d, a
<1>7. /\ s = [f \in SegmentFields |-> s[f]]
      /\ s.pathId = path /\ s.firstEvent = first /\ s.lastEvent = m
      /\ s.events = Cardinality(lines) + 1 /\ s.encodedBytes = e
    BY <1>1, <1>2 DEF SegmentFields
<1>8. IsOfLines(s, lines \cup {n + 1}, more, path, first)
    BY <1>3, <1>6, <1>7 DEF IsOfLines
<1> QED
    BY <1>7, <1>8 DEF s

\* The last of some lines has the greatest rank, and no other line has it.
LEMMA LastRank ==
    ASSUME NEW n \in Nat, NEW S \in SUBSET (1..n), S # {}
    PROVE  /\ Cardinality(S) \in Nat /\ Cardinality(S) >= 1
           /\ rank(S, Max(S)) = Cardinality(S)
           /\ \A i \in S : i # Max(S) => rank(S, i) \in 1..Cardinality(S) - 1
<1> DEFINE m == Max(S)
<1>1. m \in S /\ \A i \in S : i <= m
    BY LineEnds
<1>2. IsFiniteSet(S) /\ Cardinality(S) \in Nat
    BY PartOfInterval
<1>3. \A i \in S : rank(S, i) \in 1..Cardinality(S)
    BY AnotherLine
<1> HIDE DEF m
<1>4. rank(S, m) = Cardinality(S)
    <2>1. {j \in S : j <= m} = S
        BY <1>1
    <2> QED
        BY <2>1 DEF rank
<1>5. ASSUME NEW i \in S, i # m PROVE rank(S, i) \in 1..Cardinality(S) - 1
    <2> DEFINE B == {j \in S : j <= i}
    <2>1. B \subseteq S \ {m}
        BY <1>1, <1>5
    <2>2. IsFiniteSet(S \ {m}) /\ Cardinality(S \ {m}) = Cardinality(S) - 1
        BY <1>1, <1>2, FS_RemoveElement
    <2>3. Cardinality(B) <= Cardinality(S \ {m})
        BY <2>1, <2>2, FS_Subset
    <2>4. rank(S, i) <= Cardinality(S) - 1
        BY <2>2, <2>3 DEF rank
    <2> QED
        BY <2>4, <1>2, <1>3
<1>6. Cardinality(S) >= 1
    BY <1>1, <1>2, <1>3
<1> QED
    BY <1>2, <1>4, <1>5, <1>6 DEF m

\* Sequence r is s with e in the place of its last element.
EndsIn(r, s, e) ==
    /\ \E V : r \in Seq(V)
    /\ Len(r) = Len(s) /\ r[Len(s)] = e
    /\ \A k \in 1..Len(s) - 1 : r[k] = s[k]

\* The last element of a sequence is replaced.
LEMMA LastReplaced ==
    ASSUME NEW T, NEW s, s \in Seq(T), s # <<>>, NEW e
    PROVE  EndsIn(Front(s) \o <<e>>, s, e)
<1> DEFINE f == SubSeq(s, 1, Len(s) - 1)
           g == <<e>>
           r == Front(s) \o <<e>>
<1>1. Len(s) \in Nat /\ Len(s) >= 1 /\ \A k \in 1..Len(s) : s[k] \in T
    OBVIOUS
<1> DEFINE U == T \cup {e}
<1>2. f \in Seq(U) /\ Len(f) = Len(s) - 1 /\ \A k \in 1..Len(s) - 1 : f[k] = s[k]
    <2>1. \A k \in 1..Len(s) - 1 : s[k] \in U
        BY <1>1
    <2> DEFINE l == Len(s) - 1
    <2>5. f = SubSeq(s, 1, l) /\ l \in Nat
        BY <1>1
    <2> HIDE DEF l, f, U
    <2>2. /\ f = SubSeq(s, 1, l) /\ l \in Int /\ 1 \in Int /\ l - 1 + 1 = l
          /\ (IF 1 <= l THEN l - 1 + 1 ELSE 0) = l /\ \A k \in 1..l : k \in Int /\ 1 + k - 1 = k
        BY <2>5
    <2>3. /\ SubSeq(s, 1, l) \in Seq(U) /\ Len(SubSeq(s, 1, l)) = IF 1 <= l THEN l - 1 + 1 ELSE 0
          /\ \A k \in 1..l - 1 + 1 : SubSeq(s, 1, l)[k] = s[1 + k - 1]
        BY <2>1, <2>2, SubSeqProperties DEF l
    <2>4. f \in Seq(U) /\ Len(f) = l /\ \A k \in 1..l : f[k] = s[k]
        BY <2>2, <2>3
    <2> QED
        BY <2>4 DEF l
<1>3. g \in Seq(U) /\ Len(g) = 1 /\ g[1] = e
    OBVIOUS
<1> HIDE DEF f, g, U
<1>3a. r = f \o g
    BY DEF Front, f, g
<1>7. r = Front(s) \o <<e>>
    OBVIOUS
<1> HIDE DEF r
<1>4. /\ r \in Seq(U) /\ Len(r) = Len(f) + Len(g)
      /\ \A k \in 1..Len(f) + Len(g) : r[k] = IF k <= Len(f) THEN f[k] ELSE g[k - Len(f)]
    <2>1. /\ f \o g \in Seq(U) /\ Len(f \o g) = Len(f) + Len(g)
          /\ \A k \in 1..Len(f) + Len(g) :
                 (f \o g)[k] = IF k <= Len(f) THEN f[k] ELSE g[k - Len(f)]
        BY <1>2, <1>3, ConcatProperties
    <2> QED
        BY <2>1, <1>3a, Zenon
<1>5. Len(r) = Len(s) /\ r[Len(s)] = e /\ \A k \in 1..Len(s) - 1 : r[k] = s[k]
    BY <1>1, <1>2, <1>3, <1>4
<1>6. EndsIn(r, s, e)
    BY <1>4, <1>5 DEF EndsIn
<1> QED
    BY <1>6, <1>7

\* A stretch that is not extended keeps its segment.
LEMMA SegmentStays ==
    ASSUME NEW n \in Nat, NEW id, DOMAIN id \in SUBSET (1..n), NEW i \in starts(id),
           NEW size, NEW number, NEW segment, IsSegment(segment, i, id, size, number),
           NEW w, stretch(w, i) = stretch(id, i), w[i] = id[i],
           NEW sizes, NEW p, SizesContinue(sizes, size, n, p),
           NEW more, \A j \in 1..n : more[j] = number[j]
    PROVE  IsSegment(segment, i, w, sizes, more)
<1> DEFINE lines == stretch(id, i)
<1>1. lines \in SUBSET (1..n) /\ i \in lines
    BY StretchLines
<1>2. Max(lines) \in lines
    <2> HIDE DEF lines
    <2> QED
        BY <1>1, LineEnds
<1>3. sizesOf(sizes, lines) = sizesOf(size, lines)
    <2> HIDE DEF lines
    <2> QED
        BY <1>1, SizesStay
<1>4. more[i] = number[i] /\ more[Max(lines)] = number[Max(lines)]
    BY <1>1, <1>2
<1>5. IsOfLines(segment, lines, size, id[i], number[i]) /\ segment.lastEvent = number[Max(lines)]
    BY DEF IsSegment
<1>6. IsOfLines(segment, lines, sizes, id[i], number[i])
    BY <1>3, <1>5 DEF IsOfLines
<1>7. stretch(w, i) = lines
    OBVIOUS
<1> HIDE DEF lines
<1> QED
    BY <1>4, <1>5, <1>6, <1>7 DEF IsSegment

\* There is a segment of every stretch, and the last one is of the last id.
AreSegments(segments, id, size, number) ==
    /\ \E T : segments \in Seq(T)
    /\ Len(segments) = Cardinality(starts(id))
    /\ \A i \in starts(id) : IsSegment(segments[rank(starts(id), i)], i, id, size, number)
    /\ DOMAIN id # {} => Last(segments).pathId = id[Max(DOMAIN id)]

\* Another map extends the last segment if it has its path, and starts one otherwise.
LEMMA SegmentsNext ==
    ASSUME NEW n \in Nat, NEW data, NEW w, NEW id, Continues(w, id, n, pathIdOf(data)),
           NEW size, NEW sizes, SizesContinue(sizes, size, n, payloads(data)),
           NEW number, NEW more, \A i \in 1..n : more[i] = number[i],
           NEW segments, AreSegments(segments, id, size, number)
    PROVE  AreSegments(updateMapPathSegment(segments, data, more[n + 1]), w, sizes, more)
<1> DEFINE S == starts(id)
           D == DOMAIN id
           m == more[n + 1]
           x == pathIdOf(data)
           u == updateMapPathSegment(segments, data, m)
<1>1. D \in SUBSET (1..n) /\ DOMAIN w = D \cup {n + 1} /\ w[n + 1] = x /\ \A i \in D : w[i] = id[i]
    BY DEF Continues
<1>2. PICK T : segments \in Seq(T)
    BY DEF AreSegments
<1>3. /\ Len(segments) = Cardinality(S)
      /\ \A i \in S : IsSegment(segments[rank(S, i)], i, id, size, number)
      /\ D # {} => Last(segments).pathId = id[Max(D)]
    BY DEF AreSegments
<1>4. S \in SUBSET (1..n) /\ S \subseteq D /\ (D # {} => S # {})
    BY <1>1, StretchLines
<1>5. Max(DOMAIN w) = n + 1
    <2> HIDE DEF D
    <2>1. Max(D \cup {n + 1}) = n + 1
        BY <1>1, AnotherLine
    <2> QED
        BY <1>1, <2>1
<1>6. segments # <<>> <=> D # {}
    <2>1. Cardinality(S) \in Nat /\ IsFiniteSet(S) /\ (Cardinality(S) = 0 <=> S = {})
        BY <1>4, PartOfInterval, FS_EmptySet
    <2>2. segments = <<>> <=> Len(segments) = 0
        BY <1>2
    <2> HIDE DEF S, D
    <2>3. D = {} <=> S = {}
        BY <1>4
    <2>4. Len(segments) = Cardinality(S)
        BY <1>3
    <2> QED
        BY <2>1, <2>2, <2>3, <2>4
<1>7. CASE D # {} /\ x = id[Max(D)]
    <2> DEFINE k == Max(S)
               c == Cardinality(S)
               e == extended(Last(segments), data, m)
    <2>1. u = Front(segments) \o <<e>>
        BY <1>3, <1>6, <1>7 DEF updateMapPathSegment
    <2>2. /\ starts(w) = S /\ k \in S /\ stretch(w, k) = stretch(id, k) \cup {n + 1}
          /\ \A i \in S : i # k => stretch(w, i) = stretch(id, i)
        BY <1>7, SameStretch
    <2>3. /\ c \in Nat /\ c >= 1 /\ rank(S, k) = c
          /\ \A i \in S : i # k => rank(S, i) \in 1..c - 1
        BY <1>4, <1>7, LastRank
    <2>4. Len(segments) = c
        BY <1>3
    <2> DEFINE r == Front(segments) \o <<e>>
    <2>5. /\ \E V : r \in Seq(V)
          /\ Len(r) = Len(segments) /\ r[Len(segments)] = e
          /\ \A j \in 1..Len(segments) - 1 : r[j] = segments[j]
        <3>1. segments \in Seq(T) /\ segments # <<>>
            BY <1>2, <1>6, <1>7
        <3> HIDE DEF e
        <3>2. EndsIn(r, segments, e)
            BY <3>1, LastReplaced, Zenon DEF r
        <3> HIDE DEF r
        <3> QED
            BY <3>2, Zenon DEF EndsIn
    <2>6. w[k] = id[k]
        BY <2>2, <1>1, <1>4
    <2>7. IsSegment(e, k, w, sizes, more)
        <3> DEFINE lines == stretch(id, k)
                   s == Last(segments)
        <3>1. s = segments[c]
            BY <2>4 DEF Last
        <3>2. IsSegment(segments[rank(S, k)], k, id, size, number)
            BY <1>3, <2>2
        <3>3. IsSegment(s, k, id, size, number)
            BY <3>1, <3>2, <2>3
        <3>4. lines \in SUBSET (1..n)
            BY <1>1, <2>2, StretchLines
        <3>5. IsOfLines(s, lines, size, id[k], number[k])
            BY <3>3 DEF IsSegment
        <3> HIDE DEF lines, s, k, m, c
        <3>6. /\ IsOfLines(extended(s, data, m), lines \cup {n + 1}, sizes, id[k], number[k])
              /\ extended(s, data, m).lastEvent = m
            BY <3>4, <3>5, SegmentExtends
        <3>7. Max(lines \cup {n + 1}) = n + 1
            BY <3>4, AnotherLine
        <3>8. stretch(w, k) = lines \cup {n + 1} /\ more[k] = number[k] /\ e = extended(s, data, m)
            BY <2>2, <1>4 DEF lines, s
        <3> HIDE DEF e, S, D
        <3>9. /\ IsOfLines(e, stretch(w, k), sizes, w[k], more[k])
              /\ e.lastEvent = more[Max(stretch(w, k))]
            BY <3>6, <3>7, <3>8, <2>6 DEF m
        <3> QED
            BY <3>9 DEF IsSegment
    <2>8. ASSUME NEW i \in S, i # k PROVE IsSegment(segments[rank(S, i)], i, w, sizes, more)
        <3> DEFINE segment == segments[rank(S, i)]
        <3>1. /\ IsSegment(segment, i, id, size, number)
              /\ stretch(w, i) = stretch(id, i) /\ w[i] = id[i]
            BY <1>1, <1>3, <1>4, <2>2, <2>8
        <3> HIDE DEF segment
        <3>2. IsSegment(segment, i, w, sizes, more)
            BY <1>1, <3>1, SegmentStays
        <3> QED
            BY <3>2 DEF segment
    <2> HIDE DEF S, D, k, c, e, r, u
    <2>9. ASSUME NEW i \in S PROVE IsSegment(r[rank(S, i)], i, w, sizes, more)
        <3>1. CASE i = k
            <4>1. r[rank(S, i)] = e
                BY <3>1, <2>3, <2>4, <2>5
            <4> QED
                BY <3>1, <4>1, <2>7
        <3>2. CASE i # k
            <4>1. r[rank(S, i)] = segments[rank(S, i)]
                BY <3>2, <2>3, <2>4, <2>5
            <4> QED
                BY <3>2, <4>1, <2>8
        <3> QED
            BY <3>1, <3>2
    <2>10. Last(r).pathId = w[Max(DOMAIN w)]
        <3>1. Last(r) = e
            BY <2>4, <2>5 DEF Last
        <3>2. e.pathId = Last(segments).pathId
            <4>1. e.pathId = w[k]
                BY <2>7 DEF IsSegment, IsOfLines
            <4>2. Last(segments) = segments[rank(S, k)]
                BY <2>3, <2>4 DEF Last
            <4>3. IsSegment(Last(segments), k, id, size, number)
                BY <1>3, <2>2, <4>2
            <4>4. Last(segments).pathId = id[k]
                BY <4>3 DEF IsSegment, IsOfLines
            <4> QED
                BY <4>1, <4>4, <2>6
        <3> QED
            BY <3>1, <3>2, <1>1, <1>3, <1>5, <1>7
    <2>11. Len(r) = Cardinality(starts(w))
        BY <2>2, <2>4, <2>5 DEF c
    <2>12. AreSegments(r, w, sizes, more)
        BY <2>2, <2>5, <2>9, <2>10, <2>11 DEF AreSegments
    <2>13. u = r
        BY <2>1 DEF r
    <2> QED
        BY <2>12, <2>13 DEF u, m
<1>8. CASE D = {} \/ x # id[Max(D)]
    <2> DEFINE c == Cardinality(S)
               new == newSegment(data, m)
               e == extended(new, data, m)
               r == Append(segments, e)
    <2>1. u = r
        BY <1>3, <1>6, <1>8 DEF updateMapPathSegment
    <2>2. /\ starts(w) = S \cup {n + 1} /\ stretch(w, n + 1) = {n + 1}
          /\ \A i \in S : stretch(w, i) = stretch(id, i)
        BY <1>8, NewStretch
    <2>3. /\ c \in Nat /\ Cardinality(S \cup {n + 1}) = c + 1
          /\ rank(S \cup {n + 1}, n + 1) = c + 1
          /\ \A i \in S : rank(S \cup {n + 1}, i) = rank(S, i) /\ rank(S, i) \in 1..c
        BY <1>4, AnotherLine
    <2>4. Len(segments) = c
        BY <1>3
    <2>5. /\ r \in Seq(T \cup {e}) /\ Len(r) = c + 1 /\ r[c + 1] = e
          /\ \A j \in 1..c : r[j] = segments[j]
        <3>1. segments \in Seq(T \cup {e}) /\ e \in T \cup {e}
            BY <1>2
        <3> HIDE DEF e, c
        <3> QED
            BY <3>1, <2>4, AppendProperties
    <2>6. IsSegment(e, n + 1, w, sizes, more)
        <3>1. IsOfLines(new, {}, size, x, m) /\ {} \in SUBSET (1..n)
            BY SegmentBegins
        <3> HIDE DEF new, m, x
        <3>2. /\ IsOfLines(e, {} \cup {n + 1}, sizes, x, m)
              /\ e.lastEvent = m
            BY <3>1, SegmentExtends
        <3>3. Max({} \cup {n + 1}) = n + 1 /\ {} \cup {n + 1} = {n + 1}
            BY <3>1, AnotherLine
        <3> HIDE DEF e
        <3>4. /\ IsOfLines(e, stretch(w, n + 1), sizes, w[n + 1], more[n + 1])
              /\ e.lastEvent = more[Max(stretch(w, n + 1))]
            BY <3>2, <3>3, <2>2, <1>1 DEF m
        <3> QED
            BY <3>4 DEF IsSegment
    <2>7. ASSUME NEW i \in S PROVE IsSegment(segments[rank(S, i)], i, w, sizes, more)
        <3> DEFINE segment == segments[rank(S, i)]
        <3>1. /\ IsSegment(segment, i, id, size, number)
              /\ stretch(w, i) = stretch(id, i) /\ w[i] = id[i]
            BY <1>1, <1>3, <1>4, <2>2
        <3> HIDE DEF segment
        <3>2. IsSegment(segment, i, w, sizes, more)
            BY <1>1, <3>1, SegmentStays
        <3> QED
            BY <3>2 DEF segment
    <2> HIDE DEF S, D, c, new, e, r, u
    <2>8. ASSUME NEW i \in starts(w)
          PROVE  IsSegment(r[rank(starts(w), i)], i, w, sizes, more)
        <3>1. CASE i = n + 1
            BY <3>1, <2>2, <2>3, <2>5, <2>6
        <3>2. CASE i \in S
            <4>1. r[rank(starts(w), i)] = segments[rank(S, i)]
                BY <3>2, <2>2, <2>3, <2>5
            <4> QED
                BY <3>2, <4>1, <2>7
        <3> QED
            BY <3>1, <3>2, <2>2
    <2>9. Last(r).pathId = w[Max(DOMAIN w)]
        <3>1. Last(r) = e
            BY <2>3, <2>5 DEF Last
        <3>2. e.pathId = w[n + 1]
            BY <2>6 DEF IsSegment, IsOfLines
        <3> QED
            BY <3>1, <3>2, <1>5
    <2>10. Len(r) = Cardinality(starts(w))
        BY <2>2, <2>3, <2>5
    <2>11. AreSegments(r, w, sizes, more)
        BY <2>5, <2>8, <2>9, <2>10 DEF AreSegments
    <2> QED
        BY <2>1, <2>11 DEF u, m
<1> QED
    BY <1>7, <1>8

\* The segments are those of the maps read.
SegmentInv == AreSegments(map20002.pathSegments, pathIds, encodedSizes, eventNumber)

\* Another line that is no map leaves the segments as they are.
LEMMA SegmentsSame ==
    ASSUME NEW n \in Nat, NEW id, DOMAIN id \in SUBSET (1..n),
           NEW size, DOMAIN size \in SUBSET (1..n),
           NEW number, NEW more, \A i \in 1..n : more[i] = number[i],
           NEW segments, AreSegments(segments, id, size, number)
    PROVE  AreSegments(segments, id, size, more)
<1>1. SizesContinue(size, size, n, <<>>)
    BY DEF SizesContinue
<1>2. ASSUME NEW i \in starts(id)
      PROVE  IsSegment(segments[rank(starts(id), i)], i, id, size, more)
    <2> DEFINE segment == segments[rank(starts(id), i)]
    <2>1. IsSegment(segment, i, id, size, number)
        BY DEF AreSegments
    <2> HIDE DEF segment
    <2>2. IsSegment(segment, i, id, size, more)
        BY <1>1, <2>1, SegmentStays
    <2> QED
        BY <2>2 DEF segment
<1> QED
    BY <1>2 DEF AreSegments

\* A map goes into the segments, and another line does not.
LEMMA SegmentStep ==
    ASSUME ReadInv, IsMap(map20002), SegmentInv, NEW line \in Lines, Reads(line)
    PROVE  SegmentInv'
<1> DEFINE n == Len(seen)
           more == eventNumber'
           data == line.data
           p == payloads(data)
<1>1. read(line) /\ seen \in Seq(Lines) /\ n \in Nat
    BY LineIsRead DEF ReadInv
<1>2. \A i \in 1..n : more[i] = eventNumber[i]
    BY <1>1, NumbersNext
<1>3. AreSegments(map20002.pathSegments, pathIds, encodedSizes, eventNumber)
    BY DEF SegmentInv
<1>4. DOMAIN pathIds \in SUBSET (1..n) /\ DOMAIN encodedSizes \in SUBSET (1..n)
    BY <1>1, PathIdsNext, EncodedSizesNext
<1>5. CASE IsEventOf(line, "20002")
    <2>1. map20002'.pathSegments =
              updateMapPathSegment(map20002.pathSegments, data, more[n + 1])
        BY <1>5, MapIsRead, MapAnalysed
    <2>2. Continues(pathIds', pathIds, n, pathIdOf(data))
        BY <1>1, <1>5, PathIdsNext
    <2>3. SizesContinue(encodedSizes', encodedSizes, n, p)
        <3>1. CASE p = <<>>
            <4>1. encodedSizes' = encodedSizes
                BY <1>1, <3>1, EncodedSizesNext
            <4> QED
                BY <1>4, <3>1, <4>1 DEF SizesContinue
        <3>2. CASE p # <<>>
            <4>1. Continues(encodedSizes', encodedSizes, n, byteLength(p[1]))
                BY <1>1, <1>5, <3>2, EncodedSizesNext
            <4>2. p \in Seq(Seq(Nat))
                BY LineAssumption
            <4>3. p[1] \in Seq(Nat)
                <5> HIDE DEF p
                <5> QED
                    BY <3>2, <4>2
            <4>4. byteLength(p[1]) \in Int
                <5> DEFINE l == Len(p[1])
                <5>1. l \in Nat
                    <6> HIDE DEF p
                    <6> QED
                        BY <4>3
                <5>2. byteLength(p[1]) = 4 * ((l + 2) \div 3)
                    BY DEF byteLength
                <5> HIDE DEF l
                <5> QED
                    BY <5>1, <5>2
            <4> HIDE DEF p
            <4> QED
                BY <1>4, <3>2, <4>1, <4>4 DEF SizesContinue
        <3> QED
            BY <3>1, <3>2
    <2> DEFINE w == pathIds'
               sizes == encodedSizes'
               segments == map20002.pathSegments
    <2> HIDE DEF n, more, data, w, sizes, segments
    <2>4. AreSegments(updateMapPathSegment(segments, data, more[n + 1]), w, sizes, more)
        BY <1>1, <1>2, <1>3, <2>2, <2>3, SegmentsNext DEF w, sizes, segments
    <2> QED
        BY <2>1, <2>4 DEF SegmentInv, w, sizes, more, segments
<1>6. CASE ~ IsEventOf(line, "20002")
    <2>1. map20002' = map20002 /\ pathIds' = pathIds /\ encodedSizes' = encodedSizes
        BY <1>1, <1>6, MapIsRead, PathIdsNext, EncodedSizesNext
    <2> HIDE DEF n, more
    <2>2. AreSegments(map20002.pathSegments, pathIds, encodedSizes, more)
        BY <1>1, <1>2, <1>3, <1>4, SegmentsSame
    <2> QED
        BY <2>1, <2>2 DEF SegmentInv, more
<1> QED
    BY <1>5, <1>6

-----------------------------------------------------------------------------
(* Prefixes *)

\* A set of numbers with all below each of its own is that of the numbers up to the greatest.
LEMMA UpToGreatest ==
    ASSUME NEW n \in Nat, NEW T \in SUBSET (0..n), 0 \in T,
           \A k \in T : \A j \in 0..k : j \in T
    PROVE  Max(T) \in T /\ T = 0..Max(T)
<1> DEFINE U == {n - k : k \in T}
<1>1. U \subseteq Nat /\ U # {}
    OBVIOUS
<1>2. PICK u \in U : \A y \in U : u <= y
    BY <1>1, LeastNumber
<1>3. PICK m \in T : u = n - m
    OBVIOUS
<1>4. \A k \in T : k <= m
    <2> TAKE k \in T
    <2>1. u <= n - k
        BY <1>2
    <2> QED
        BY <2>1, <1>3
<1>5. T \subseteq Int
    OBVIOUS
<1>6. Max(T) = m
    BY <1>4, <1>5, GreatestIs
<1>7. \A k \in T : k \in 0..m
    BY <1>4, <1>5
<1> QED
    BY <1>3, <1>6, <1>7

\* The sequences agree in their first k elements.
Agree(p, q, k) == k <= Len(p) /\ k <= Len(q) /\ \A i \in 1..k : p[i] = q[i]

\* They do if their parts of that length are the same.
LEMMA SamePrefix ==
    ASSUME NEW p \in Seq(Nat), NEW q \in Seq(Nat), NEW k \in Nat, k <= Len(p), k <= Len(q)
    PROVE  SubSeq(p, 1, k) = SubSeq(q, 1, k) <=> \A i \in 1..k : p[i] = q[i]
<1> DEFINE a == SubSeq(p, 1, k)
           b == SubSeq(q, 1, k)
<1>1. /\ \A i \in 1..k : p[i] \in Nat /\ q[i] \in Nat
      /\ 1 \in Int /\ k \in Int /\ k - 1 + 1 = k /\ (IF 1 <= k THEN k - 1 + 1 ELSE 0) = k
      /\ \A i \in 1..k : i \in Int /\ 1 + i - 1 = i
    <2>1. \A i \in 1..k : i \in 1..Len(p) /\ i \in 1..Len(q)
        OBVIOUS
    <2>2. \A i \in 1..k : p[i] \in Nat /\ q[i] \in Nat
        BY <2>1
    <2>3. /\ 1 \in Int /\ k \in Int /\ k - 1 + 1 = k /\ (IF 1 <= k THEN k - 1 + 1 ELSE 0) = k
          /\ \A i \in 1..k : i \in Int /\ 1 + i - 1 = i
        OBVIOUS
    <2> QED
        BY <2>2, <2>3
<1>2. /\ a \in Seq(Nat) /\ Len(a) = IF 1 <= k THEN k - 1 + 1 ELSE 0
      /\ \A i \in 1..k - 1 + 1 : a[i] = p[1 + i - 1]
    BY <1>1, SubSeqProperties
<1>3. /\ b \in Seq(Nat) /\ Len(b) = IF 1 <= k THEN k - 1 + 1 ELSE 0
      /\ \A i \in 1..k - 1 + 1 : b[i] = q[1 + i - 1]
    BY <1>1, SubSeqProperties
<1> HIDE DEF a, b
<1>4. /\ Len(a) = k /\ \A i \in 1..k : a[i] = p[i]
      /\ Len(b) = k /\ \A i \in 1..k : b[i] = q[i]
    BY <1>1, <1>2, <1>3
<1>5. a = b => \A i \in 1..k : p[i] = q[i]
    BY <1>4
<1>6. ASSUME \A i \in 1..k : p[i] = q[i] PROVE a = b
    <2>1. \A i \in 1..Len(a) : a[i] = b[i]
        BY <1>4, <1>6
    <2> QED
        BY <1>2, <1>3, <1>4, <2>1, SeqEqual
<1> QED
    BY <1>5, <1>6 DEF a, b

\* The prefix two sequences share is as long as they agree.
LEMMA CommonPrefix ==
    ASSUME NEW p \in Seq(Nat), NEW q \in Seq(Nat)
    PROVE  /\ commonPrefixLength(p, q) \in Nat
           /\ \A k \in Nat : k <= commonPrefixLength(p, q) <=> Agree(p, q, k)
<1> DEFINE m == Min({Len(p), Len(q)})
           T == {k \in 0..m : SubSeq(p, 1, k) = SubSeq(q, 1, k)}
<1>1. Len(p) \in Nat /\ Len(q) \in Nat
    OBVIOUS
<1>2. m = (IF Len(p) <= Len(q) THEN Len(p) ELSE Len(q))
    <2> DEFINE a == Len(p)
               b == Len(q)
    <2>1. a \in Int /\ b \in Int
        BY <1>1
    <2> HIDE DEF a, b
    <2>2. /\ Min({a, b}) = (IF a <= b THEN a ELSE b)
          /\ Max({a, b}) = (IF a <= b THEN b ELSE a)
        BY <2>1, OfTwo
    <2> QED
        BY <2>2 DEF a, b
<1>3. commonPrefixLength(p, q) = Max(T)
    BY DEF commonPrefixLength
<1>4. T = {k \in 0..m : SubSeq(p, 1, k) = SubSeq(q, 1, k)}
    OBVIOUS
<1> HIDE DEF m, T
<1>5. m \in Nat /\ \A k \in Nat : k \in 0..m <=> k <= Len(p) /\ k <= Len(q)
    BY <1>1, <1>2
<1>6. \A k \in Nat : k \in T <=> Agree(p, q, k)
    <2> TAKE k \in Nat
    <2>1. CASE k \in 0..m
        <3>1. k <= Len(p) /\ k <= Len(q)
            BY <1>5, <2>1
        <3>2. SubSeq(p, 1, k) = SubSeq(q, 1, k) <=> \A i \in 1..k : p[i] = q[i]
            BY <3>1, SamePrefix
        <3> QED
            BY <1>4, <2>1, <3>1, <3>2 DEF Agree
    <2>2. CASE k \notin 0..m
        BY <1>4, <1>5, <2>2 DEF Agree
    <2> QED
        BY <2>1, <2>2
<1>7. 0 \in T
    <2>1. Agree(p, q, 0)
        BY <1>1 DEF Agree
    <2> QED
        BY <1>6, <2>1
<1>8. T \in SUBSET (0..m)
    BY <1>4
<1>9. \A k \in T : \A j \in 0..k : j \in T
    <2> TAKE k \in T
    <2> TAKE j \in 0..k
    <2>1. k \in Nat /\ j \in Nat /\ j <= k
        BY <1>5, <1>8
    <2>2. Agree(p, q, k)
        BY <1>6, <2>1
    <2>3. Agree(p, q, j)
        BY <1>1, <2>1, <2>2 DEF Agree
    <2> QED
        BY <1>6, <2>1, <2>3
<1> DEFINE c == Max(T)
<1>10. c \in T /\ T = 0..c
    BY <1>5, <1>7, <1>8, <1>9, UpToGreatest
<1> HIDE DEF c
<1>11. c \in Nat /\ \A k \in Nat : k <= c <=> k \in T
    <2>1. c \in Nat /\ T = 0..c
        BY <1>5, <1>8, <1>10
    <2> QED
        BY <2>1
<1> QED
    BY <1>3, <1>6, <1>11 DEF c

\* The prefix of all samples is as long as all agree with the first one.
LEMMA SharedPrefix ==
    ASSUME NEW n \in Nat, NEW v, DOMAIN v \in SUBSET (1..n), DOMAIN v # {},
           \A i \in DOMAIN v : v[i] \in Seq(Nat)
    PROVE  /\ sharedPrefix(v) \in Nat
           /\ \A k \in Nat : k <= sharedPrefix(v)
                                 <=> \A i \in DOMAIN v : Agree(v[i], v[Min(DOMAIN v)], k)
<1> DEFINE D == DOMAIN v
           one == v[Min(D)]
           T == {k \in 0..Len(one) : \A i \in D :
                    Len(v[i]) >= k /\ SubSeq(v[i], 1, k) = SubSeq(one, 1, k)}
<1>1. Min(D) \in D
    BY LineEnds
<1>2. one \in Seq(Nat) /\ Len(one) \in Nat /\ \A i \in D : v[i] \in Seq(Nat) /\ Len(v[i]) \in Nat
    BY <1>1
<1>3. sharedPrefix(v) = Max(T)
    BY DEF sharedPrefix
<1>4. T = {k \in 0..Len(one) : \A i \in D :
              Len(v[i]) >= k /\ SubSeq(v[i], 1, k) = SubSeq(one, 1, k)}
    OBVIOUS
<1>5. one = v[Min(D)]
    OBVIOUS
<1> HIDE DEF D, one, T
<1>6. \A k \in Nat : k \in T <=> \A i \in D : Agree(v[i], one, k)
    <2> TAKE k \in Nat
    <2>1. CASE k <= Len(one)
        <3>1. k \in 0..Len(one)
            BY <1>2, <2>1
        <3>2. ASSUME NEW i \in D
              PROVE  Len(v[i]) >= k /\ SubSeq(v[i], 1, k) = SubSeq(one, 1, k)
                         <=> Agree(v[i], one, k)
            <4> DEFINE q == v[i]
            <4>1. q \in Seq(Nat) /\ Len(q) \in Nat /\ (Len(q) >= k <=> k <= Len(q))
                BY <1>2
            <4> HIDE DEF q
            <4>2. k <= Len(q) =>
                      (SubSeq(q, 1, k) = SubSeq(one, 1, k) <=> \A j \in 1..k : q[j] = one[j])
                BY <1>2, <2>1, <4>1, SamePrefix
            <4>3. Len(q) >= k /\ SubSeq(q, 1, k) = SubSeq(one, 1, k) <=> Agree(q, one, k)
                BY <2>1, <4>1, <4>2 DEF Agree
            <4> QED
                BY <4>3 DEF q
        <3> QED
            BY <1>4, <3>1, <3>2
    <2>2. CASE ~ (k <= Len(one))
        <3>1. k \notin T
            BY <1>2, <1>4, <2>2
        <3>2. ~ Agree(v[Min(D)], one, k)
            BY <2>2 DEF Agree
        <3> QED
            BY <1>1, <3>1, <3>2
    <2> QED
        BY <2>1, <2>2
<1>7. \A i \in D : Agree(v[i], one, 0)
    BY <1>2 DEF Agree
<1>8. 0 \in T /\ T \in SUBSET (0..Len(one))
    BY <1>4, <1>6, <1>7
<1>9. \A k \in T : \A j \in 0..k : j \in T
    <2> TAKE k \in T
    <2> TAKE j \in 0..k
    <2>1. k \in Nat /\ j \in Nat /\ j <= k
        BY <1>2, <1>8
    <2>2. \A i \in D : Agree(v[i], one, j)
        <3> TAKE i \in D
        <3>1. Agree(v[i], one, k)
            BY <1>6, <2>1
        <3> QED
            BY <1>2, <2>1, <3>1 DEF Agree
    <2> QED
        BY <1>6, <2>1, <2>2
<1> DEFINE c == Max(T)
<1>10. c \in T /\ T = 0..c
    BY <1>2, <1>8, <1>9, UpToGreatest
<1> HIDE DEF c
<1>11. c \in Nat /\ \A k \in Nat : k <= c <=> k \in T
    <2>1. c \in Nat /\ T = 0..c
        BY <1>2, <1>8, <1>10
    <2> QED
        BY <2>1
<1> QED
    BY <1>3, <1>5, <1>6, <1>11 DEF D, c

\* All of the first sample is its prefix.
LEMMA PrefixFirst ==
    ASSUME NEW n \in Nat, NEW w, NEW v, NEW x \in Seq(Nat), Continues(w, v, n, x), DOMAIN v = {}
    PROVE  sharedPrefix(w) = Len(x)
<1>1. DOMAIN w = {n + 1} /\ w[n + 1] = x
    BY DEF Continues
<1>2. Min(DOMAIN w) = n + 1
    <2>1. {n + 1} \subseteq Int /\ n + 1 \in {n + 1} /\ \A i \in {n + 1} : n + 1 <= i
        OBVIOUS
    <2> QED
        BY <1>1, <2>1, LeastIs
<1>3. n + 1 \in Nat /\ DOMAIN w \in SUBSET (1..n + 1) /\ DOMAIN w # {}
    BY <1>1
<1>4. \A i \in DOMAIN w : w[i] = x /\ w[i] \in Seq(Nat)
    BY <1>1
<1>5. /\ sharedPrefix(w) \in Nat
      /\ \A k \in Nat : k <= sharedPrefix(w)
                            <=> \A i \in DOMAIN w : Agree(w[i], w[Min(DOMAIN w)], k)
    BY <1>3, <1>4, SharedPrefix
<1>6. \A k \in Nat : k <= sharedPrefix(w) <=> Agree(x, x, k)
    BY <1>1, <1>2, <1>5
<1> DEFINE s == sharedPrefix(w)
           l == Len(x)
<1>7. l \in Nat /\ s \in Nat /\ \A k \in Nat : k <= s <=> k <= l
    BY <1>5, <1>6 DEF Agree
<1> HIDE DEF s, l
<1>8. s = l
    <2>1. s <= s <=> s <= l
        BY <1>7
    <2>2. l <= s <=> l <= l
        BY <1>7
    <2> QED
        BY <1>7, <2>1, <2>2
<1> QED
    BY <1>8 DEF s, l

\* Another sample shortens the prefix to what it shares with the first one.
LEMMA PrefixNext ==
    ASSUME NEW n \in Nat, NEW w, NEW v, NEW x \in Seq(Nat), Continues(w, v, n, x), DOMAIN v # {},
           \A i \in DOMAIN v : v[i] \in Seq(Nat)
    PROVE  LET a == sharedPrefix(v)
               c == commonPrefixLength(v[Min(DOMAIN v)], x)
           IN a \in Int /\ c \in Int /\ sharedPrefix(w) = (IF a <= c THEN a ELSE c)
<1> DEFINE D == DOMAIN v
           one == v[Min(D)]
<1>1. /\ D \in SUBSET (1..n) /\ DOMAIN w = D \cup {n + 1}
      /\ w[n + 1] = x /\ \A i \in D : w[i] = v[i]
    BY DEF Continues
<1>2. Min(DOMAIN w) = Min(D) /\ Min(D) \in D
    <2> HIDE DEF D
    <2>1. Min(D \cup {n + 1}) = Min(D) /\ Min(D) \in D
        BY <1>1, AnotherLine, LineEnds DEF D
    <2> QED
        BY <1>1, <2>1
<1>3. one \in Seq(Nat) /\ w[Min(DOMAIN w)] = one
    BY <1>1, <1>2
<1>4. /\ n + 1 \in Nat /\ DOMAIN w \in SUBSET (1..n + 1) /\ DOMAIN w # {}
      /\ \A i \in DOMAIN w : w[i] \in Seq(Nat)
    BY <1>1
<1>5. /\ sharedPrefix(v) \in Nat
      /\ \A k \in Nat : k <= sharedPrefix(v) <=> \A i \in D : Agree(v[i], one, k)
    BY <1>1, SharedPrefix
<1>6. /\ sharedPrefix(w) \in Nat
      /\ \A k \in Nat : k <= sharedPrefix(w)
                            <=> \A i \in DOMAIN w : Agree(w[i], w[Min(DOMAIN w)], k)
    BY <1>4, SharedPrefix
<1>7. /\ commonPrefixLength(one, x) \in Nat
      /\ \A k \in Nat : k <= commonPrefixLength(one, x) <=> Agree(one, x, k)
    BY <1>3, CommonPrefix
<1>8. \A k \in Nat : Agree(one, x, k) <=> Agree(x, one, k)
    BY DEF Agree
<1> DEFINE s == sharedPrefix(w)
           a == sharedPrefix(v)
           c == commonPrefixLength(one, x)
<1> HIDE DEF D, one
<1>9. ASSUME NEW k \in Nat PROVE k <= s <=> k <= a /\ k <= c
    <2>1. k <= s <=> \A i \in D \cup {n + 1} : Agree(w[i], one, k)
        BY <1>1, <1>3, <1>6
    <2>2. (\A i \in D \cup {n + 1} : Agree(w[i], one, k))
              <=> (\A i \in D : Agree(v[i], one, k)) /\ Agree(x, one, k)
        BY <1>1
    <2> QED
        BY <2>1, <2>2, <1>5, <1>7, <1>8
<1>10. s \in Nat /\ a \in Nat /\ c \in Nat
    BY <1>5, <1>6, <1>7
<1> HIDE DEF s, a, c
<1>11. s = (IF a <= c THEN a ELSE c)
    <2>1. s <= s <=> s <= a /\ s <= c
        BY <1>9, <1>10
    <2>2. a <= s <=> a <= a /\ a <= c
        BY <1>9, <1>10
    <2>3. c <= s <=> c <= a /\ c <= c
        BY <1>9, <1>10
    <2> QED
        BY <1>10, <2>1, <2>2, <2>3
<1> QED
    BY <1>10, <1>11 DEF s, a, c, one, D

-----------------------------------------------------------------------------
(* The signals of the map block *)

\* What is kept of the samples: how many there are and how often they changed, the first and the
\* last one, and their prefix.
BlockInv ==
    /\ map20002.samples = Cardinality(DOMAIN samples)
    /\ map20002.changedPayload = Cardinality(moves(samples))
    /\ DOMAIN samples = {} => firstPayload = <<>> /\ previousPayload = <<>>
    /\ DOMAIN samples # {} =>
           /\ firstPayload = <<samples[Min(DOMAIN samples)]>>
           /\ previousPayload = <<samples[Max(DOMAIN samples)]>>
           /\ map20002.stablePrefixBytes = sharedPrefix(samples)

\* Maps are bytes.
LEMMA SamplesAreBytes ==
    ASSUME seen \in Seq(Lines)
    PROVE  \A i \in DOMAIN samples : samples[i] \in Seq(Nat)
<1> TAKE i \in DOMAIN samples
<1>1. /\ i \in 1..Len(seen) /\ payloads(seen[i].data) # <<>>
      /\ samples[i] = payloads(seen[i].data)[1]
    BY DEF samples, EventsOf
<1>2. seen[i] \in Lines
    BY <1>1
<1> DEFINE p == payloads(seen[i].data)
<1>3. p \in Seq(Seq(Nat))
    BY <1>2, LineAssumption
<1>4. p # <<>> /\ samples[i] = p[1]
    BY <1>1
<1> HIDE DEF p
<1> QED
    BY <1>3, <1>4

\* There is at most one map in the data.
LEMMA OnePayload ==
    ASSUME NEW line \in Lines
    PROVE  LET p == payloads(line.data) IN
           /\ p # <<>> => p[1] \in Seq(Nat)
           /\ p \notin {<<>>, <<<<>>>>} <=> p # <<>> /\ p[1] # <<>>
<1> DEFINE p == payloads(line.data)
           x == Payload[line.data["map"].of]
<1>1. p \in Seq(Seq(Nat))
    BY LineAssumption
<1>2. p = <<>> \/ p = <<x>>
    BY DEF payloads
<1> HIDE DEF p, x
<1>3. p # <<>> => p[1] \in Seq(Nat)
    BY <1>1
<1> DEFINE none == <<>>
           empty == <<<<>>>>
<1>4. (p = none \/ p = <<x>>) /\ (p = <<x>> => p # none /\ p[1] = x /\ (p = empty <=> x = none))
    BY <1>2
<1> HIDE DEF none, empty
<1>5. p \notin {none, empty} <=> p # none /\ p[1] # none
    BY <1>4
<1> QED
    BY <1>3, <1>5, Zenon DEF p, none, empty

\* A sample is counted and compared with the one before, and another line changes nothing.
LEMMA BlockStep ==
    ASSUME ReadInv, IsMap(map20002), BlockInv, NEW line \in Lines, Reads(line)
    PROVE  BlockInv'
<1> DEFINE n == Len(seen)
           p == payloads(line.data)
           v == samples
           w == samples'
           D == DOMAIN v
           m == map20002
           k == map20002'
<1>1. read(line) /\ seen \in Seq(Lines) /\ n \in Nat
    BY LineIsRead DEF ReadInv
<1>2. D \in SUBSET (1..n)
    BY <1>1, SamplesNext
<1>3. \A i \in D : v[i] \in Seq(Nat)
    BY <1>1, SamplesAreBytes
<1>4. /\ p # <<>> => p[1] \in Seq(Nat)
      /\ p \notin {<<>>, <<<<>>>>} <=> p # <<>> /\ p[1] # <<>>
    BY OnePayload
<1>5. CASE IsEventOf(line, "20002") /\ p # <<>> /\ p[1] # <<>>
    <2> DEFINE x == p[1]
    <2>1. Continues(w, v, n, x) /\ x \in Seq(Nat)
        BY <1>1, <1>4, <1>5, SamplesNext
    <2>2. analyzeMap20002(line.data, eventNumber'[n + 1])
        BY <1>5, MapIsRead
    <2>3. /\ k.samples = m.samples + 1
          /\ k.changedPayload =
                 m.changedPayload
                 + (IF previousPayload # <<>> /\ previousPayload[1] # x THEN 1 ELSE 0)
          /\ k.stablePrefixBytes =
                 IF firstPayload = <<>> THEN Len(x)
                 ELSE Min({m.stablePrefixBytes, commonPrefixLength(firstPayload[1], x)})
          /\ firstPayload' = (IF firstPayload = <<>> THEN <<x>> ELSE firstPayload)
          /\ previousPayload' = <<x>>
        BY <1>5, <2>2, MapAnalysed
    <2>4. /\ m.samples = Cardinality(D) /\ m.changedPayload = Cardinality(moves(v))
          /\ D = {} => firstPayload = <<>> /\ previousPayload = <<>>
          /\ D # {} =>
                 /\ firstPayload = <<v[Min(D)]>> /\ previousPayload = <<v[Max(D)]>>
                 /\ m.stablePrefixBytes = sharedPrefix(v)
        BY DEF BlockInv
    <2> HIDE DEF n, p, v, w, m, k, x
    <2>5. DOMAIN w = D \cup {n + 1} /\ w[n + 1] = x /\ \A i \in D : w[i] = v[i]
        BY <2>1 DEF Continues
    <2>6. /\ moves(v) \subseteq D
          /\ D = {} => moves(w) = {}
          /\ D # {} /\ x = v[Max(D)] => moves(w) = moves(v)
          /\ D # {} /\ x # v[Max(D)] => moves(w) = moves(v) \cup {n + 1}
        BY <1>1, <2>1, AnotherMove
    <2> HIDE DEF D
    <2>7. /\ Cardinality(D \cup {n + 1}) = Cardinality(D) + 1 /\ Max(D \cup {n + 1}) = n + 1
          /\ D = {} => Min(D \cup {n + 1}) = n + 1
          /\ D # {} => Min(D \cup {n + 1}) = Min(D)
        BY <1>1, <1>2, AnotherLine
    <2>8. /\ Cardinality(moves(v)) \in Nat
          /\ Cardinality(moves(v) \cup {n + 1}) = Cardinality(moves(v)) + 1
        BY <1>1, <1>2, <2>6, AnotherLine
    <2>9. previousPayload' = <<w[Max(DOMAIN w)]>>
        BY <2>3, <2>5, <2>7
    <2>10. k.samples = Cardinality(DOMAIN w)
        BY <2>3, <2>4, <2>5, <2>7
    <2>11. /\ k.changedPayload = Cardinality(moves(w))
           /\ firstPayload' = <<w[Min(DOMAIN w)]>>
           /\ k.stablePrefixBytes = sharedPrefix(w)
        <3>1. CASE D = {}
            <4>1. firstPayload = <<>> /\ previousPayload = <<>> /\ moves(w) = {} /\ moves(v) = {}
                BY <3>1, <2>4, <2>6
            <4>2. sharedPrefix(w) = Len(x)
                BY <1>1, <2>1, <3>1, PrefixFirst DEF D
            <4>3. /\ k.changedPayload = m.changedPayload + 0
                  /\ m.changedPayload = Cardinality(moves(v))
                BY <2>3, <2>4, <4>1
            <4>4. k.changedPayload = Cardinality(moves(w))
                BY <4>1, <4>3, <2>8
            <4> QED
                BY <2>3, <2>5, <2>7, <3>1, <4>1, <4>2, <4>4
        <3>2. CASE D # {}
            <4> DEFINE one == v[Min(D)]
                       last == v[Max(D)]
            <4>1. firstPayload = <<one>> /\ previousPayload = <<last>>
                BY <3>2, <2>4
            <4>2. Min(D) \in D
                BY <1>1, <1>2, <3>2, LineEnds
            <4> HIDE DEF one, last
            <4>3. /\ firstPayload # <<>> /\ firstPayload[1] = one
                  /\ previousPayload # <<>> /\ previousPayload[1] = last
                BY <4>1
            <4>4. sharedPrefix(w) = Min({sharedPrefix(v), commonPrefixLength(one, x)})
                <5> DEFINE a == sharedPrefix(v)
                           c == commonPrefixLength(one, x)
                <5>1. DOMAIN v # {} /\ \A i \in DOMAIN v : v[i] \in Seq(Nat)
                    BY <1>3, <3>2 DEF D
                <5> DEFINE d == commonPrefixLength(v[Min(DOMAIN v)], x)
                <5>4. n \in Nat /\ x \in Seq(Nat) /\ Continues(w, v, n, x)
                    BY <1>1, <2>1
                <5>5. a \in Int /\ d \in Int /\ sharedPrefix(w) = (IF a <= d THEN a ELSE d)
                    BY <5>1, <5>4, PrefixNext
                <5>6. c = d
                    BY DEF D, one
                <5> HIDE DEF d
                <5>2. a \in Int /\ c \in Int /\ sharedPrefix(w) = (IF a <= c THEN a ELSE c)
                    BY <5>5, <5>6
                <5> HIDE DEF a, c
                <5>3. Min({a, c}) = (IF a <= c THEN a ELSE c)
                    BY <5>2, OfTwo
                <5> QED
                    BY <5>2, <5>3 DEF a, c
            <4>5. k.stablePrefixBytes = sharedPrefix(w)
                BY <2>3, <2>4, <3>2, <4>3, <4>4
            <4>6. w[Min(DOMAIN w)] = one
                BY <2>5, <2>7, <3>2, <4>2 DEF one
            <4>7. k.changedPayload = Cardinality(moves(w))
                <5>1. CASE x = last
                    <6>1. moves(w) = moves(v)
                        BY <5>1, <2>6, <3>2 DEF last
                    <6>2. k.changedPayload = m.changedPayload + 0
                        BY <5>1, <2>3, <4>3
                    <6> QED
                        BY <6>1, <6>2, <2>4, <2>8
                <5>2. CASE x # last
                    <6>1. moves(w) = moves(v) \cup {n + 1}
                        BY <5>2, <2>6, <3>2 DEF last
                    <6>2. k.changedPayload = m.changedPayload + 1
                        BY <5>2, <2>3, <4>3
                    <6> QED
                        BY <6>1, <6>2, <2>4, <2>8
                <5> QED
                    BY <5>1, <5>2
            <4> QED
                BY <2>3, <4>1, <4>3, <4>5, <4>6, <4>7
        <3> QED
            BY <3>1, <3>2
    <2>12. DOMAIN w # {}
        BY <2>5
    <2> QED
        BY <2>9, <2>10, <2>11, <2>12 DEF BlockInv, k, w
<1>6. CASE ~ (IsEventOf(line, "20002") /\ p # <<>> /\ p[1] # <<>>)
    <2>1. samples' = samples
        BY <1>1, <1>4, <1>6, SamplesNext
    <2>2. /\ k.samples = m.samples /\ k.changedPayload = m.changedPayload
          /\ k.stablePrefixBytes = m.stablePrefixBytes
          /\ UNCHANGED <<firstPayload, previousPayload>>
        <3>1. CASE IsEventOf(line, "20002")
            <4>1. analyzeMap20002(line.data, eventNumber'[n + 1])
                BY <3>1, MapIsRead
            <4> QED
                BY <3>1, <4>1, <1>6, MapAnalysed
        <3>2. CASE ~ IsEventOf(line, "20002")
            BY <3>2, MapIsRead
        <3> QED
            BY <3>1, <3>2
    <2> QED
        BY <2>1, <2>2 DEF BlockInv
<1> QED
    BY <1>5, <1>6

\* The range of a field is that of its numbers, and there is none without a number.
RangesInv ==
    LET ranges == map20002.metadataRanges
    IN \A field \in MapMetadata :
           /\ IsFiniteSet(numbersOf(field))
           /\ IF field \in DOMAIN ranges
              THEN IsRangeOf(ranges[field], numbersOf(field)) /\ numbersOf(field) # {}
              ELSE numbersOf(field) = {}

\* A number of a map is merged into the range of its field.
LEMMA RangesStep ==
    ASSUME ReadInv, IsMap(map20002), RangesInv, NEW line \in Lines, Reads(line)
    PROVE  RangesInv'
<1> DEFINE n == Len(seen)
           data == line.data
           r == map20002.metadataRanges
           q == map20002'.metadataRanges
           given == pick(data, MapMetadata, "number")
<1>1. read(line) /\ seen \in Seq(Lines)
    BY LineIsRead DEF ReadInv
<1>2. \A field \in MapMetadata :
          /\ IsFiniteSet(numbersOf(field))
          /\ IF field \in DOMAIN r
             THEN IsRangeOf(r[field], numbersOf(field)) /\ numbersOf(field) # {}
             ELSE numbersOf(field) = {}
    BY DEF RangesInv
<1>3. \A field : numbersOf(field)' =
          numbersOf(field) \cup (IF IsEventOf(line, "20002") /\ has(data, field, "number")
                                 THEN {data[field].of} ELSE {})
    BY <1>1, NumbersOfNext
<1>4. CASE IsEventOf(line, "20002")
    <2>1. q = updateRanges(r, given)
        <3>1. analyzeMap20002(line.data, eventNumber'[n + 1])
            BY <1>4, MapIsRead
        <3> QED
            BY <3>1, MapAnalysed
    <2>2. /\ \A k \in MapMetadata : k \in DOMAIN given <=> has(data, k, "number")
          /\ \A k \in DOMAIN given : given[k] = data[k] /\ k \in DOMAIN data
        BY DEF pick, has
    <2>3. \A k \in DOMAIN given : given[k].of \in Int
        <3>1. \A k \in DOMAIN data : data[k] \in [type : STRING, of : Int]
            BY LineAssumption
        <3> HIDE DEF data, given
        <3> QED
            BY <2>2, <3>1
    <2>4. q = [k \in DOMAIN r \cup DOMAIN given |->
                  LET old == IF k \in DOMAIN r THEN r[k] ELSE NoRange
                  IN IF k \in DOMAIN given THEN mergeRange(old, given[k].of) ELSE old]
        BY <2>1 DEF updateRanges, into
    <2>5. ASSUME NEW field \in MapMetadata
          PROVE  /\ IsFiniteSet(numbersOf(field)')
                 /\ IF field \in DOMAIN q
                    THEN IsRangeOf(q[field], numbersOf(field)') /\ numbersOf(field)' # {}
                    ELSE numbersOf(field)' = {}
        <3> DEFINE S == numbersOf(field)
                   U == numbersOf(field)'
                   old == IF field \in DOMAIN r THEN r[field] ELSE NoRange
                   y == given[field].of
        <3>1. IsRangeOf(old, S) /\ IsFiniteSet(S)
            BY <1>2, NoRangeYet
        <3>2. CASE field \in DOMAIN given
            <4>1. y \in Int /\ U = S \cup {y}
                BY <1>3, <1>4, <2>2, <2>3, <3>2
            <4>2. field \in DOMAIN q /\ q[field] = mergeRange(old, y)
                BY <2>4, <3>2
            <4> HIDE DEF S, U, old, y, q
            <4>3. IsRangeOf(mergeRange(old, y), S \cup {y})
                BY <3>1, <4>1, RangeNext
            <4>4. IsRangeOf(q[field], U) /\ U # {}
                BY <4>1, <4>2, <4>3
            <4>5. IsFiniteSet(U)
                BY <3>1, <4>1, FS_AddElement
            <4> QED
                BY <4>2, <4>4, <4>5 DEF U
        <3>3. CASE field \notin DOMAIN given
            <4>1. U = S
                BY <1>3, <2>2, <3>3
            <4>2. field \in DOMAIN q <=> field \in DOMAIN r
                BY <2>4, <3>3
            <4>3. field \in DOMAIN r => q[field] = r[field]
                BY <2>4, <3>3
            <4> HIDE DEF q, r
            <4> QED
                BY <1>2, <4>1, <4>2, <4>3
        <3> QED
            BY <3>2, <3>3
    <2> QED
        BY <2>5 DEF RangesInv
<1>5. CASE ~ IsEventOf(line, "20002")
    <2>1. map20002' = map20002
        BY <1>5, MapIsRead
    <2>2. \A field : numbersOf(field)' = numbersOf(field)
        BY <1>3, <1>5
    <2> QED
        BY <1>2, <2>1, <2>2 DEF RangesInv
<1> QED
    BY <1>4, <1>5

-----------------------------------------------------------------------------
(* What the signals come to *)

\* A range has one end for both if there is at most one number.
LEMMA OneNumber ==
    ASSUME NEW r, NEW S, IsRangeOf(r, S), S # {}, IsFiniteSet(S)
    PROVE  r.min = r.max <=> Cardinality(S) <= 1
<1>1. /\ S \subseteq Int /\ r.min \in S /\ r.max \in S
      /\ \A x \in S : r.min <= x /\ x <= r.max
    BY DEF IsRangeOf
<1>2. ASSUME r.min = r.max PROVE Cardinality(S) <= 1
    <2>1. S = {r.min}
        <3> DEFINE a == r.min
        <3>1. S \subseteq Int /\ a \in S /\ \A x \in S : a <= x /\ x <= a
            BY <1>1, <1>2
        <3> HIDE DEF a
        <3>2. \A x \in S : x = a
            BY <3>1
        <3>3. S = {a}
            BY <3>1, <3>2
        <3> QED
            BY <3>3 DEF a
    <2>2. Cardinality({r.min}) = 1
        BY FS_Singleton
    <2> QED
        BY <2>1, <2>2
<1>3. ASSUME Cardinality(S) <= 1 PROVE r.min = r.max
    <2>1. Cardinality(S) \in Nat /\ Cardinality(S) # 0
        BY <1>3, FS_CardinalityType, FS_EmptySet
    <2>2. Cardinality(S) = 1
        BY <1>3, <2>1
    <2>3. PICK x : S = {x}
        BY <1>3, <2>2, FS_Singleton
    <2> QED
        BY <1>1, <2>3
<1> QED
    BY <1>2, <1>3

\* Before every line but the first there is one.
LEMMA LineBefore ==
    ASSUME NEW n \in Nat, NEW D \in SUBSET (1..n), NEW i \in D, i # Min(D)
    PROVE  before(D, i) \in D /\ before(D, i) < i
<1> DEFINE B == {j \in D : j < i}
           m == Min(D)
<1>1. m \in D /\ m <= i
    BY LineEnds
<1>2. m # i
    OBVIOUS
<1> HIDE DEF m
<1>3. m \in Int /\ i \in Int
    BY <1>1
<1>4. m \in B
    BY <1>1, <1>2, <1>3
<1>5. B \in SUBSET (1..n) /\ B # {}
    BY <1>4
<1> HIDE DEF B
<1>6. Max(B) \in B
    BY <1>5, LineEnds
<1>7. before(D, i) = Max(B)
    BY DEF before, B
<1> QED
    BY <1>6, <1>7 DEF B

\* No value differs from the one before if and only if no two differ.
LEMMA NoMove ==
    ASSUME NEW n \in Nat, NEW v, DOMAIN v \in SUBSET (1..n)
    PROVE  moves(v) = {} <=> \A i, j \in DOMAIN v : v[i] = v[j]
<1> DEFINE D == DOMAIN v
<1>1. moves(v) = {i \in D : i # Min(D) /\ v[i] # v[before(D, i)]}
    BY DEF moves
<1>2. \A i \in D : i # Min(D) => before(D, i) \in D /\ before(D, i) < i
    BY LineBefore
<1>3. D # {} => Min(D) \in D
    BY LineEnds
<1>4. D \subseteq Nat
    OBVIOUS
<1> HIDE DEF D
<1>5. ASSUME \A i, j \in D : v[i] = v[j] PROVE moves(v) = {}
    BY <1>1, <1>2, <1>5
<1>6. ASSUME moves(v) = {} PROVE \A i, j \in D : v[i] = v[j]
    <2> DEFINE T == {i \in D : v[i] # v[Min(D)]}
    <2>1. ASSUME T # {} PROVE FALSE
        <3>1. PICK t \in T : \A y \in T : t <= y
            BY <1>4, <2>1, LeastNumber
        <3>2. t \in D /\ v[t] # v[Min(D)] /\ t # Min(D)
            OBVIOUS
        <3> DEFINE b == before(D, t)
        <3>3. b \in D /\ b < t
            BY <1>2, <3>2
        <3>4. v[b] = v[t]
            BY <1>1, <1>6, <3>2
        <3> HIDE DEF b
        <3>5. b \in T
            BY <3>2, <3>3, <3>4
        <3>6. t <= b
            BY <3>1, <3>5
        <3> QED
            BY <1>4, <3>2, <3>3, <3>6
    <2> QED
        BY <2>1
<1> QED
    BY <1>5, <1>6 DEF D

\* The numbers of a map's id are those of its sequence.
LEMMA MapIdValues ==
    ASSUME seen \in Seq(Lines)
    PROVE  LET ids == valuesOf("mapId", mapValues) IN
           /\ DOMAIN ids = {i \in EventsOf("20002") : has(seen[i].data, "mapId", "number")}
           /\ \A i \in DOMAIN ids : ids[i] = seen[i].data["mapId"]
<1> DEFINE ids == valuesOf("mapId", mapValues)
<1>1. ASSUME NEW data
      PROVE  /\ "mapId" \in DOMAIN safeMapSequenceValues(data) <=> has(data, "mapId", "number")
             /\ has(data, "mapId", "number") =>
                    safeMapSequenceValues(data)["mapId"] = data["mapId"]
    <2> DEFINE a == pick(data, MapSequenceNumbers, "number")
               b == lengths(data, "area", "areaCount")
               c == [k \in (IF payloads(data) = <<>> THEN {} ELSE {"encodedBytes"}) |->
                        [type |-> "number", of |-> byteLength(payloads(data)[1])]]
               ab == into(a, b, Unknown, LAMBDA old, v : v)
               abc == into(ab, c, Unknown, LAMBDA old, v : v)
    <2>1. safeMapSequenceValues(data) = abc
        BY DEF safeMapSequenceValues
    <2>2. /\ "mapId" \in DOMAIN a <=> has(data, "mapId", "number")
          /\ "mapId" \in DOMAIN a => a["mapId"] = data["mapId"]
        BY DEF pick, MapSequenceNumbers
    <2>3. "mapId" \notin DOMAIN b
        BY DEF lengths
    <2>4. "mapId" \notin DOMAIN c
        OBVIOUS
    <2> HIDE DEF a, b, c
    <2>5. /\ "mapId" \in DOMAIN ab <=> "mapId" \in DOMAIN a
          /\ "mapId" \in DOMAIN a => ab["mapId"] = a["mapId"]
        BY <2>3 DEF into
    <2> HIDE DEF ab
    <2>6. /\ "mapId" \in DOMAIN abc <=> "mapId" \in DOMAIN ab
          /\ "mapId" \in DOMAIN ab => abc["mapId"] = ab["mapId"]
        BY <2>4 DEF into
    <2> QED
        BY <2>1, <2>2, <2>5, <2>6
<1>2. DOMAIN mapValues = EventsOf("20002")
    BY DEF mapValues
<1>3. \A i \in EventsOf("20002") : mapValues[i] = safeMapSequenceValues(seen[i].data)
    BY DEF mapValues
<1>4. DOMAIN ids = {i \in EventsOf("20002") : has(seen[i].data, "mapId", "number")}
    <2>1. DOMAIN ids = {i \in DOMAIN mapValues : "mapId" \in DOMAIN mapValues[i]}
        BY DEF valuesOf
    <2> HIDE DEF ids
    <2> QED
        BY <2>1, <1>1, <1>2, <1>3
<1>5. ASSUME NEW i \in DOMAIN ids PROVE ids[i] = seen[i].data["mapId"]
    <2>1. ids[i] = mapValues[i]["mapId"]
        BY DEF valuesOf
    <2> HIDE DEF ids
    <2>2. i \in EventsOf("20002") /\ has(seen[i].data, "mapId", "number")
        BY <1>4
    <2> QED
        BY <2>1, <2>2, <1>1, <1>3
<1> QED
    BY <1>4, <1>5

\* The sequence of the map ids has no change if there was one id.
LEMMA OneMapId ==
    ASSUME ReadInv, MapInv, IsFiniteSet(numbersOf("mapId"))
    PROVE  Cardinality(numbersOf("mapId")) = 1 <=>
               /\ "mapId" \in DOMAIN map20002.sequences
               /\ map20002.sequences["mapId"].changes = 0
<1> DEFINE n == Len(seen)
           ids == valuesOf("mapId", mapValues)
           D == DOMAIN ids
           S == numbersOf("mapId")
           b == map20002.sequences
<1>1. seen \in Seq(Lines) /\ n \in Nat
    BY DEF ReadInv
<1>2. /\ D = {i \in EventsOf("20002") : has(seen[i].data, "mapId", "number")}
      /\ \A i \in D : ids[i] = seen[i].data["mapId"]
    BY <1>1, MapIdValues
<1>3. D \in SUBSET (1..n)
    BY <1>2 DEF EventsOf
<1>4. \A i \in D : ids[i] \in [type : STRING, of : Int] /\ ids[i].type = "number"
    <2> TAKE i \in D
    <2>1. seen[i] \in Lines
        BY <1>1, <1>3
    <2>2. has(seen[i].data, "mapId", "number") /\ ids[i] = seen[i].data["mapId"]
        BY <1>2
    <2>3. "mapId" \in DOMAIN seen[i].data /\ seen[i].data["mapId"].type = "number"
        BY <2>2 DEF has
    <2>4. seen[i].data["mapId"] \in [type : STRING, of : Int]
        BY <2>1, <2>3, LineAssumption
    <2> HIDE DEF ids
    <2> QED
        BY <2>2, <2>3, <2>4
<1>5. \A i, j \in D : ids[i] = ids[j] <=> ids[i].of = ids[j].of
    <2> TAKE i, j \in D
    <2> DEFINE x == ids[i]
               y == ids[j]
    <2>1. /\ x \in [type : STRING, of : Int] /\ x.type = "number"
          /\ y \in [type : STRING, of : Int] /\ y.type = "number"
        BY <1>4
    <2> HIDE DEF x, y
    <2>2. x = y <=> x.of = y.of
        BY <2>1
    <2> QED
        BY <2>2 DEF x, y
<1>6. S = {ids[i].of : i \in D}
    <2>1. S = {seen[i].data["mapId"].of : i \in D}
        BY <1>2 DEF numbersOf
    <2> HIDE DEF ids, D, S
    <2> QED
        BY <2>1, <1>2
<1>7. "mapId" \in DOMAIN b <=> D # {}
    <2>1. DOMAIN b = keysOf(mapValues)
        BY DEF MapInv, Replays
    <2>2. D = {i \in DOMAIN mapValues : "mapId" \in DOMAIN mapValues[i]}
        BY DEF valuesOf
    <2>3. "mapId" \in keysOf(mapValues)
              <=> \E i \in DOMAIN mapValues : "mapId" \in DOMAIN mapValues[i]
        BY DEF keysOf
    <2> QED
        BY <2>1, <2>2, <2>3
<1>8. "mapId" \in DOMAIN b => b["mapId"].changes = Cardinality(moves(ids))
    BY DEF MapInv, Replays, Tells
<1>9. moves(ids) = {} <=> \A i, j \in D : ids[i] = ids[j]
    BY <1>1, <1>3, NoMove
<1>10. moves(ids) \subseteq D
    BY DEF moves
<1>11. Cardinality(moves(ids)) = 0 <=> moves(ids) = {}
    <2>1. IsFiniteSet(moves(ids))
        BY <1>1, <1>3, <1>10, PartOfInterval
    <2> QED
        BY <2>1, FS_EmptySet
<1>12. Cardinality(S) = 1 <=> \E x : S = {x}
    BY FS_Singleton
<1> HIDE DEF ids, D, S, b
<1>13. (\E x : S = {x}) <=> D # {} /\ \A i, j \in D : ids[i].of = ids[j].of
    <2>1. ASSUME NEW x, S = {x} PROVE D # {} /\ \A i, j \in D : ids[i].of = ids[j].of
        BY <1>6, <2>1
    <2>2. ASSUME D # {}, \A i, j \in D : ids[i].of = ids[j].of PROVE \E x : S = {x}
        <3>1. PICK k \in D : TRUE
            BY <2>2
        <3>2. S = {ids[k].of}
            BY <1>6, <2>2, <3>1
        <3> QED
            BY <3>2
    <2> QED
        BY <2>1, <2>2
<1>14. "mapId" \in DOMAIN b /\ b["mapId"].changes = 0 <=> Cardinality(S) = 1
    BY <1>5, <1>7, <1>8, <1>9, <1>11, <1>12, <1>13
<1> QED
    BY <1>14 DEF S, b

\* A field is stable if its maps have at most one number of it.
LEMMA StableField ==
    ASSUME RangesInv, NEW field \in MapMetadata
    PROVE  stable(field) <=> Cardinality(numbersOf(field)) <= 1
<1> DEFINE r == map20002.metadataRanges
           S == numbersOf(field)
<1>1. /\ IsFiniteSet(S)
      /\ IF field \in DOMAIN r THEN IsRangeOf(r[field], S) /\ S # {} ELSE S = {}
    BY DEF RangesInv
<1>2. stable(field) <=> (field \in DOMAIN r => r[field].min = r[field].max)
    BY DEF stable
<1> HIDE DEF r, S
<1>3. CASE field \in DOMAIN r
    BY <1>1, <1>2, <1>3, OneNumber DEF S
<1>4. CASE field \notin DOMAIN r
    <2>1. Cardinality(S) = 0
        BY <1>1, <1>4, FS_EmptySet
    <2> QED
        BY <1>2, <1>4, <2>1 DEF S
<1> QED
    BY <1>3, <1>4

\* What the analysis says of the map block in the end.
InterpretationInv == done => map20002.interpretation = finalizeMapBlockSignals

\* It is what a reader of all maps would say.
LEMMA SignalsSound ==
    ASSUME ReadInv, MapInv, BlockInv, RangesInv, InterpretationInv
    PROVE  InterpretationSound
<1> SUFFICES ASSUME done PROVE InterpretationSound
    BY DEF InterpretationSound
<1> DEFINE n == Len(seen)
           v == samples
           D == DOMAIN v
           m == map20002
           c == Cardinality(D)
<1>1. seen \in Seq(Lines) /\ n \in Nat
    BY DEF ReadInv
<1>2. D \in SUBSET (1..n)
    BY <1>1 DEF samples, EventsOf
<1>3. m.interpretation = finalizeMapBlockSignals
    BY DEF InterpretationInv
<1>4. m.samples = c /\ m.changedPayload = Cardinality(moves(v))
      /\ (D # {} => m.stablePrefixBytes = sharedPrefix(v))
    BY DEF BlockInv
<1>5. moves(v) = {} <=> \A i, j \in D : v[i] = v[j]
    BY <1>1, <1>2, NoMove
<1>6. moves(v) \subseteq D
    BY DEF moves
<1>7. c \in Nat /\ IsFiniteSet(D)
    BY <1>1, <1>2, PartOfInterval
<1>8. Cardinality(moves(v)) > 0 <=> \E i, j \in D : v[i] # v[j]
    <2>1. IsFiniteSet(moves(v)) /\ Cardinality(moves(v)) \in Nat
        BY <1>1, <1>2, <1>6, PartOfInterval
    <2>2. Cardinality(moves(v)) = 0 <=> moves(v) = {}
        BY <2>1, FS_EmptySet
    <2> HIDE DEF v, D
    <2> QED
        BY <1>5, <2>1, <2>2
<1>9. ASSUME NEW i \in D, NEW j \in D, v[i] # v[j] PROVE c >= 2
    <2>1. i # j
        BY <1>9
    <2>2. IsFiniteSet({i}) /\ Cardinality({i}) = 1
        BY FS_Singleton
    <2>3. IsFiniteSet({i} \cup {j}) /\ Cardinality({i} \cup {j}) = 2
        BY <2>1, <2>2, FS_AddElement
    <2>4. {i} \cup {j} \subseteq D
        OBVIOUS
    <2>5. Cardinality({i} \cup {j}) <= c
        BY <1>7, <2>4, FS_Subset
    <2> QED
        BY <1>7, <2>3, <2>5
<1> DEFINE one == "mapId" \in DOMAIN m.sequences /\ m.sequences["mapId"].changes = 0
<1>10. one <=> Cardinality(numbersOf("mapId")) = 1
    <2>1. IsFiniteSet(numbersOf("mapId"))
        BY DEF RangesInv, MapMetadata
    <2> QED
        BY <2>1, OneMapId
<1>11. /\ stable("width") <=> Cardinality(numbersOf("width")) <= 1
       /\ stable("height") <=> Cardinality(numbersOf("height")) <= 1
    BY StableField DEF MapMetadata
<1>12. finalizeMapBlockSignals =
           IF m.samples < 2 THEN "insufficient-evidence"
           ELSE IF stable("width") /\ stable("height") /\ one /\ m.changedPayload > 0
           THEN "snapshot-like" ELSE "movement-only-possible"
    BY DEF finalizeMapBlockSignals
<1> HIDE DEF one, m, v, D, c
<1>13. m.interpretation = "insufficient-evidence" <=> c < 2
    BY <1>3, <1>4, <1>12
<1>14. m.interpretation = "snapshot-like" <=>
           /\ \E i, j \in D : v[i] # v[j]
           /\ Cardinality(numbersOf("width")) <= 1 /\ Cardinality(numbersOf("height")) <= 1
           /\ Cardinality(numbersOf("mapId")) = 1
    <2>1. (\E i, j \in D : v[i] # v[j]) => ~ (c < 2)
        BY <1>7, <1>9
    <2> QED
        BY <1>3, <1>4, <1>8, <1>10, <1>11, <1>12, <2>1
<1> QED
    BY <1>4, <1>13, <1>14 DEF InterpretationSound, m, v, D, c

-----------------------------------------------------------------------------
(* The invariant *)

AnalysisInv ==
    /\ ReadInv /\ StatusInv /\ MapInv /\ ExtraInv
    /\ SegmentInv /\ BlockInv /\ RangesInv /\ InterpretationInv

\* The reference definitions are about the lines alone.
LEMMA SeenSame ==
    ASSUME seen' = seen
    PROVE  /\ eventLines' = eventLines /\ eventNumber' = eventNumber
           /\ extraTypes' = extraTypes /\ statusValues' = statusValues /\ mapValues' = mapValues
           /\ pathIds' = pathIds /\ encodedSizes' = encodedSizes /\ samples' = samples
           /\ \A type : /\ EventsOf(type)' = EventsOf(type)
                        /\ valuesOfType(type)' = valuesOfType(type)
           /\ \A field : numbersOf(field)' = numbersOf(field)
<1>1. \A type : EventsOf(type)' = EventsOf(type)
    BY DEF EventsOf
<1>2. EventsOf("20001")' = EventsOf("20001") /\ EventsOf("20002")' = EventsOf("20002")
    BY <1>1
<1>3. eventLines' = eventLines /\ eventNumber' = eventNumber /\ extraTypes' = extraTypes
    BY DEF eventLines, eventNumber, extraTypes
<1>4. statusValues' = statusValues /\ mapValues' = mapValues
    BY <1>2 DEF statusValues, mapValues
<1>5. pathIds' = pathIds /\ encodedSizes' = encodedSizes /\ samples' = samples
    BY <1>2 DEF pathIds, encodedSizes, samples
<1>6. \A type : valuesOfType(type)' = valuesOfType(type)
    BY <1>1 DEF valuesOfType
<1>7. \A field : numbersOf(field)' = numbersOf(field)
    BY <1>2 DEF numbersOf
<1> QED
    BY <1>1, <1>3, <1>4, <1>5, <1>6, <1>7

\* Before a line is read nothing is kept.
LEMMA AnalysisStarts ==
    ASSUME AnalysisInit
    PROVE  AnalysisInv
<1>1. seen = <<>> /\ done = FALSE /\ Len(seen) = 0 /\ 1..Len(seen) = {}
    <2>1. seen = <<>> /\ done = FALSE
        BY DEF AnalysisInit
    <2>2. Len(<<>>) = 0 /\ 1..0 = {}
        OBVIOUS
    <2> QED
        BY <2>1, <2>2
<1>2. Cardinality({}) = 0 /\ IsFiniteSet({})
    BY FS_EmptySet
<1>3. eventLines = {} /\ extraTypes = {} /\ \A type : EventsOf(type) = {}
    BY <1>1 DEF eventLines, extraTypes, EventsOf
<1>4. /\ DOMAIN statusValues = {} /\ DOMAIN mapValues = {} /\ DOMAIN pathIds = {}
      /\ DOMAIN encodedSizes = {} /\ DOMAIN samples = {} /\ \A field : numbersOf(field) = {}
    BY <1>3 DEF statusValues, mapValues, pathIds, encodedSizes, samples, numbersOf
<1>5. ReadInv
    <2>1. records = [total |-> 0, malformed |-> 0, runs |-> 0, events |-> 0, frameErrors |-> 0]
        BY DEF AnalysisInit
    <2>2. /\ records = [f \in {"total", "malformed", "runs", "events", "frameErrors"}
                            |-> records[f]]
          /\ records.events = 0
        BY <2>1
    <2>3. seen \in Seq(Lines)
        BY <1>1
    <2> QED
        BY <1>1, <1>2, <1>3, <2>2, <2>3 DEF ReadInv
<1>6. ASSUME NEW given, DOMAIN given = {}
      PROVE  IsBucket(Empty) /\ Replays(Empty, given, eventNumber)
    <2>1. DOMAIN Empty = {} /\ keysOf(given) = {}
        BY <1>6 DEF Empty, keysOf
    <2> QED
        BY <2>1 DEF IsBucket, Replays
<1>7. StatusInv
    <2>1. status20001.sequences = Empty
        BY DEF AnalysisInit
    <2> QED
        BY <2>1, <1>4, <1>6 DEF StatusInv
<1>8. /\ IsMap(map20002) /\ map20002.sequences = Empty /\ map20002.pathSegments = <<>>
      /\ map20002.metadataRanges = Empty /\ map20002.samples = 0 /\ map20002.changedPayload = 0
    BY DEF AnalysisInit, IsMap, MapFields
<1>9. MapInv
    BY <1>4, <1>6, <1>8 DEF MapInv
<1>10. ExtraInv
    <2>1. /\ analysisEvents = [f \in {"infoTypes", "dataShapes", "fieldOccurrences",
                                      "extraSequences"} |-> analysisEvents[f]]
          /\ DOMAIN analysisEvents.extraSequences = {}
        BY DEF AnalysisInit, Empty
    <2> QED
        BY <2>1, <1>3 DEF ExtraInv
<1>11. SegmentInv
    <2>1. starts(pathIds) = {}
        BY <1>4 DEF starts, moves
    <2>2. <<>> \in Seq({}) /\ Len(<<>>) = 0
        OBVIOUS
    <2> QED
        BY <2>1, <2>2, <1>2, <1>4, <1>8 DEF SegmentInv, AreSegments
<1>12. BlockInv
    <2>1. moves(samples) = {}
        BY <1>4 DEF moves
    <2>2. firstPayload = <<>> /\ previousPayload = <<>>
        BY DEF AnalysisInit
    <2> QED
        BY <2>1, <2>2, <1>2, <1>4, <1>8 DEF BlockInv
<1>13. RangesInv
    <2>1. DOMAIN map20002.metadataRanges = {}
        BY <1>8 DEF Empty
    <2> QED
        BY <2>1, <1>2, <1>4 DEF RangesInv
<1>14. InterpretationInv
    BY <1>1 DEF InterpretationInv
<1> QED
    BY <1>5, <1>7, <1>9, <1>10, <1>11, <1>12, <1>13, <1>14 DEF AnalysisInv

\* Every line keeps it.
LEMMA LineKeepsIt ==
    ASSUME AnalysisInv, NEW line \in Lines, Reads(line)
    PROVE  AnalysisInv'
<1>1. /\ ReadInv /\ StatusInv /\ MapInv /\ ExtraInv
      /\ SegmentInv /\ BlockInv /\ RangesInv
    BY DEF AnalysisInv
<1>2. IsMap(map20002)
    BY <1>1 DEF MapInv
<1>3. ReadInv' /\ ~ done'
    BY <1>1, LineIsRead
<1>4. StatusInv' /\ MapInv' /\ ExtraInv'
    BY <1>1, StatusStep, MapStep, ExtraStep
<1>5. SegmentInv' /\ BlockInv' /\ RangesInv'
    BY <1>1, <1>2, SegmentStep, BlockStep, RangesStep
<1>6. InterpretationInv'
    BY <1>3 DEF InterpretationInv
<1> QED
    BY <1>3, <1>4, <1>5, <1>6 DEF AnalysisInv

\* Sorting the analysis only drops the types without a value and adds the interpretation.
LEMMA SortingKeepsIt ==
    ASSUME AnalysisInv, sortAnalysis
    PROVE  AnalysisInv'
<1> DEFINE x == analysisEvents.extraSequences
           y == analysisEvents'.extraSequences
           kept == {t \in DOMAIN x : DOMAIN x[t] # {}}
           m == map20002
           k == map20002'
<1>1. /\ ReadInv /\ StatusInv /\ MapInv /\ ExtraInv
      /\ SegmentInv /\ BlockInv /\ RangesInv
    BY DEF AnalysisInv
<1>2. /\ ~ done /\ done' = TRUE /\ seen' = seen /\ records' = records
      /\ status20001' = status20001 /\ firstPayload' = firstPayload
      /\ previousPayload' = previousPayload
      /\ k = [m EXCEPT !.interpretation = finalizeMapBlockSignals]
      /\ analysisEvents' = [analysisEvents EXCEPT !.extraSequences = [t \in kept |-> @[t]]]
    BY DEF sortAnalysis
<1>3. /\ eventLines' = eventLines /\ eventNumber' = eventNumber
      /\ extraTypes' = extraTypes /\ statusValues' = statusValues /\ mapValues' = mapValues
      /\ pathIds' = pathIds /\ encodedSizes' = encodedSizes /\ samples' = samples
      /\ \A type : /\ EventsOf(type)' = EventsOf(type)
                   /\ valuesOfType(type)' = valuesOfType(type)
      /\ \A field : numbersOf(field)' = numbersOf(field)
    BY <1>2, SeenSame
<1>4. /\ IsMap(k) /\ k.interpretation = finalizeMapBlockSignals
      /\ k.sequences = m.sequences /\ k.pathSegments = m.pathSegments
      /\ k.metadataRanges = m.metadataRanges /\ k.samples = m.samples
      /\ k.changedPayload = m.changedPayload /\ k.stablePrefixBytes = m.stablePrefixBytes
    <2> DEFINE i == finalizeMapBlockSignals
    <2>1. m = [f \in MapFields |-> m[f]] /\ k = [m EXCEPT !.interpretation = i]
        BY <1>1, <1>2 DEF MapInv, IsMap
    <2> HIDE DEF i, m, k
    <2>2. /\ k = [f \in MapFields |-> k[f]] /\ k.interpretation = i
          /\ k.sequences = m.sequences /\ k.pathSegments = m.pathSegments
          /\ k.metadataRanges = m.metadataRanges /\ k.samples = m.samples
          /\ k.changedPayload = m.changedPayload /\ k.stablePrefixBytes = m.stablePrefixBytes
        BY <2>1 DEF MapFields
    <2> QED
        BY <2>2 DEF IsMap, i
<1>5. ReadInv' /\ StatusInv'
    BY <1>1, <1>2, <1>3 DEF ReadInv, StatusInv
<1>6. MapInv' /\ SegmentInv' /\ BlockInv' /\ RangesInv'
    BY <1>1, <1>2, <1>3, <1>4 DEF MapInv, SegmentInv, BlockInv, RangesInv
<1>7. InterpretationInv'
    <2>1. (stable("width")' <=> stable("width")) /\ (stable("height")' <=> stable("height"))
        BY <1>4 DEF stable
    <2>2. finalizeMapBlockSignals' = finalizeMapBlockSignals
        BY <1>4, <2>1 DEF finalizeMapBlockSignals
    <2> QED
        BY <1>4, <2>2 DEF InterpretationInv
<1>8. ExtraInv'
    <2> DEFINE F == {"infoTypes", "dataShapes", "fieldOccurrences", "extraSequences"}
               e == [t \in kept |-> x[t]]
    <2>1. analysisEvents = [f \in F |-> analysisEvents[f]] /\ DOMAIN x \subseteq extraTypes
        BY <1>1 DEF ExtraInv
    <2>2. analysisEvents' = [analysisEvents EXCEPT !.extraSequences = e]
        BY <1>2
    <2>3. y = e /\ analysisEvents' = [f \in F |-> analysisEvents'[f]]
        <3> HIDE DEF e
        <3> QED
            BY <2>1, <2>2
    <2>4. DOMAIN y \subseteq extraTypes'
        BY <1>3, <2>1, <2>3
    <2>5. ASSUME NEW type \in extraTypes' PROVE OfType(type, analysisEvents.extraSequences)'
        <3>1. OfType(type, x)
            BY <1>1, <1>3 DEF ExtraInv
        <3>2. CASE type \in kept
            <4>1. type \in DOMAIN x /\ type \in DOMAIN y /\ y[type] = x[type]
                BY <2>3, <3>2
            <4>2. IsBucket(x[type]) /\ Replays(x[type], valuesOfType(type), eventNumber)
                BY <3>1, <4>1 DEF OfType
            <4>3. IsBucket(y[type]) /\ Replays(y[type], valuesOfType(type)', eventNumber')
                BY <1>3, <4>1, <4>2
            <4> QED
                BY <4>1, <4>3 DEF OfType
        <3>3. CASE type \notin kept
            <4>1. type \notin DOMAIN y
                BY <2>3, <3>3
            <4>2. \A i \in EventsOf(type) : DOMAIN extraValues(seen[i]) = {}
                <5>1. CASE type \notin DOMAIN x
                    BY <1>2, <3>1, <5>1 DEF OfType
                <5>2. CASE type \in DOMAIN x
                    <6>1. DOMAIN x[type] = {} /\ Replays(x[type], valuesOfType(type), eventNumber)
                        BY <3>1, <3>3, <5>2 DEF OfType
                    <6>2. keysOf(valuesOfType(type)) = {}
                        BY <6>1 DEF Replays
                    <6>3. /\ DOMAIN valuesOfType(type) = EventsOf(type)
                          /\ \A i \in EventsOf(type) :
                                 valuesOfType(type)[i] = extraValues(seen[i])
                        BY DEF valuesOfType
                    <6> QED
                        BY <6>2, <6>3 DEF keysOf
                <5> QED
                    BY <5>1, <5>2
            <4> QED
                BY <1>2, <1>3, <4>1, <4>2 DEF OfType
        <3> QED
            BY <3>2, <3>3
    <2> QED
        BY <2>3, <2>4, <2>5 DEF ExtraInv
<1> QED
    BY <1>5, <1>6, <1>7, <1>8 DEF AnalysisInv

\* So does a step that changes nothing.
LEMMA StutteringKeepsIt ==
    ASSUME AnalysisInv, UNCHANGED analysisVars
    PROVE  AnalysisInv'
<1>1. /\ ReadInv /\ StatusInv /\ MapInv /\ ExtraInv
      /\ SegmentInv /\ BlockInv /\ RangesInv /\ InterpretationInv
    BY DEF AnalysisInv
<1>2. /\ done' = done /\ seen' = seen /\ records' = records /\ analysisEvents' = analysisEvents
      /\ status20001' = status20001 /\ map20002' = map20002 /\ firstPayload' = firstPayload
      /\ previousPayload' = previousPayload
    BY DEF analysisVars, eventVars
<1>3. /\ eventLines' = eventLines /\ eventNumber' = eventNumber
      /\ extraTypes' = extraTypes /\ statusValues' = statusValues /\ mapValues' = mapValues
      /\ pathIds' = pathIds /\ encodedSizes' = encodedSizes /\ samples' = samples
      /\ \A type : /\ EventsOf(type)' = EventsOf(type)
                   /\ valuesOfType(type)' = valuesOfType(type)
      /\ \A field : numbersOf(field)' = numbersOf(field)
    BY <1>2, SeenSame
<1>4. ReadInv' /\ StatusInv'
    BY <1>1, <1>2, <1>3 DEF ReadInv, StatusInv
<1>5. MapInv' /\ SegmentInv' /\ BlockInv' /\ RangesInv'
    BY <1>1, <1>2, <1>3 DEF MapInv, SegmentInv, BlockInv, RangesInv
<1>6. InterpretationInv'
    BY <1>1, <1>2 DEF InterpretationInv, finalizeMapBlockSignals, stable
<1>7. ExtraInv'
    BY <1>1, <1>2, <1>3 DEF ExtraInv, OfType
<1> QED
    BY <1>4, <1>5, <1>6, <1>7 DEF AnalysisInv

\* The invariant holds throughout.
THEOREM AnalysisInvariant == AnalysisSpec => []AnalysisInv
<1>1. AnalysisInit => AnalysisInv
    BY AnalysisStarts
<1>2. AnalysisInv /\ [AnalysisNext]_analysisVars => AnalysisInv'
    <2> SUFFICES ASSUME AnalysisInv, [AnalysisNext]_analysisVars PROVE AnalysisInv'
        OBVIOUS
    <2>1. CASE \E line \in Lines : Reads(line)
        <3>1. PICK line \in Lines : Reads(line)
            BY <2>1
        <3> QED
            BY <3>1, LineKeepsIt
    <2>2. CASE sortAnalysis
        BY <2>2, SortingKeepsIt
    <2>3. CASE UNCHANGED analysisVars
        BY <2>3, StutteringKeepsIt
    <2> QED
        BY <2>1, <2>2, <2>3 DEF AnalysisNext, Reads
<1> QED
    BY <1>1, <1>2, PTL DEF AnalysisSpec

\* One pass is enough: what analyzeCaptureLines keeps of the changes of fields and of the paths
\* is what a reader of the whole file would find, whatever the lines.
THEOREM OnePassIsEnough == AnalysisSpec => []AnalysisAgrees
<1>1. ASSUME AnalysisInv PROVE AnalysisAgrees
    <2>1. StatusInv /\ MapInv /\ ExtraInv /\ SegmentInv
        BY <1>1 DEF AnalysisInv
    <2>2. SequencesReplay
        <3>1. ASSUME NEW type \in extraTypes
              PROVE  IF type \in DOMAIN analysisEvents.extraSequences
                     THEN Replays(analysisEvents.extraSequences[type], valuesOfType(type),
                                  eventNumber)
                     ELSE \A i \in EventsOf(type) : DOMAIN extraValues(seen[i]) = {}
            <4>1. OfType(type, analysisEvents.extraSequences)
                BY <2>1 DEF ExtraInv
            <4> QED
                BY <4>1 DEF OfType
        <3> QED
            BY <2>1, <3>1 DEF SequencesReplay, StatusInv, MapInv, ExtraInv
    <2>3. Partitions(map20002.pathSegments, pathIds, encodedSizes, eventNumber)
        <3> DEFINE s == map20002.pathSegments
        <3>1. /\ Len(s) = Cardinality(starts(pathIds))
              /\ \A i \in starts(pathIds) :
                     IsSegment(s[rank(starts(pathIds), i)], i, pathIds, encodedSizes, eventNumber)
            BY <2>1 DEF SegmentInv, AreSegments
        <3>2. \A i \in starts(pathIds) :
                  IsOfStretch(s[rank(starts(pathIds), i)], i, pathIds, encodedSizes, eventNumber)
            BY <3>1, SegmentTells
        <3> QED
            BY <3>1, <3>2 DEF Partitions
    <2> QED
        BY <2>2, <2>3 DEF AnalysisAgrees
<1> QED
    BY <1>1, AnalysisInvariant, PTL

\* The map block is called a snapshot, or not, on the evidence of all maps, and its stable prefix
\* is the longest that all of them share.
THEOREM SignalsAreEvidence == AnalysisSpec => []InterpretationSound
<1>1. ASSUME AnalysisInv PROVE InterpretationSound
    BY <1>1, SignalsSound DEF AnalysisInv
<1> QED
    BY <1>1, AnalysisInvariant, PTL
==============================================================================
