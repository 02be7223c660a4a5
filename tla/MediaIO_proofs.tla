--------------------------- MODULE MediaIO_proofs ---------------------------
(***************************************************************************)
(* The media cache and the image stream: what is proved of each, for every *)
(* number of saves, every size, limit and number of places in the channel. *)
(*                                                                         *)
(* The cache counts bytes and scans files by recursive functions. tlapm    *)
(* takes a recursive function for what it is, the choice of some function  *)
(* that satisfies an equation, so the first part shows by induction that   *)
(* one exists (Recursion, SumsExist) and from it what BytesOf, Without and *)
(* Evict compute. The rest is one lemma per action.                        *)
(*                                                                         *)
(* The stream needs no more than the order of the events in its channel.   *)
(***************************************************************************)
EXTENDS MCMediaIO, FiniteSetTheorems, SequenceTheorems, WellFoundedInduction, TLAPS

(* Induction over the natural numbers, from the well-foundedness of <.     *)
LEMMA Induction ==
  ASSUME NEW S \in SUBSET Nat, 0 \in S, \A n \in S : n + 1 \in S
  PROVE  S = Nat
<1> SUFFICES ASSUME Nat \ S # {} PROVE FALSE
  OBVIOUS
<1> DEFINE LT == {p \in Nat \X Nat : p[1] < p[2]}
<1>1. IsWellFoundedOn(LT, Nat)
  BY NatLessThanWellFounded DEF OpToRel
<1> HIDE DEF LT
<1>2. PICK x \in Nat \ S : \A y \in Nat \ S : ~(<<y, x>> \in LT)
  BY <1>1, WFMin
<1>3. \A y \in Nat \ S : ~(y < x)
  BY <1>2 DEF LT
<1>4. x # 0 /\ x - 1 \in Nat /\ x - 1 < x
  OBVIOUS
<1>5. x - 1 \in S
  BY <1>3, <1>4
<1>6. (x - 1) + 1 = x
  BY <1>4
<1> QED
  BY <1>5, <1>6

(* A recursion over 1..n, by the steps of h from a, has a solution in A.   *)
Steps(h, n, A) == \A i \in 1..n : \A q \in A : h[<<i, q>>] \in A
Solves(g, h, n, A, a) ==
  g \in [0..n -> A] /\ g[0] = a /\ \A i \in 1..n : g[i] = h[<<i, g[i - 1]>>]

(* The solution exists: by induction on how far it is one.                 *)
LEMMA Recursion ==
  ASSUME NEW n \in Nat, NEW A, NEW a \in A, NEW h, Steps(h, n, A)
  PROVE  \E g : Solves(g, h, n, A, a)
<1> USE DEF Steps, Solves
<1> DEFINE Upto(m) == \E g \in [0..n -> A] :
                        g[0] = a /\ \A i \in 1..n : i <= m => g[i] = h[<<i, g[i - 1]>>]
           S == {m \in Nat : Upto(m)}
<1>1. 0 \in S
  <2>1. PICK g \in [0..n -> A] : g = [i \in 0..n |-> a]
    OBVIOUS
  <2>2. g[0] = a /\ \A i \in 1..n : i <= 0 => g[i] = h[<<i, g[i - 1]>>]
    BY <2>1
  <2> QED
    BY <2>2
<1>2. \A m \in S : m + 1 \in S
  <2> TAKE m \in S
  <2>1. PICK g \in [0..n -> A] : g[0] = a /\ \A i \in 1..n : i <= m => g[i] = h[<<i, g[i - 1]>>]
    OBVIOUS
  <2>2. CASE m + 1 \in 1..n
    <3> DEFINE v == h[<<m + 1, g[m]>>]
    <3>1. m \in 0..n /\ v \in A
      <4>1. m \in 0..n
        BY <2>2
      <4>2. g[m] \in A
        BY <4>1
      <4> QED
        BY <2>2, <4>1, <4>2
    <3>2. PICK w \in A : w = v
      BY <3>1
    <3> HIDE DEF v
    <3>3. PICK k \in [0..n -> A] : k = [g EXCEPT ![m + 1] = w]
      BY <2>1
    <3>4. k[m + 1] = w /\ \A i \in 0..n : i # m + 1 => k[i] = g[i]
      BY <3>3, <2>2
    <3>5. k[0] = a
      BY <3>4, <2>1, <2>2
    <3>6. \A i \in 1..n : i <= m + 1 => k[i] = h[<<i, k[i - 1]>>]
      <4> TAKE i \in 1..n
      <4>1. CASE i = m + 1
        <5>1. i - 1 = m /\ k[m] = g[m] /\ k[i] = w
          BY <4>1, <3>1, <3>4
        <5>2. w = h[<<m + 1, g[m]>>]
          BY <3>2 DEF v
        <5> QED
          BY <4>1, <5>1, <5>2
      <4>2. CASE i <= m
        BY <4>2, <3>4, <2>1
      <4> QED
        BY <4>1, <4>2
    <3> QED
      BY <3>5, <3>6
  <2>3. CASE m + 1 \notin 1..n
    <3>1. \A i \in 1..n : i <= m + 1 => i <= m
      BY <2>3
    <3>2. \A i \in 1..n : i <= m + 1 => g[i] = h[<<i, g[i - 1]>>]
      BY <3>1, <2>1
    <3> QED
      BY <2>1, <3>2
  <2> QED
    BY <2>2, <2>3
<1> HIDE DEF S
<1>3. S \in SUBSET Nat
  BY DEF S
<1>4. S = Nat
  BY <1>1, <1>2, <1>3, Induction
<1>5. Upto(n)
  BY <1>4 DEF S
<1> QED
  BY <1>5

-----------------------------------------------------------------------------
(* The recursion BytesOf solves.                                           *)
Sums(g, S) ==
  g = [T \in SUBSET S |-> IF T = {} THEN 0
                          ELSE LET f == CHOOSE x \in T : TRUE IN Size[f] + g[T \ {f}]]

(* The bytes of a file. *)
LEMMA SizeFacts == ASSUME NEW f \in Saves PROVE Size[f] \in Nat
  BY CacheAssumption

(* The sum over the subsets of a finite set exists, by induction on their  *)
(* cardinality.                                                            *)
LEMMA SumsExist ==
  ASSUME NEW S \in SUBSET Saves, IsFiniteSet(S)
  PROVE  \E g : Sums(g, S)
<1> DEFINE Step(g, T) == IF T = {} THEN 0
                         ELSE LET f == CHOOSE x \in T : TRUE IN Size[f] + g[T \ {f}]
           Good(m) == \E g \in [SUBSET S -> Nat] :
                        \A T \in SUBSET S : Cardinality(T) <= m => g[T] = Step(g, T)
           N == {m \in Nat : Good(m)}
<1>0. \A T \in SUBSET S : IsFiniteSet(T) /\ Cardinality(T) \in Nat
  BY FS_Subset, FS_CardinalityType
<1>1. 0 \in N
  <2>1. PICK g \in [SUBSET S -> Nat] : g = [T \in SUBSET S |-> 0]
    OBVIOUS
  <2>2. \A T \in SUBSET S : Cardinality(T) <= 0 => T = {}
    BY <1>0, FS_EmptySet
  <2>3. \A T \in SUBSET S : Cardinality(T) <= 0 => g[T] = Step(g, T)
    BY <2>1, <2>2
  <2> QED
    BY <2>3
<1>2. \A m \in N : m + 1 \in N
  <2> TAKE m \in N
  <2>1. PICK g \in [SUBSET S -> Nat] :
          \A T \in SUBSET S : Cardinality(T) <= m => g[T] = Step(g, T)
    OBVIOUS
  <2>2. ASSUME NEW T \in SUBSET S PROVE Step(g, T) \in Nat
    <3>1. CASE T = {}
      BY <3>1
    <3>2. CASE T # {}
      <4>1. PICK f \in T : f = CHOOSE x \in T : TRUE
        BY <3>2
      <4>2. Size[f] \in Nat /\ g[T \ {f}] \in Nat
        BY SizeFacts
      <4>3. Size[f] + g[T \ {f}] \in Nat
        BY <4>2
      <4> QED
        BY <3>2, <4>1, <4>3
    <3> QED
      BY <3>1, <3>2
  <2>3. PICK k \in [SUBSET S -> Nat] : k = [T \in SUBSET S |-> Step(g, T)]
    BY <2>2
  <2>4. \A T \in SUBSET S : Cardinality(T) <= m => k[T] = g[T]
    BY <2>1, <2>3
  <2>5. \A T \in SUBSET S : Cardinality(T) <= m + 1 => k[T] = Step(k, T)
    <3> SUFFICES ASSUME NEW T \in SUBSET S, Cardinality(T) <= m + 1 PROVE k[T] = Step(k, T)
      OBVIOUS
    <3>1. CASE T = {}
      BY <2>3, <3>1
    <3>2. CASE T # {}
      <4>1. PICK f \in T : f = CHOOSE x \in T : TRUE
        BY <3>2
      <4>2. Cardinality(T \ {f}) <= m
        BY <1>0, FS_RemoveElement
      <4>3. k[T \ {f}] = g[T \ {f}]
        BY <4>2, <2>4
      <4>4. k[T] = Step(g, T)
        BY <2>3
      <4> QED
        BY <3>2, <4>1, <4>3, <4>4
    <3> QED
      BY <3>1, <3>2
  <2> HIDE DEF Step
  <2>6. Good(m + 1)
    BY <2>5
  <2> QED
    BY <2>6
<1> HIDE DEF N
<1>3. N \in SUBSET Nat
  BY DEF N
<1>4. N = Nat
  BY <1>1, <1>2, <1>3, Induction
<1>5. Good(Cardinality(S))
  BY <1>0, <1>4 DEF N
<1>6. PICK g \in [SUBSET S -> Nat] :
        \A T \in SUBSET S : Cardinality(T) <= Cardinality(S) => g[T] = Step(g, T)
  BY <1>5
<1>7. \A T \in SUBSET S : g[T] = Step(g, T)
  BY <1>6, FS_Subset
<1>8. g = [T \in SUBSET S |-> Step(g, T)]
  BY <1>7
<1> QED
  BY <1>8 DEF Sums

(* Two such sums, over different sets, agree on the subsets of both.       *)
LEMMA SumsUnique ==
  ASSUME NEW S, NEW R, NEW g, NEW k, IsFiniteSet(S), R \subseteq S, Sums(g, S), Sums(k, R),
         S \subseteq Saves
  PROVE  \A T \in SUBSET R : g[T] = k[T] /\ g[T] \in Nat
<1>0. \A T \in SUBSET R : IsFiniteSet(T) /\ Cardinality(T) \in Nat
  BY FS_Subset, FS_CardinalityType
<1> DEFINE N == {m \in Nat : \A T \in SUBSET R : Cardinality(T) <= m => g[T] = k[T] /\ g[T] \in Nat}
<1>1. 0 \in N
  <2>1. \A T \in SUBSET R : Cardinality(T) <= 0 => T = {}
    BY <1>0, FS_EmptySet
  <2>2. g[{}] = 0 /\ k[{}] = 0
    BY DEF Sums
  <2> QED
    BY <2>1, <2>2
<1>2. \A m \in N : m + 1 \in N
  <2> TAKE m \in N
  <2> SUFFICES ASSUME NEW T \in SUBSET R, Cardinality(T) <= m + 1 PROVE g[T] = k[T] /\ g[T] \in Nat
    OBVIOUS
  <2>1. CASE T = {}
    BY <2>1 DEF Sums
  <2>2. CASE T # {}
    <3>1. PICK f \in T : f = CHOOSE x \in T : TRUE
      BY <2>2
    <3>2. Cardinality(T \ {f}) <= m /\ T \ {f} \in SUBSET R
      BY <1>0, FS_RemoveElement
    <3>3. g[T \ {f}] = k[T \ {f}] /\ g[T \ {f}] \in Nat
      BY <3>2
    <3>4. g[T] = Size[f] + g[T \ {f}]
      <4>1. T \in SUBSET S
        OBVIOUS
      <4> QED
        BY <4>1, <2>2, <3>1 DEF Sums
    <3>5. k[T] = Size[f] + k[T \ {f}]
      BY <2>2, <3>1 DEF Sums
    <3>6. Size[f] \in Nat
      BY SizeFacts
    <3> QED
      BY <3>3, <3>4, <3>5, <3>6
  <2> QED
    BY <2>1, <2>2
<1> HIDE DEF N
<1>3. N \in SUBSET Nat
  BY DEF N
<1>4. N = Nat
  BY <1>1, <1>2, <1>3, Induction
<1> QED
  BY <1>0, <1>4 DEF N

(* BytesOf is such a sum, though its recursive function is only chosen to  *)
(* be one.                                                                 *)
LEMMA BytesAre ==
  ASSUME NEW S \in SUBSET Saves, IsFiniteSet(S)
  PROVE  \E g : Sums(g, S) /\ BytesOf(S) = g[S]
<1> DEFINE g[T \in SUBSET S] == IF T = {} THEN 0
                                ELSE LET f == CHOOSE x \in T : TRUE IN Size[f] + g[T \ {f}]
<1>1. BytesOf(S) = g[S]
  BY Zenon DEF BytesOf
<1>2. g = CHOOSE k : k = [T \in SUBSET S |-> IF T = {} THEN 0
                           ELSE LET f == CHOOSE x \in T : TRUE IN Size[f] + k[T \ {f}]]
  BY DEF g
<1> HIDE DEF g
<1>3. \E k : k = [T \in SUBSET S |-> IF T = {} THEN 0
                    ELSE LET f == CHOOSE x \in T : TRUE IN Size[f] + k[T \ {f}]]
  BY SumsExist DEF Sums
<1>4. Sums(g, S)
  BY <1>2, <1>3 DEF Sums
<1> QED
  BY <1>1, <1>4

(* Bytes are counted file by file, in any order.                           *)
LEMMA BytesFacts ==
  ASSUME NEW S \in SUBSET Saves, IsFiniteSet(S)
  PROVE  /\ BytesOf(S) \in Nat /\ BytesOf({}) = 0
         /\ \A f \in S : BytesOf(S) = Size[f] + BytesOf(S \ {f})
<1>0. \A T \in SUBSET S : IsFiniteSet(T) /\ Cardinality(T) \in Nat
  BY FS_Subset, FS_CardinalityType
<1>1. PICK g : Sums(g, S) /\ BytesOf(S) = g[S]
  BY BytesAre
<1>2. \A T \in SUBSET S : g[T] \in Nat /\ BytesOf(T) = g[T]
  <2> TAKE T \in SUBSET S
  <2>1. T \in SUBSET Saves /\ IsFiniteSet(T)
    BY <1>0
  <2>2. PICK k : Sums(k, T) /\ BytesOf(T) = k[T]
    BY <2>1, BytesAre
  <2>3. g[T] = k[T] /\ g[T] \in Nat
    BY <1>1, <2>2, SumsUnique
  <2> QED
    BY <2>2, <2>3
<1>3. g[{}] = 0
  BY <1>1 DEF Sums
<1> DEFINE Peels(T) == \A f \in T : g[T] = Size[f] + g[T \ {f}]
           N == {m \in Nat : \A T \in SUBSET S : Cardinality(T) <= m => Peels(T)}
<1>4. 0 \in N
  <2>1. \A T \in SUBSET S : Cardinality(T) <= 0 => T = {}
    BY <1>0, FS_EmptySet
  <2> QED
    BY <2>1
<1>5. \A m \in N : m + 1 \in N
  <2> TAKE m \in N
  <2> HIDE DEF Peels
  <2> SUFFICES ASSUME NEW T \in SUBSET S, Cardinality(T) <= m + 1 PROVE Peels(T)
    OBVIOUS
  <2> USE DEF Peels
  <2> TAKE f \in T
  <2>0. f \in T
    OBVIOUS
  <2>1. PICK c \in T : c = CHOOSE x \in T : TRUE
    BY Zenon, <2>0
  <2>2. g[T] = Size[c] + g[T \ {c}]
    BY <1>1, <2>1 DEF Sums
  <2>3. CASE f = c
    BY <2>2, <2>3
  <2>4. CASE f # c
    <3>1. /\ Cardinality(T \ {c}) <= m /\ T \ {c} \in SUBSET S /\ f \in T \ {c}
          /\ Cardinality(T \ {f}) <= m /\ T \ {f} \in SUBSET S /\ c \in T \ {f}
      BY <1>0, <2>4, FS_RemoveElement
    <3>2. g[T \ {c}] = Size[f] + g[(T \ {c}) \ {f}]
      BY <3>1
    <3>3. g[T \ {f}] = Size[c] + g[(T \ {f}) \ {c}]
      BY <3>1
    <3>4. (T \ {c}) \ {f} = (T \ {f}) \ {c} /\ (T \ {c}) \ {f} \in SUBSET S
      OBVIOUS
    <3>5. PICK R \in SUBSET S : R = (T \ {c}) \ {f}
      BY <3>4
    <3>6. Size[f] \in Nat /\ Size[c] \in Nat /\ g[R] \in Nat
      BY <1>2, SizeFacts
    <3>7. g[T \ {c}] = Size[f] + g[R] /\ g[T \ {f}] = Size[c] + g[R]
      BY <3>2, <3>3, <3>4, <3>5
    <3> QED
      BY <2>2, <3>6, <3>7
  <2> QED
    BY <2>3, <2>4
<1> HIDE DEF N
<1>6. N \in SUBSET Nat
  BY DEF N
<1>7. N = Nat
  BY <1>4, <1>5, <1>6, Induction
<1>8. \A f \in S : g[S] = Size[f] + g[S \ {f}]
  BY <1>0, <1>7 DEF N
<1> QED
  BY <1>2, <1>3, <1>8

(* One more file adds its bytes.                                           *)
LEMMA BytesAdd ==
  ASSUME NEW S \in SUBSET Saves, IsFiniteSet(S), NEW f \in Saves, f \notin S
  PROVE  /\ IsFiniteSet(S \cup {f}) /\ BytesOf(S \cup {f}) = BytesOf(S) + Size[f]
         /\ BytesOf(S) \in Nat /\ BytesOf(S \cup {f}) \in Nat
<1>1. S \cup {f} \in SUBSET Saves /\ IsFiniteSet(S \cup {f}) /\ (S \cup {f}) \ {f} = S
  BY FS_AddElement
<1>2. PICK T \in SUBSET Saves : T = S \cup {f}
  BY <1>1
<1>3. BytesOf(T) \in Nat /\ BytesOf(T) = Size[f] + BytesOf(S)
  <2>1. T \ {f} = S /\ f \in T /\ IsFiniteSet(T)
    BY <1>1, <1>2
  <2>2. BytesOf(T) \in Nat /\ BytesOf(T) = Size[f] + BytesOf(T \ {f})
    BY <2>1, BytesFacts
  <2> QED
    BY <2>1, <2>2
<1>4. BytesOf(S) \in Nat /\ Size[f] \in Nat
  BY BytesFacts, SizeFacts
<1> QED
  BY <1>1, <1>2, <1>3, <1>4

(* A set of files has the bytes of a part and of the rest.                 *)
LEMMA BytesWithout ==
  ASSUME NEW S \in SUBSET Saves, IsFiniteSet(S), NEW R \in SUBSET S
  PROVE  /\ BytesOf(S) \in Nat /\ BytesOf(R) \in Nat /\ BytesOf(S \ R) \in Nat
         /\ BytesOf(S) = BytesOf(R) + BytesOf(S \ R)
<1>0. \A T \in SUBSET S : IsFiniteSet(T) /\ Cardinality(T) \in Nat /\ BytesOf(T) \in Nat
  <2> TAKE T \in SUBSET S
  <2>1. T \in SUBSET Saves /\ IsFiniteSet(T)
    BY FS_Subset
  <2> QED
    BY <2>1, FS_CardinalityType, BytesFacts
<1> DEFINE N == {m \in Nat : \A T \in SUBSET S : Cardinality(T) <= m =>
                               BytesOf(S) = BytesOf(T) + BytesOf(S \ T)}
<1>1. 0 \in N
  <2>1. \A T \in SUBSET S : Cardinality(T) <= 0 => T = {}
    BY <1>0, FS_EmptySet
  <2>2. BytesOf({}) = 0 /\ S \ {} = S /\ BytesOf(S) \in Nat
    BY <1>0, BytesFacts
  <2> QED
    BY <2>1, <2>2
<1>2. \A m \in N : m + 1 \in N
  <2> TAKE m \in N
  <2> SUFFICES ASSUME NEW T \in SUBSET S, Cardinality(T) <= m + 1
               PROVE  BytesOf(S) = BytesOf(T) + BytesOf(S \ T)
    OBVIOUS
  <2>1. CASE T = {}
    <3>1. Cardinality(T) = 0
      BY <2>1, FS_EmptySet
    <3> QED
      BY <3>1
  <2>2. CASE T # {}
    <3>1. PICK f \in T : TRUE
      BY <2>2
    <3>2. Cardinality(T \ {f}) <= m /\ T \ {f} \in SUBSET S
      BY <1>0, FS_RemoveElement
    <3>3. PICK Q \in SUBSET S : Q = T \ {f} /\ Cardinality(Q) <= m
      BY <3>2
    <3>4. PICK W \in SUBSET S : W = S \ Q
      OBVIOUS
    <3>5. BytesOf(S) = BytesOf(Q) + BytesOf(W)
      BY <3>3, <3>4
    <3>6. BytesOf(T) = Size[f] + BytesOf(Q)
      <4>1. T \in SUBSET Saves /\ IsFiniteSet(T)
        BY <1>0
      <4> QED
        BY <4>1, <3>3, BytesFacts
    <3>7. BytesOf(W) = Size[f] + BytesOf(S \ T)
      <4>1. W \in SUBSET Saves /\ IsFiniteSet(W) /\ f \in W /\ W \ {f} = S \ T
        BY <1>0, <3>3, <3>4
      <4>2. BytesOf(W) = Size[f] + BytesOf(W \ {f})
        BY <4>1, BytesFacts
      <4> QED
        BY <4>1, <4>2
    <3>8. /\ BytesOf(Q) \in Nat /\ BytesOf(S \ T) \in Nat /\ Size[f] \in Nat
      BY <1>0, SizeFacts
    <3> QED
      BY <3>5, <3>6, <3>7, <3>8
  <2> QED
    BY <2>1, <2>2
<1> HIDE DEF N
<1>3. N \in SUBSET Nat
  BY DEF N
<1>4. N = Nat
  BY <1>1, <1>2, <1>3, Induction
<1>5. BytesOf(S) = BytesOf(R) + BytesOf(S \ R)
  BY <1>0, <1>4 DEF N
<1> QED
  BY <1>0, <1>5

-----------------------------------------------------------------------------
(* The files of a sequence, and a sequence that names none twice.          *)
Among(fs, n) == {fs[j] : j \in 1..n}
Distinct(fs) == \A i, j \in DOMAIN fs : fs[i] = fs[j] => i = j
FilesOK(fs) == fs \in Seq(Saves) /\ Distinct(fs)
Files(fs) == {fs[i] : i \in DOMAIN fs}

(* The files of a sequence are its entries.                                *)
LEMMA SeqFacts ==
  ASSUME NEW fs \in Seq(Saves)
  PROVE  /\ Len(fs) \in Nat /\ DOMAIN fs = 1..Len(fs) /\ Files(fs) = Among(fs, Len(fs))
         /\ \A i \in 1..Len(fs) : fs[i] \in Saves
         /\ Files(fs) \in SUBSET Saves
BY DEF Files, Among

(* A sequence names finitely many files.                                   *)
LEMMA FilesFinite ==
  ASSUME NEW fs \in Seq(Saves)
  PROVE  IsFiniteSet(Files(fs))
<1> DEFINE N == {m \in Nat : m <= Len(fs) => IsFiniteSet(Among(fs, m))}
<1>0. Len(fs) \in Nat /\ Files(fs) = Among(fs, Len(fs))
  BY SeqFacts
<1>1. 0 \in N
  BY FS_EmptySet DEF Among
<1>2. \A m \in N : m + 1 \in N
  <2> TAKE m \in N
  <2> SUFFICES ASSUME m + 1 <= Len(fs) PROVE IsFiniteSet(Among(fs, m + 1))
    OBVIOUS
  <2>1. IsFiniteSet(Among(fs, m))
    BY <1>0
  <2>2. Among(fs, m + 1) = Among(fs, m) \cup {fs[m + 1]}
    BY DEF Among
  <2> QED
    BY <2>1, <2>2, FS_AddElement
<1> HIDE DEF N
<1>3. N \in SUBSET Nat
  BY DEF N
<1>4. N = Nat
  BY <1>1, <1>2, <1>3, Induction
<1> QED
  BY <1>0, <1>4 DEF N

(* A new file at the end leaves no file named twice.                       *)
LEMMA AppendFacts ==
  ASSUME NEW fs, FilesOK(fs), NEW f \in Saves, f \notin Files(fs)
  PROVE  FilesOK(Append(fs, f)) /\ Files(Append(fs, f)) = Files(fs) \cup {f}
<1> DEFINE s == Append(fs, f)
<1>0. fs \in Seq(Saves) /\ DOMAIN fs = 1..Len(fs) /\ Len(fs) \in Nat
  BY SeqFacts DEF FilesOK
<1>1. /\ s \in Seq(Saves) /\ Len(s) = Len(fs) + 1
      /\ \A i \in 1..Len(fs) : s[i] = fs[i]
      /\ s[Len(fs) + 1] = f
  BY <1>0, AppendProperties
<1> HIDE DEF s
<1>2. DOMAIN s = 1..(Len(fs) + 1)
  BY <1>1
<1>3. Distinct(s)
  <2> SUFFICES ASSUME NEW i \in 1..(Len(fs) + 1), NEW j \in 1..(Len(fs) + 1), s[i] = s[j]
               PROVE  i = j
    BY <1>2 DEF Distinct
  <2>1. CASE i \in 1..Len(fs) /\ j \in 1..Len(fs)
    BY <1>0, <1>1, <2>1 DEF FilesOK, Distinct
  <2>2. CASE i = Len(fs) + 1 /\ j \in 1..Len(fs)
    BY <1>0, <1>1, <2>2 DEF Files
  <2>3. CASE j = Len(fs) + 1 /\ i \in 1..Len(fs)
    BY <1>0, <1>1, <2>3 DEF Files
  <2> QED
    BY <1>0, <2>1, <2>2, <2>3
<1>4. Files(s) = Files(fs) \cup {f}
  BY <1>0, <1>1, <1>2 DEF Files
<1> QED
  BY <1>1, <1>3, <1>4 DEF FilesOK, s

-----------------------------------------------------------------------------
(* Without takes out exactly the files it is given (what DeleteFile, Clear *)
(* and a failed save do to the directory).                                 *)
LEMMA WithoutFacts ==
  ASSUME FilesOK(files), NEW S
  PROVE  FilesOK(Without(S)) /\ Files(Without(S)) = Files(files) \ S
<1> DEFINE n == Len(files)
           keep[i \in 0..n] ==
             IF i = 0 THEN <<>>
             ELSE IF files[i] \in S THEN keep[i - 1] ELSE Append(keep[i - 1], files[i])
<1>0. /\ files \in Seq(Saves) /\ n \in Nat /\ DOMAIN files = 1..n
      /\ \A i \in 1..n : files[i] \in Saves
      /\ Files(files) = Among(files, n)
  BY SeqFacts DEF FilesOK
<1>1. Without(S) = keep[n]
  BY Zenon DEF Without
<1>2. keep = CHOOSE g : g = [i \in 0..n |->
               IF i = 0 THEN <<>>
               ELSE IF files[i] \in S THEN g[i - 1] ELSE Append(g[i - 1], files[i])]
  BY DEF keep
<1> HIDE DEF n, keep
<1>3. \E g : g = [i \in 0..n |->
               IF i = 0 THEN <<>>
               ELSE IF files[i] \in S THEN g[i - 1] ELSE Append(g[i - 1], files[i])]
  <2> DEFINE A == Seq(Saves)
  <2>1. PICK h \in [(1..n) \X A -> A] :
          \A i \in 1..n : \A q \in A :
            h[<<i, q>>] = IF files[i] \in S THEN q ELSE Append(q, files[i])
    <3> DEFINE h == [p \in (1..n) \X A |-> IF files[p[1]] \in S THEN p[2]
                                           ELSE Append(p[2], files[p[1]])]
    <3>1. h \in [(1..n) \X A -> A]
      BY <1>0, AppendProperties
    <3>2. \A i \in 1..n : \A q \in A :
            h[<<i, q>>] = IF files[i] \in S THEN q ELSE Append(q, files[i])
      OBVIOUS
    <3> HIDE DEF h
    <3> QED
      BY <3>1, <3>2
  <2>2. <<>> \in A
    BY EmptySeq
  <2> HIDE DEF A
  <2>3. PICK g \in [0..n -> A] : g[0] = <<>> /\ \A i \in 1..n : g[i] = h[<<i, g[i - 1]>>]
    <3>0. n \in Nat /\ Steps(h, n, A)
      BY <1>0 DEF Steps
    <3>1. PICK a \in A : a = <<>>
      BY <2>2
    <3>2. \E g : Solves(g, h, n, A, a)
      BY <3>0, Recursion
    <3> QED
      BY <3>1, <3>2 DEF Solves
  <2>4. \A i \in 1..n : g[i] = IF files[i] \in S THEN g[i - 1] ELSE Append(g[i - 1], files[i])
    <3> TAKE i \in 1..n
    <3>1. g[i - 1] \in A
      BY <1>0
    <3> QED
      BY <2>1, <2>3, <3>1
  <2>5. g = [i \in 0..n |->
               IF i = 0 THEN <<>>
               ELSE IF files[i] \in S THEN g[i - 1] ELSE Append(g[i - 1], files[i])]
    <3> DEFINE F(i) == IF i = 0 THEN <<>>
                       ELSE IF files[i] \in S THEN g[i - 1] ELSE Append(g[i - 1], files[i])
    <3>1. \A i \in 0..n : i = 0 \/ i \in 1..n
      BY <1>0
    <3>2. \A i \in 0..n : g[i] = F(i)
      BY <2>3, <2>4, <3>1
    <3> HIDE DEF F
    <3>3. g = [i \in 0..n |-> F(i)]
      BY <3>2
    <3> QED
      BY <3>3 DEF F
  <2> QED
    BY <2>5
<1>4. keep = [i \in 0..n |->
               IF i = 0 THEN <<>>
               ELSE IF files[i] \in S THEN keep[i - 1] ELSE Append(keep[i - 1], files[i])]
  BY Zenon, <1>2, <1>3
<1>5. /\ keep[0] = <<>>
      /\ \A i \in 0..n : i + 1 <= n =>
           keep[i + 1] = IF files[i + 1] \in S THEN keep[i] ELSE Append(keep[i], files[i + 1])
  <2>1. keep[0] = <<>>
    BY <1>0, <1>4
  <2>2. ASSUME NEW i \in 0..n, i + 1 <= n
        PROVE  keep[i + 1] = IF files[i + 1] \in S THEN keep[i] ELSE Append(keep[i], files[i + 1])
    <3>1. i + 1 \in 0..n /\ i + 1 # 0 /\ (i + 1) - 1 = i
      BY <1>0, <2>2
    <3> QED
      BY <1>4, <3>1
  <2> QED
    BY <2>1, <2>2
<1> DEFINE Right(i) == FilesOK(keep[i]) /\ Files(keep[i]) = Among(files, i) \ S
           N == {m \in Nat : m <= n => Right(m)}
<1>6. 0 \in N
  <2>1. FilesOK(<<>>) /\ Files(<<>>) = {} /\ Among(files, 0) = {}
    BY EmptySeq DEF FilesOK, Distinct, Files, Among
  <2> QED
    BY <1>5, <2>1
<1>7. \A m \in N : m + 1 \in N
  <2> TAKE m \in N
  <2> SUFFICES ASSUME m + 1 <= n PROVE Right(m + 1)
    OBVIOUS
  <2>1. m \in 0..n /\ m + 1 \in 1..n /\ Right(m)
    BY <1>0
  <2>2. PICK f \in Saves : f = files[m + 1]
    BY <1>0, <2>1
  <2>3. Among(files, m + 1) = Among(files, m) \cup {f}
    BY <2>1, <2>2 DEF Among
  <2>4. CASE f \in S
    BY <1>5, <2>1, <2>2, <2>3, <2>4
  <2>5. CASE f \notin S
    <3>1. f \notin Among(files, m)
      BY <1>0, <2>1, <2>2 DEF Among, FilesOK, Distinct
    <3>2. PICK k : k = keep[m]
      OBVIOUS
    <3>3. FilesOK(k) /\ f \notin Files(k) /\ Files(k) = Among(files, m) \ S
      BY <2>1, <3>1, <3>2
    <3>4. FilesOK(Append(k, f)) /\ Files(Append(k, f)) = Files(k) \cup {f}
      BY <3>3, AppendFacts
    <3>5. keep[m + 1] = Append(k, f)
      BY <1>5, <2>1, <2>2, <2>5, <3>2
    <3> QED
      BY <2>3, <2>5, <3>3, <3>4, <3>5
  <2> QED
    BY <2>4, <2>5
<1> HIDE DEF N
<1>8. N \in SUBSET Nat
  BY DEF N
<1>9. N = Nat
  BY <1>6, <1>7, <1>8, Induction
<1> QED
  BY <1>0, <1>1, <1>9 DEF N

-----------------------------------------------------------------------------
(* What eviction leaves.                                                   *)
Evicted(left, count, fs, bytes, protected) ==
  /\ FilesOK(left) /\ Files(left) \subseteq Files(fs)
  /\ (Files(fs) \ Files(left)) \cap (Sticky \cup protected) = {}
  /\ count = Min0(bytes - BytesOf(Files(fs) \ Files(left)))
  /\ limit = 0 \/ count <= limit \/ Files(left) \subseteq Sticky \cup protected

(* The recursion eviction solves. *)
Scans(g, fs, bytes, stay, target) ==
  g = [i \in 0..Len(fs) |->
         IF i = 0 THEN [bytes |-> bytes, keep |-> <<>>]
         ELSE IF g[i - 1].bytes <= target \/ fs[i] \in stay
         THEN [g[i - 1] EXCEPT !.keep = Append(@, fs[i])]
         ELSE [g[i - 1] EXCEPT !.bytes = @ - Size[fs[i]]]]

(* It has a solution, for the count stays an integer and the files a       *)
(* sequence.                                                               *)
LEMMA ScanExists ==
  ASSUME NEW fs \in Seq(Saves), NEW bytes \in Nat, NEW stay, NEW target \in Nat
  PROVE  \E g : Scans(g, fs, bytes, stay, target)
<1> DEFINE n == Len(fs)
           A == [bytes : Int, keep : Seq(Saves)]
           Next1(i, q) == IF q.bytes <= target \/ fs[i] \in stay
                          THEN [q EXCEPT !.keep = Append(@, fs[i])]
                          ELSE [q EXCEPT !.bytes = @ - Size[fs[i]]]
           h == [p \in (1..n) \X A |-> Next1(p[1], p[2])]
<1>1. n \in Nat /\ \A i \in 1..n : fs[i] \in Saves
  BY SeqFacts
<1>2. ASSUME NEW i \in 1..n, NEW q \in A PROVE Next1(i, q) \in A
  <2>1. q.bytes \in Int /\ q.keep \in Seq(Saves) /\ fs[i] \in Saves /\ Size[fs[i]] \in Int
    BY <1>1, SizeFacts
  <2>2. Append(q.keep, fs[i]) \in Seq(Saves) /\ q.bytes - Size[fs[i]] \in Int
    BY <2>1, AppendProperties
  <2>3. [q EXCEPT !.keep = Append(q.keep, fs[i])] \in A
    BY <2>2
  <2>4. [q EXCEPT !.bytes = q.bytes - Size[fs[i]]] \in A
    BY <2>2
  <2> QED
    BY <2>3, <2>4
<1> HIDE DEF Next1
<1>3. \A i \in 1..n : \A q \in A : h[<<i, q>>] = Next1(i, q)
  OBVIOUS
<1>4. PICK a \in A : a = [bytes |-> bytes, keep |-> <<>>]
  <2>1. <<>> \in Seq(Saves) /\ bytes \in Int
    BY EmptySeq
  <2>2. [bytes |-> bytes, keep |-> <<>>] \in A
    BY <2>1
  <2> QED
    BY <2>2
<1> HIDE DEF h, A, n
<1>5. Steps(h, n, A)
  BY <1>2, <1>3 DEF Steps
<1>6. PICK g : Solves(g, h, n, A, a)
  BY <1>1, <1>5, Recursion
<1>7. /\ g \in [0..n -> A] /\ g[0] = a
      /\ \A i \in 1..n : g[i] = h[<<i, g[i - 1]>>]
  BY <1>6 DEF Solves
<1> DEFINE F(i) == IF i = 0 THEN [bytes |-> bytes, keep |-> <<>>] ELSE Next1(i, g[i - 1])
<1>8. \A i \in 0..n : g[i] = F(i)
  <2> TAKE i \in 0..n
  <2>1. CASE i = 0
    BY <2>1, <1>4, <1>7
  <2>2. CASE i # 0
    <3>1. i \in 1..n /\ i - 1 \in 0..n
      BY <1>1, <2>2
    <3>2. g[i - 1] \in A
      BY <1>7, <3>1
    <3> QED
      BY <2>2, <3>1, <3>2, <1>3, <1>7
  <2> QED
    BY <2>1, <2>2
<1> HIDE DEF F
<1>9. g = [i \in 0..n |-> F(i)]
  BY <1>7, <1>8
<1> QED
  BY <1>9 DEF F, Next1, n, Scans

(* What evictLocked promises: the files that stay or are protected are     *)
(* kept, the count falls by the bytes of the others, and it is within the  *)
(* limit or nothing else is left. By induction on the files scanned.       *)
LEMMA EvictFacts ==
  ASSUME limit \in Nat, NEW fs, FilesOK(fs), NEW bytes \in Nat, NEW protected
  PROVE  Evicted(Evict(fs, bytes, protected).keep, Evict(fs, bytes, protected).bytes,
                 fs, bytes, protected)
<1> DEFINE n == Len(fs)
           stay == Sticky \cup protected
           target == (limit * 6) \div 10
           scan[i \in 0..n] ==
             IF i = 0 THEN [bytes |-> bytes, keep |-> <<>>]
             ELSE IF scan[i - 1].bytes <= target \/ fs[i] \in stay
             THEN [scan[i - 1] EXCEPT !.keep = Append(@, fs[i])]
             ELSE [scan[i - 1] EXCEPT !.bytes = @ - Size[fs[i]]]
           e == Evict(fs, bytes, protected)
<1>0. /\ fs \in Seq(Saves) /\ n \in Nat /\ DOMAIN fs = 1..n
      /\ \A i \in 1..n : fs[i] \in Saves
      /\ Files(fs) = Among(fs, n)
  BY SeqFacts DEF FilesOK
<1>1. target \in Nat /\ target <= limit
  OBVIOUS
<1>2. e = IF limit = 0 \/ bytes <= limit THEN [bytes |-> bytes, keep |-> fs]
          ELSE [scan[n] EXCEPT !.bytes = Min0(@)]
  BY Zenon DEF Evict
<1>3. scan = CHOOSE g : g = [i \in 0..n |->
               IF i = 0 THEN [bytes |-> bytes, keep |-> <<>>]
               ELSE IF g[i - 1].bytes <= target \/ fs[i] \in stay
               THEN [g[i - 1] EXCEPT !.keep = Append(@, fs[i])]
               ELSE [g[i - 1] EXCEPT !.bytes = @ - Size[fs[i]]]]
  BY DEF scan
<1> HIDE DEF scan, e, target
<1>4. CASE limit = 0 \/ bytes <= limit
  <2>1. e.bytes = bytes /\ e.keep = fs
    BY <1>2, <1>4
  <2>2. Files(fs) \ Files(e.keep) = {} /\ BytesOf({}) = 0
    <3>1. IsFiniteSet({}) /\ {} \in SUBSET Saves
      BY FS_EmptySet
    <3> QED
      BY <2>1, <3>1, BytesFacts
  <2> QED
    BY <1>4, <2>1, <2>2 DEF Evicted, e, Min0
<1>5. CASE ~(limit = 0 \/ bytes <= limit)
  <2>1. scan = [i \in 0..n |->
               IF i = 0 THEN [bytes |-> bytes, keep |-> <<>>]
               ELSE IF scan[i - 1].bytes <= target \/ fs[i] \in stay
               THEN [scan[i - 1] EXCEPT !.keep = Append(@, fs[i])]
               ELSE [scan[i - 1] EXCEPT !.bytes = @ - Size[fs[i]]]]
    <3> HIDE DEF n, stay
    <3>1. \E g : g = [i \in 0..n |->
               IF i = 0 THEN [bytes |-> bytes, keep |-> <<>>]
               ELSE IF g[i - 1].bytes <= target \/ fs[i] \in stay
               THEN [g[i - 1] EXCEPT !.keep = Append(@, fs[i])]
               ELSE [g[i - 1] EXCEPT !.bytes = @ - Size[fs[i]]]]
      <4>1. fs \in Seq(Saves) /\ bytes \in Nat /\ target \in Nat
        BY <1>0, <1>1
      <4>2. PICK g : Scans(g, fs, bytes, stay, target)
        BY <4>1, ScanExists
      <4> QED
        BY Zenon, <4>2 DEF n, Scans
    <3> QED
      BY Zenon, <1>3, <3>1
  <2> HIDE DEF n, stay
  <2>2. /\ scan[0].bytes = bytes /\ scan[0].keep = <<>> /\ scan[0] \in [bytes : Int, keep : Seq(Saves)]
        /\ \A i \in 0..n : i + 1 <= n =>
             scan[i + 1] = IF scan[i].bytes <= target \/ fs[i + 1] \in stay
                           THEN [scan[i] EXCEPT !.keep = Append(@, fs[i + 1])]
                           ELSE [scan[i] EXCEPT !.bytes = @ - Size[fs[i + 1]]]
    <3>1. scan[0] = [bytes |-> bytes, keep |-> <<>>]
      BY <1>0, <2>1
    <3>2. ASSUME NEW i \in 0..n, i + 1 <= n
          PROVE  scan[i + 1] = IF scan[i].bytes <= target \/ fs[i + 1] \in stay
                               THEN [scan[i] EXCEPT !.keep = Append(@, fs[i + 1])]
                               ELSE [scan[i] EXCEPT !.bytes = @ - Size[fs[i + 1]]]
      <4>1. i + 1 \in 0..n /\ i + 1 # 0 /\ (i + 1) - 1 = i
        BY <1>0, <3>2
      <4> QED
        BY <2>1, <4>1
    <3>3. <<>> \in Seq(Saves) /\ bytes \in Int
      BY EmptySeq
    <3>4. [bytes |-> bytes, keep |-> <<>>] \in [bytes : Int, keep : Seq(Saves)]
      BY <3>3
    <3>5. /\ scan[0].bytes = bytes /\ scan[0].keep = <<>>
          /\ scan[0] \in [bytes : Int, keep : Seq(Saves)]
      BY <3>1, <3>4
    <3> QED
      BY Zenon, <3>2, <3>5
  <2> DEFINE K(i) == Files(scan[i].keep)
             Gone(i) == Among(fs, i) \ K(i)
             Right(i) == /\ scan[i] \in [bytes : Int, keep : Seq(Saves)]
                         /\ FilesOK(scan[i].keep) /\ K(i) \subseteq Among(fs, i)
                         /\ Gone(i) \cap stay = {}
                         /\ scan[i].bytes = bytes - BytesOf(Gone(i))
                         /\ scan[i].bytes <= target \/ K(i) \subseteq stay
             N == {m \in Nat : m <= n => Right(m)}
  <2>3. 0 \in N
    <3>1. FilesOK(<<>>) /\ Files(<<>>) = {} /\ Among(fs, 0) = {}
      BY EmptySeq DEF FilesOK, Distinct, Files, Among
    <3>2. IsFiniteSet({}) /\ {} \in SUBSET Saves /\ BytesOf({}) = 0
      BY FS_EmptySet, BytesFacts
    <3>3. K(0) = {} /\ Gone(0) = {}
      BY <2>2, <3>1
    <3>4. PICK k : k = scan[0].keep
      OBVIOUS
    <3>5. FilesOK(k) /\ Files(k) = {} /\ Among(fs, 0) \ Files(k) = {}
      BY <2>2, <3>1, <3>4
    <3>6. bytes = bytes - BytesOf({})
      BY <3>2
    <3>7. Right(0)
      BY <2>2, <3>1, <3>4, <3>5, <3>6
    <3> HIDE DEF Right
    <3> QED
      BY <3>7
  <2>4. \A m \in N : m + 1 \in N
    <3> TAKE m \in N
    <3> HIDE DEF Right
    <3> SUFFICES ASSUME m + 1 <= n PROVE Right(m + 1)
      OBVIOUS
    <3>1. m \in 0..n /\ m + 1 \in 1..n /\ Right(m) /\ m \in Nat
      BY <1>0
    <3> HIDE DEF N
    <3>2. PICK f \in Saves : f = fs[m + 1]
      BY <1>0, <3>1
    <3>3. Among(fs, m + 1) = Among(fs, m) \cup {f} /\ f \notin Among(fs, m)
          /\ Among(fs, m) \in SUBSET Saves
      BY <1>0, <3>1, <3>2 DEF Among, FilesOK, Distinct
    <3>4. PICK b \in Int, k \in Seq(Saves) : b = scan[m].bytes /\ k = scan[m].keep
      BY <3>1 DEF Right
    <3>5. /\ scan[m] \in [bytes : Int, keep : Seq(Saves)]
          /\ FilesOK(k) /\ Files(k) \subseteq Among(fs, m) /\ (Among(fs, m) \ Files(k)) \cap stay = {}
          /\ b = bytes - BytesOf(Among(fs, m) \ Files(k))
          /\ b <= target \/ Files(k) \subseteq stay
      BY <3>1, <3>4 DEF Right
    <3>6. CASE b <= target \/ f \in stay
      <4>1. Append(k, f) \in Seq(Saves)
        BY AppendProperties
      <4>2. /\ scan[m + 1] \in [bytes : Int, keep : Seq(Saves)]
            /\ scan[m + 1].bytes = b /\ scan[m + 1].keep = Append(k, f)
        BY <2>2, <3>1, <3>2, <3>4, <3>5, <3>6, <4>1
      <4>3. FilesOK(Append(k, f)) /\ Files(Append(k, f)) = Files(k) \cup {f}
        BY <3>3, <3>5, AppendFacts
      <4>4. Gone(m + 1) = Among(fs, m) \ Files(k)
        BY <3>3, <4>2, <4>3
      <4> QED
        BY <3>3, <3>5, <3>6, <4>2, <4>3, <4>4 DEF Right
    <3>7. CASE ~(b <= target \/ f \in stay)
      <4>1. Size[f] \in Nat /\ b - Size[f] \in Int
        BY SizeFacts
      <4>2. /\ scan[m + 1] \in [bytes : Int, keep : Seq(Saves)]
            /\ scan[m + 1].bytes = b - Size[f] /\ scan[m + 1].keep = k
        <5>1. scan[m + 1] = [scan[m] EXCEPT !.bytes = scan[m].bytes - Size[fs[m + 1]]]
          BY <2>2, <3>1, <3>2, <3>4, <3>7
        <5>2. scan[m + 1] = [scan[m] EXCEPT !.bytes = b - Size[f]]
          BY <3>2, <3>4, <5>1
        <5> QED
          BY <3>4, <3>5, <4>1, <5>2
      <4>3. PICK G \in SUBSET Saves : G = Among(fs, m) \ Files(k)
        BY <3>3
      <4>4. Gone(m + 1) = G \cup {f} /\ f \notin G
        BY <3>3, <3>5, <4>2, <4>3
      <4>5. IsFiniteSet(G)
        <5>1. G \subseteq Files(fs)
          BY <1>0, <3>1, <4>3 DEF Among
        <5> QED
          BY <1>0, <5>1, FilesFinite, FS_Subset
      <4>6. BytesOf(G \cup {f}) = BytesOf(G) + Size[f] /\ BytesOf(G) \in Nat
        BY <4>4, <4>5, BytesAdd
      <4>7. PICK x \in Int : x = scan[m + 1].bytes
        BY <4>1, <4>2
      <4>8. x = bytes - BytesOf(G \cup {f})
        BY <3>5, <4>1, <4>2, <4>3, <4>6, <4>7
      <4>9. x <= target \/ Files(k) \subseteq stay
        BY <3>5, <3>7
      <4>10. /\ K(m + 1) = Files(k) /\ FilesOK(scan[m + 1].keep)
             /\ Files(k) \subseteq Among(fs, m + 1) /\ (G \cup {f}) \cap stay = {}
        BY <3>3, <3>5, <3>7, <4>2, <4>3
      <4> QED
        BY <4>2, <4>4, <4>7, <4>8, <4>9, <4>10 DEF Right
    <3> QED
      BY <3>6, <3>7
  <2> HIDE DEF N, Right
  <2>5. N \in SUBSET Nat
    BY DEF N
  <2>6. N = Nat
    BY <2>3, <2>4, <2>5, Induction
  <2>7. Right(n)
    BY <1>0, <2>6 DEF N
  <2>8. /\ e.keep = scan[n].keep /\ e.bytes = Min0(scan[n].bytes)
    BY <1>2, <1>5, <2>7 DEF Right
  <2>9. Min0(scan[n].bytes) <= target \/ K(n) \subseteq stay
    BY <1>1, <2>7 DEF Right, Min0
  <2>10. e.bytes <= limit \/ K(n) \subseteq stay
    <3>1. scan[n].bytes \in Int
      BY <2>7 DEF Right
    <3> QED
      BY <1>1, <2>8, <2>9, <3>1 DEF Min0
  <2> QED
    BY <1>0, <2>7, <2>8, <2>10 DEF Evicted, Right, e, stay
<1> QED
  BY <1>4, <1>5 DEF e

-----------------------------------------------------------------------------
(* What is known of each save besides the shape of the state.              *)
CacheProtocol ==
  \A s \in Saves :
    /\ save[s] = "idle" => s \notin Files(files) /\ download[s] = "none"
    /\ save[s] = "publish" => got[s] = Size[s]
    /\ download[s] = "ok" => got[s] = Size[s]
    /\ result[s] = "url" => save[s] \in {"join", "done"}

(* The inductive invariant of the cache.                                   *)
CacheIInv == CacheTypeOK /\ CountMatchesDisk /\ PublishedIsWhole /\ CacheProtocol

(* The stages with a temporary file. *)
Held == {"copy", "publish", "write_failed"}

(* What the invariant says of the directory.                               *)
LEMMA CacheParts ==
  ASSUME CacheIInv
  PROVE  /\ FilesOK(files) /\ OnDisk = Files(files) \ tmp /\ tmp \subseteq Files(files)
         /\ Files(files) \in SUBSET Saves /\ IsFiniteSet(Files(files))
         /\ OnDisk \in SUBSET Saves /\ IsFiniteSet(OnDisk) /\ BytesOf(OnDisk) \in Nat
         /\ \A s \in Saves : s \in tmp <=> save[s] \in Held
         /\ total \in Nat /\ limit \in Nat
<1>1. FilesOK(files) /\ OnDisk = Files(files) \ tmp /\ tmp \subseteq Files(files)
  BY DEF CacheIInv, CacheTypeOK, FilesOK, Distinct, Files, OnDisk
<1>2. Files(files) \in SUBSET Saves /\ IsFiniteSet(Files(files))
  BY <1>1, SeqFacts, FilesFinite DEF FilesOK
<1>3. OnDisk \in SUBSET Saves /\ IsFiniteSet(OnDisk)
  BY <1>1, <1>2, FS_Subset
<1>4. BytesOf(OnDisk) \in Nat
  BY <1>3, BytesFacts
<1>5. \A s \in Saves : s \in tmp <=> save[s] \in Held
  BY DEF CacheIInv, CacheTypeOK, Held
<1>6. total \in Nat /\ limit \in Nat
  BY CacheAssumption DEF CacheIInv, CacheTypeOK
<1> QED
  BY <1>1, <1>2, <1>3, <1>4, <1>5, <1>6

(* Writing to a file or touching it names it once, at the end.             *)
LEMMA LatestFacts ==
  ASSUME FilesOK(files), NEW f \in Saves
  PROVE  FilesOK(Latest(f)) /\ Files(Latest(f)) = Files(files) \cup {f}
<1>1. PICK k : k = Without({f})
  OBVIOUS
<1>2. FilesOK(k) /\ Files(k) = Files(files) \ {f}
  BY <1>1, WithoutFacts
<1>3. FilesOK(Append(k, f)) /\ Files(Append(k, f)) = Files(k) \cup {f}
  BY <1>2, AppendFacts
<1>4. f \in Saves /\ Latest(f) = Append(k, f)
  BY <1>1 DEF Latest
<1> QED
  BY <1>2, <1>3, <1>4

(* A step that leaves the files that can be served alone.                  *)
LEMMA DiskStays ==
  ASSUME CacheIInv, OnDisk' = OnDisk, total' = total, miscounted' = miscounted
  PROVE  CountMatchesDisk'
BY DEF CacheIInv, CountMatchesDisk

(* The shape of a save's locals, and what is known of one save.            *)
SaveTypes ==
  /\ save \in [Saves -> {"idle", "copy", "publish", "join", "done", "write_failed"}]
  /\ got \in [Saves -> Nat] /\ \A s \in Saves : got[s] <= Size[s]
  /\ seenLimit \in [Saves -> Limits]
  /\ download \in [Saves -> {"none", "running", "ok", "failed"}]
  /\ closed \in [Saves -> BOOLEAN]
  /\ result \in [Saves -> {"none", "url", "error"}]

SaveOK(s) ==
  /\ save[s] = "idle" => s \notin Files(files) /\ download[s] = "none"
  /\ save[s] = "publish" => got[s] = Size[s]
  /\ download[s] = "ok" => got[s] = Size[s]
  /\ result[s] = "url" => save[s] \in {"join", "done"} /\ got[s] = Size[s]
  /\ s \in tmp <=> save[s] \in Held
  /\ s \in OnDisk => got[s] = Size[s]

(* The invariant, save by save.                                            *)
LEMMA CacheSplits ==
  ASSUME CacheIInv
  PROVE  /\ SaveTypes /\ limit \in Limits /\ miscounted \in BOOLEAN
         /\ CountMatchesDisk /\ \A s \in Saves : SaveOK(s)
<1>1. SaveTypes /\ limit \in Limits /\ miscounted \in BOOLEAN
  BY DEF CacheIInv, CacheTypeOK, SaveTypes
<1>2. \A s \in Saves : SaveOK(s)
  BY CacheParts DEF CacheIInv, CacheProtocol, PublishedIsWhole, SaveOK
<1> QED
  BY <1>1, <1>2 DEF CacheIInv

(* And back: the next state's invariant from its parts.                    *)
LEMMA CacheJoins ==
  ASSUME FilesOK(files'), tmp' \subseteq Files(files'), SaveTypes', total' \in Nat,
         limit' \in Limits, miscounted' \in BOOLEAN, CountMatchesDisk',
         \A s \in Saves : SaveOK(s)'
  PROVE  CacheIInv'
<1>1. files' \in Seq(Saves) /\ Files(files') \in SUBSET Saves
  BY SeqFacts DEF FilesOK
<1>2. tmp' = {s \in Saves : save'[s] \in Held}
  BY <1>1 DEF SaveOK
<1>3. CacheTypeOK'
  BY <1>1, <1>2 DEF CacheTypeOK, SaveTypes, FilesOK, Distinct, Files, Held
<1>4. OnDisk' \subseteq Saves
  BY <1>1 DEF OnDisk, Files
<1>5. PublishedIsWhole'
  BY <1>4 DEF PublishedIsWhole, SaveOK
<1>6. CacheProtocol'
  BY DEF CacheProtocol, SaveOK
<1> QED
  BY <1>3, <1>5, <1>6 DEF CacheIInv

(* A step of save s leaves the others where they were.                     *)
OthersRest(s) ==
  \A u \in Saves \ {s} :
    /\ save'[u] = save[u] /\ got'[u] = got[u] /\ download'[u] = download[u]
    /\ result'[u] = result[u] /\ (u \in tmp' <=> u \in tmp)
    /\ u \in Files(files') => u \in Files(files)

(* A step of one save keeps the invariant if it does so for that save.     *)
LEMMA SaveMoves ==
  ASSUME CacheIInv, NEW s \in Saves, FilesOK(files'), tmp' \subseteq Files(files'),
         SaveTypes', total' \in Nat, limit' = limit, miscounted' = miscounted,
         CountMatchesDisk', OthersRest(s), SaveOK(s)'
  PROVE  CacheIInv'
<1>1. limit' \in Limits /\ miscounted' \in BOOLEAN /\ \A u \in Saves : SaveOK(u)
  BY CacheSplits
<1>2. OnDisk' = Files(files') \ tmp' /\ OnDisk = Files(files) \ tmp
  BY DEF OnDisk, Files
<1>3. ASSUME NEW u \in Saves PROVE SaveOK(u)'
  <2>1. CASE u = s
    BY <2>1
  <2>2. CASE u # s
    BY <1>1, <1>2, <2>2 DEF OthersRest, SaveOK
  <2> QED
    BY <2>1, <2>2
<1>4. \A u \in Saves : SaveOK(u)'
  BY <1>3
<1> QED
  BY <1>1, <1>4, CacheJoins

(* SaveFile writes its temporary file, which cannot be served.             *)
LEMMA WriteFileStep ==
  ASSUME CacheIInv, NEW s \in Saves, WriteFile(s)
  PROVE  CacheIInv'
<1>0. /\ save[s] = "idle" /\ s \notin Files(files) /\ s \notin tmp /\ s \notin OnDisk
      /\ download[s] = "none" /\ result[s] # "url"
      /\ UNCHANGED <<total, seenLimit, download, closed, limit, miscounted>>
      /\ SaveTypes /\ Size[s] \in Nat /\ total \in Nat
  BY CacheParts, CacheSplits, SizeFacts DEF WriteFile, SaveOK, Held
<1>1. CASE limit > 0 /\ Size[s] > limit
  <2>1. /\ save' = [save EXCEPT ![s] = "done"] /\ result' = [result EXCEPT ![s] = "error"]
        /\ UNCHANGED <<files, tmp, got>>
    BY <1>1 DEF WriteFile
  <2>2. OnDisk' = OnDisk /\ FilesOK(files') /\ tmp' \subseteq Files(files')
    BY <2>1, CacheParts DEF OnDisk
  <2>3. CountMatchesDisk'
    BY <1>0, <2>2, DiskStays
  <2>4. SaveTypes'
    BY <1>0, <2>1 DEF SaveTypes
  <2>5. OthersRest(s)
    BY <1>0, <2>1 DEF OthersRest, SaveTypes
  <2>6. SaveOK(s)'
    BY <1>0, <2>1, <2>2 DEF SaveOK, SaveTypes, Held
  <2> QED
    BY <1>0, <2>2, <2>3, <2>4, <2>5, <2>6, SaveMoves
<1>2. CASE ~(limit > 0 /\ Size[s] > limit)
  <2>1. /\ tmp' = tmp \cup {s} /\ files' = Latest(s)
        /\ \/ /\ save' = [save EXCEPT ![s] = "publish"]
              /\ got' = [got EXCEPT ![s] = Size[s]] /\ result' = result
           \/ /\ save' = [save EXCEPT ![s] = "write_failed"]
              /\ got' = got /\ result' = [result EXCEPT ![s] = "error"]
    BY <1>2 DEF WriteFile
  <2>2. /\ FilesOK(files') /\ Files(files') = Files(files) \cup {s}
        /\ tmp' \subseteq Files(files')
    BY <2>1, CacheParts, LatestFacts
  <2>3. OnDisk' = OnDisk
    BY <1>0, <2>1, <2>2, CacheParts DEF OnDisk, Files
  <2>4. CountMatchesDisk'
    BY <1>0, <2>3, DiskStays
  <2>6. SaveTypes' /\ OthersRest(s) /\ SaveOK(s)'
    <3>1. CASE /\ save' = [save EXCEPT ![s] = "publish"]
               /\ got' = [got EXCEPT ![s] = Size[s]] /\ result' = result
      <4>1. SaveTypes'
        BY <1>0, <3>1 DEF SaveTypes
      <4>2. OthersRest(s)
        BY <1>0, <2>1, <2>2, <3>1 DEF OthersRest, SaveTypes
      <4>3. SaveOK(s)'
        BY <1>0, <2>1, <2>3, <3>1 DEF SaveOK, SaveTypes, Held
      <4> QED
        BY <4>1, <4>2, <4>3
    <3>2. CASE /\ save' = [save EXCEPT ![s] = "write_failed"]
               /\ got' = got /\ result' = [result EXCEPT ![s] = "error"]
      <4>1. SaveTypes'
        BY <1>0, <3>2 DEF SaveTypes
      <4>2. OthersRest(s)
        BY <1>0, <2>1, <2>2, <3>2 DEF OthersRest, SaveTypes
      <4>3. SaveOK(s)'
        BY <1>0, <2>1, <2>3, <3>2 DEF SaveOK, SaveTypes, Held
      <4> QED
        BY <4>1, <4>2, <4>3
    <3> QED
      BY <2>1, <3>1, <3>2
  <2> QED
    BY <1>0, <2>2, <2>4, <2>6, SaveMoves
<1> QED
  BY <1>1, <1>2

(* SaveStream creates its temporary file.                                  *)
LEMMA BeginStreamStep ==
  ASSUME CacheIInv, NEW s \in Saves, BeginStream(s)
  PROVE  CacheIInv'
<1>0. /\ save[s] = "idle" /\ s \notin Files(files) /\ s \notin tmp /\ s \notin OnDisk
      /\ download[s] = "none" /\ result[s] # "url"
      /\ UNCHANGED <<total, got, closed, result, limit, miscounted>>
      /\ SaveTypes /\ total \in Nat /\ limit \in Limits
  BY CacheParts, CacheSplits DEF BeginStream, SaveOK, Held
<1>1. /\ save' = [save EXCEPT ![s] = "copy"] /\ tmp' = tmp \cup {s} /\ files' = Latest(s)
      /\ seenLimit' = [seenLimit EXCEPT ![s] = limit]
      /\ download' = [download EXCEPT ![s] = "running"]
  BY DEF BeginStream
<1>2. /\ FilesOK(files') /\ Files(files') = Files(files) \cup {s}
      /\ tmp' \subseteq Files(files')
  BY <1>1, CacheParts, LatestFacts
<1>3. OnDisk' = OnDisk
  BY <1>0, <1>1, <1>2, CacheParts DEF OnDisk, Files
<1>4. CountMatchesDisk'
  BY <1>0, <1>3, DiskStays
<1>5. SaveTypes'
  BY <1>0, <1>1 DEF SaveTypes
<1>6. OthersRest(s)
  BY <1>0, <1>1, <1>2 DEF OthersRest, SaveTypes
<1>7. SaveOK(s)'
  BY <1>0, <1>1, <1>3 DEF SaveOK, SaveTypes, Held
<1> QED
  BY <1>0, <1>2, <1>4, <1>5, <1>6, <1>7, SaveMoves

(* The temporary file grows, and is the last one written to.               *)
LEMMA ChunkStep ==
  ASSUME CacheIInv, NEW s \in Saves, Chunk(s)
  PROVE  CacheIInv'
<1>0. /\ save[s] = "copy" /\ download[s] = "running" /\ got[s] < Size[s] /\ s \in tmp
      /\ s \notin OnDisk /\ result[s] # "url"
      /\ UNCHANGED <<total, tmp, save, seenLimit, download, closed, result, limit, miscounted>>
      /\ SaveTypes /\ total \in Nat /\ Size[s] \in Nat
  BY CacheParts, CacheSplits, SizeFacts DEF Chunk, SaveOK, Held
<1>1. got' = [got EXCEPT ![s] = @ + 1] /\ files' = Latest(s)
  BY DEF Chunk
<1>2. /\ FilesOK(files') /\ Files(files') = Files(files)
      /\ tmp' \subseteq Files(files')
  <2>1. FilesOK(files') /\ Files(files') = Files(files) \cup {s}
    BY <1>1, CacheParts, LatestFacts
  <2>2. s \in Files(files) /\ tmp \subseteq Files(files)
    BY <1>0, CacheParts
  <2> QED
    BY <1>0, <2>1, <2>2
<1>3. OnDisk' = OnDisk
  BY <1>0, <1>2, CacheParts DEF OnDisk, Files
<1>4. CountMatchesDisk'
  BY <1>0, <1>3, DiskStays
<1>5. SaveTypes'
  <2>1. got' \in [Saves -> Nat] /\ \A u \in Saves : got'[u] <= Size[u]
    BY <1>0, <1>1, SizeFacts DEF SaveTypes
  <2> QED
    BY <1>0, <2>1 DEF SaveTypes
<1>6. OthersRest(s)
  BY <1>0, <1>1, <1>2 DEF OthersRest, SaveTypes
<1>7. SaveOK(s)'
  BY <1>0, <1>3 DEF SaveOK, Held
<1> QED
  BY <1>0, <1>2, <1>4, <1>5, <1>6, <1>7, SaveMoves

(* A download that says it succeeded has delivered the whole file.         *)
LEMMA DownloadEndsStep ==
  ASSUME CacheIInv, NEW s \in Saves, DownloadEnds(s)
  PROVE  CacheIInv'
<1>0. /\ download[s] = "running" /\ SaveOK(s)
      /\ UNCHANGED <<files, total, tmp, save, got, seenLimit, closed, result, limit, miscounted>>
      /\ SaveTypes /\ total \in Nat /\ FilesOK(files) /\ tmp \subseteq Files(files)
  BY CacheParts, CacheSplits DEF DownloadEnds
<1>1. \/ got[s] = Size[s] /\ download' = [download EXCEPT ![s] = "ok"]
      \/ download' = [download EXCEPT ![s] = "failed"]
  BY DEF DownloadEnds
<1>3. OnDisk' = OnDisk
  BY <1>0 DEF OnDisk
<1>4. CountMatchesDisk'
  BY <1>0, <1>3, DiskStays
<1>5. SaveTypes'
  BY <1>0, <1>1 DEF SaveTypes
<1>6. OthersRest(s)
  BY <1>0, <1>1 DEF OthersRest, SaveTypes
<1>7. SaveOK(s)'
  BY <1>0, <1>1, <1>3 DEF SaveOK, SaveTypes, Held
<1> QED
  BY <1>0, <1>4, <1>5, <1>6, <1>7, SaveMoves

(* A copy that ends on a finished download has the whole file.             *)
LEMMA CopyEndsStep ==
  ASSUME CacheIInv, NEW s \in Saves, CopyEnds(s)
  PROVE  CacheIInv'
<1>0. /\ save[s] = "copy" /\ download[s] = "ok" /\ SaveOK(s)
      /\ UNCHANGED <<files, total, tmp, got, seenLimit, download, closed, result, limit, miscounted>>
      /\ SaveTypes /\ total \in Nat /\ FilesOK(files) /\ tmp \subseteq Files(files)
  BY CacheParts, CacheSplits DEF CopyEnds
<1>1. save' = [save EXCEPT ![s] = "publish"]
  BY DEF CopyEnds
<1>3. OnDisk' = OnDisk
  BY <1>0 DEF OnDisk
<1>4. CountMatchesDisk'
  BY <1>0, <1>3, DiskStays
<1>5. SaveTypes'
  BY <1>0, <1>1 DEF SaveTypes
<1>6. OthersRest(s)
  BY <1>0, <1>1 DEF OthersRest, SaveTypes
<1>7. SaveOK(s)'
  BY <1>0, <1>1, <1>3 DEF SaveOK, SaveTypes, Held
<1> QED
  BY <1>0, <1>4, <1>5, <1>6, <1>7, SaveMoves

(* The temporary file goes with its save: CopyFails and PublishFails.      *)
LEMMA DroppedStep ==
  ASSUME CacheIInv, NEW s \in Saves, s \in tmp, tmp' = tmp \ {s}, files' = Without({s}),
         SaveTypes', UNCHANGED <<total, got, limit, miscounted, download>>,
         \A u \in Saves \ {s} : save'[u] = save[u] /\ result'[u] = result[u],
         save'[s] \in {"join", "done"}, result'[s] # "url"
  PROVE  CacheIInv'
<1>0. /\ total' \in Nat /\ SaveOK(s) /\ save[s] # "idle"
  BY CacheParts, CacheSplits DEF Held
<1>2. /\ FilesOK(files') /\ Files(files') = Files(files) \ {s}
      /\ tmp' \subseteq Files(files')
  BY CacheParts, WithoutFacts
<1>3. OnDisk' = OnDisk /\ s \notin OnDisk'
  BY <1>2, CacheParts DEF OnDisk, Files
<1>4. CountMatchesDisk'
  BY <1>3, DiskStays
<1>6. OthersRest(s)
  BY <1>2 DEF OthersRest
<1>7. SaveOK(s)'
  BY <1>0, <1>3 DEF SaveOK, Held
<1> QED
  BY <1>0, <1>2, <1>4, <1>6, <1>7, SaveMoves

(* A copy that fails removes its file and returns no URL.                  *)
LEMMA CopyFailsStep ==
  ASSUME CacheIInv, NEW s \in Saves, CopyFails(s)
  PROVE  CacheIInv'
<1>1. SaveTypes /\ save[s] = "copy" /\ s \in tmp
  BY CacheParts, CacheSplits DEF CopyFails, Held
<1>2. /\ save' = [save EXCEPT ![s] = "join"] /\ result' = [result EXCEPT ![s] = "error"]
      /\ tmp' = tmp \ {s} /\ files' = Without({s}) /\ closed' = [closed EXCEPT ![s] = TRUE]
      /\ UNCHANGED <<total, got, seenLimit, download, limit, miscounted>>
  BY DEF CopyFails
<1>3. SaveTypes'
  BY <1>1, <1>2 DEF SaveTypes
<1>4. /\ \A u \in Saves \ {s} : save'[u] = save[u] /\ result'[u] = result[u]
      /\ save'[s] \in {"join", "done"} /\ result'[s] # "url"
  BY <1>1, <1>2 DEF SaveTypes
<1> QED
  BY <1>1, <1>2, <1>3, <1>4, DroppedStep

(* A rename that fails removes the file and returns no URL.                *)
LEMMA PublishFailsStep ==
  ASSUME CacheIInv, NEW s \in Saves, PublishFails(s)
  PROVE  CacheIInv' /\ result'[s] # "url"
<1>1. SaveTypes /\ save[s] = "publish" /\ s \in tmp
  BY CacheParts, CacheSplits DEF PublishFails, Held
<1>2. /\ save' = [save EXCEPT ![s] = IF s \in StreamSaves THEN "join" ELSE "done"]
      /\ result' = [result EXCEPT ![s] = "error"]
      /\ tmp' = tmp \ {s} /\ files' = Without({s})
      /\ UNCHANGED <<total, got, seenLimit, download, closed, limit, miscounted>>
  BY DEF PublishFails
<1>3. SaveTypes'
  BY <1>1, <1>2 DEF SaveTypes
<1>4. /\ \A u \in Saves \ {s} : save'[u] = save[u] /\ result'[u] = result[u]
      /\ save'[s] \in {"join", "done"} /\ result'[s] # "url"
  BY <1>1, <1>2 DEF SaveTypes
<1> QED
  BY <1>1, <1>2, <1>3, <1>4, DroppedStep

(* cacheVideo learns how its download ended.                               *)
LEMMA JoinStep ==
  ASSUME CacheIInv, NEW s \in Saves, Join(s)
  PROVE  CacheIInv'
<1>0. /\ save[s] = "join" /\ SaveOK(s)
      /\ UNCHANGED <<files, total, tmp, got, seenLimit, download, closed, limit, miscounted>>
      /\ SaveTypes /\ total \in Nat /\ FilesOK(files) /\ tmp \subseteq Files(files)
  BY CacheParts, CacheSplits DEF Join
<1>1. /\ save' = [save EXCEPT ![s] = "done"]
      /\ \/ result' = [result EXCEPT ![s] = "error"]
         \/ result' = [result EXCEPT ![s] = @]
  BY DEF Join
<1>3. OnDisk' = OnDisk
  BY <1>0 DEF OnDisk
<1>4. CountMatchesDisk'
  BY <1>0, <1>3, DiskStays
<1>5. SaveTypes'
  BY <1>0, <1>1 DEF SaveTypes
<1>6. OthersRest(s)
  BY <1>0, <1>1 DEF OthersRest, SaveTypes
<1>7. SaveOK(s)'
  BY <1>0, <1>1, <1>3 DEF SaveOK, SaveTypes, Held
<1> QED
  BY <1>0, <1>4, <1>5, <1>6, <1>7, SaveMoves

(* A step that leaves the saves alone and adds no file.                    *)
LEMMA FilesMove ==
  ASSUME CacheIInv, FilesOK(files'), tmp \subseteq Files(files'), Files(files') \subseteq Files(files),
         UNCHANGED <<tmp, save, got, seenLimit, download, closed, result>>,
         total' \in Nat, limit' \in Limits, miscounted' \in BOOLEAN, CountMatchesDisk'
  PROVE  CacheIInv'
<1>1. SaveTypes' /\ tmp' \subseteq Files(files')
  BY CacheSplits DEF SaveTypes
<1>2. OnDisk' = Files(files') \ tmp' /\ OnDisk' \subseteq OnDisk
  BY CacheParts DEF OnDisk, Files
<1>3. ASSUME NEW s \in Saves PROVE SaveOK(s)'
  <2>1. SaveOK(s)
    BY CacheSplits
  <2> QED
    BY <1>2, <2>1 DEF SaveOK
<1>4. \A s \in Saves : SaveOK(s)'
  BY <1>3
<1> QED
  BY <1>1, <1>4, CacheJoins

(* Serving a file changes its place, not the directory.                    *)
LEMMA TouchStep ==
  ASSUME CacheIInv, NEW f \in Saves, Touch(f)
  PROVE  CacheIInv'
<1>1. /\ f \in OnDisk /\ files' = Latest(f)
      /\ UNCHANGED <<total, tmp, save, got, seenLimit, download, closed, result, limit, miscounted>>
  BY DEF Touch
<1>2. FilesOK(files') /\ Files(files') = Files(files) \cup {f}
  BY <1>1, CacheParts, LatestFacts
<1>3. Files(files') = Files(files) /\ tmp \subseteq Files(files')
  BY <1>1, <1>2, CacheParts
<1>4. OnDisk' = OnDisk
  BY <1>1, <1>3, CacheParts DEF OnDisk, Files
<1>5. CountMatchesDisk'
  BY <1>1, <1>4, DiskStays
<1>6. total' \in Nat /\ limit' \in Limits /\ miscounted' \in BOOLEAN
  BY <1>1, CacheParts, CacheSplits
<1> QED
  BY <1>1, <1>2, <1>3, <1>5, <1>6, FilesMove

(* A deletion takes away the bytes of what it removes.                     *)
LEMMA DeleteFilesStep ==
  ASSUME CacheIInv, NEW S, DeleteFiles(S)
  PROVE  CacheIInv'
<1>1. PICK removed \in SUBSET OnDisk :
        /\ files' = Without(removed) /\ total' = Min0(total - BytesOf(removed))
        /\ UNCHANGED <<tmp, save, got, seenLimit, download, closed, result, limit, miscounted>>
  <2>1. (S \cap OnDisk) \ Sticky \in SUBSET OnDisk
    OBVIOUS
  <2>2. PICK removed \in SUBSET OnDisk : removed = (S \cap OnDisk) \ Sticky
    BY <2>1
  <2> QED
    BY <2>2 DEF DeleteFiles
<1>2. FilesOK(files') /\ Files(files') = Files(files) \ removed
  BY <1>1, CacheParts, WithoutFacts
<1>3. tmp \subseteq Files(files') /\ Files(files') \subseteq Files(files)
  BY <1>2, CacheParts
<1>4. OnDisk' = OnDisk \ removed
  BY <1>1, <1>2, CacheParts DEF OnDisk, Files
<1>5. PICK D \in SUBSET Saves : D = OnDisk /\ IsFiniteSet(D) /\ removed \in SUBSET D
  BY CacheParts
<1>6. /\ BytesOf(D) \in Nat /\ BytesOf(removed) \in Nat /\ BytesOf(D \ removed) \in Nat
      /\ BytesOf(D) = BytesOf(removed) + BytesOf(D \ removed)
  BY <1>5, BytesWithout
<1>7. /\ total \in Nat /\ total <= BytesOf(D) /\ (~miscounted => total = BytesOf(D))
  BY <1>5, CacheParts DEF CacheIInv, CountMatchesDisk
<1>8. /\ total' \in Nat /\ total' <= BytesOf(D \ removed)
      /\ ~miscounted => total' = BytesOf(D \ removed)
  BY <1>1, <1>6, <1>7 DEF Min0
<1>9. CountMatchesDisk'
  <2>1. OnDisk' = D \ removed /\ miscounted' = miscounted
    BY <1>1, <1>4, <1>5
  <2> QED
    BY <1>8, <2>1 DEF CountMatchesDisk
<1>10. limit' \in Limits /\ miscounted' \in BOOLEAN
  BY <1>1, CacheSplits
<1> QED
  BY <1>1, <1>2, <1>3, <1>8, <1>9, <1>10, FilesMove

(* A Clear that left something behind is miscounted.                       *)
LEMMA ClearStep ==
  ASSUME CacheIInv, Clear
  PROVE  CacheIInv'
<1>1. /\ files' = Without(OnDisk \ Sticky) /\ total' = 0
      /\ miscounted' = (miscounted \/ (OnDisk \cap Sticky) # {})
      /\ UNCHANGED <<tmp, save, got, seenLimit, download, closed, result, limit>>
  BY DEF Clear
<1>2. FilesOK(files') /\ Files(files') = Files(files) \ (OnDisk \ Sticky)
  BY <1>1, CacheParts, WithoutFacts
<1>3. tmp \subseteq Files(files') /\ Files(files') \subseteq Files(files)
  BY <1>2, CacheParts
<1>4. OnDisk' = OnDisk \cap Sticky
  BY <1>1, <1>2, CacheParts DEF OnDisk, Files
<1>5. PICK D \in SUBSET Saves : D = OnDisk \cap Sticky /\ IsFiniteSet(D)
  <2>1. PICK O \in SUBSET Saves : O = OnDisk /\ IsFiniteSet(O)
    BY CacheParts
  <2>2. O \cap Sticky \in SUBSET O
    OBVIOUS
  <2>3. IsFiniteSet(O \cap Sticky)
    BY <2>1, <2>2, FS_Subset
  <2> QED
    BY <2>1, <2>3
<1>6. BytesOf(D) \in Nat /\ BytesOf({}) = 0
  BY <1>5, BytesFacts
<1>7. total' \in Nat /\ total' <= BytesOf(D) /\ (~miscounted' => total' = BytesOf(D))
  <2>1. ~miscounted' => D = {}
    BY Zenon, <1>1, <1>5
  <2>2. total' \in Nat /\ total' <= BytesOf(D)
    BY <1>1, <1>6
  <2>3. D = {} => total' = BytesOf(D)
    BY <1>1, <1>6
  <2> QED
    BY Zenon, <2>1, <2>2, <2>3
<1>8. CountMatchesDisk'
  BY <1>4, <1>5, <1>7 DEF CountMatchesDisk
<1>9. limit' \in Limits /\ miscounted' \in BOOLEAN
  BY <1>1, CacheSplits
<1> QED
  BY <1>1, <1>2, <1>3, <1>7, <1>8, <1>9, FilesMove

(* A new limit takes effect with the next publication.                     *)
LEMMA SetLimitStep ==
  ASSUME CacheIInv, NEW l \in Limits, SetLimit(l)
  PROVE  CacheIInv'
<1>1. /\ limit' = l
      /\ UNCHANGED <<files, total, tmp, save, got, seenLimit, download, closed, result, miscounted>>
  BY DEF SetLimit
<1>2. OnDisk' = OnDisk
  BY <1>1 DEF OnDisk
<1>3. CountMatchesDisk'
  BY <1>1, <1>2, DiskStays
<1>4. /\ FilesOK(files') /\ tmp \subseteq Files(files') /\ Files(files') \subseteq Files(files)
      /\ total' \in Nat /\ limit' \in Limits /\ miscounted' \in BOOLEAN
  BY <1>1, CacheParts, CacheSplits
<1> QED
  BY <1>1, <1>3, <1>4, FilesMove

-----------------------------------------------------------------------------
(* A published file and what eviction leaves next to it.                   *)
LEMMA PublishStep ==
  ASSUME CacheIInv, NEW s \in Saves, Publish(s)
  PROVE  /\ CacheIInv' /\ s \in OnDisk'
         /\ limit = 0 \/ total' <= limit \/ OnDisk' \subseteq Sticky \cup {s}
<1>0. /\ save[s] = "publish" /\ SaveOK(s) /\ s \in tmp /\ got[s] = Size[s] /\ s \notin OnDisk
      /\ SaveTypes /\ Size[s] \in Nat /\ total \in Nat /\ limit \in Nat /\ s \in Files(files)
  BY CacheParts, CacheSplits, SizeFacts DEF Publish, SaveOK, Held
<1>1. PICK e : /\ e = Evict(files, total + Size[s], tmp \cup {s})
               /\ files' = e.keep /\ total' = e.bytes
               /\ tmp' = tmp \ {s} /\ result' = [result EXCEPT ![s] = "url"]
               /\ save' = [save EXCEPT ![s] = IF s \in StreamSaves THEN "join" ELSE "done"]
               /\ UNCHANGED <<got, seenLimit, download, closed, limit, miscounted>>
  BY <1>0 DEF Publish
<1>b. PICK b \in Nat : b = total + Size[s]
  BY <1>0
<1>2. Evicted(files', total', files, b, tmp \cup {s})
  <2>1. FilesOK(files) /\ limit \in Nat
    BY <1>0, CacheParts
  <2>2. Evicted(Evict(files, b, tmp \cup {s}).keep, Evict(files, b, tmp \cup {s}).bytes,
                files, b, tmp \cup {s})
    BY <2>1, EvictFacts
  <2> QED
    BY <1>1, <1>b, <2>2
<1> DEFINE gone == Files(files) \ Files(files')
<1>3. /\ FilesOK(files') /\ Files(files') \subseteq Files(files)
      /\ gone \cap (Sticky \cup (tmp \cup {s})) = {}
      /\ total' = Min0(b - BytesOf(gone))
      /\ limit = 0 \/ total' <= limit \/ Files(files') \subseteq Sticky \cup (tmp \cup {s})
  BY <1>2 DEF Evicted
<1>4. /\ OnDisk' = Files(files') \ (tmp \ {s})
      /\ s \in Files(files') /\ tmp \subseteq Files(files') /\ tmp \subseteq Files(files)
  BY <1>0, <1>1, <1>3, CacheParts DEF OnDisk, Files
<1>5. s \in OnDisk' /\ tmp' \subseteq Files(files')
  BY <1>1, <1>4
<1>6. limit = 0 \/ total' <= limit \/ OnDisk' \subseteq Sticky \cup {s}
  BY <1>3, <1>4
<1>7. OnDisk' = (OnDisk \cup {s}) \ gone /\ gone \subseteq OnDisk
  BY <1>0, <1>3, <1>4, CacheParts
<1>8. CountMatchesDisk' /\ total' \in Nat
  <2>1. PICK D \in SUBSET Saves : D = OnDisk \cup {s} /\ IsFiniteSet(D) /\ BytesOf(D) = BytesOf(OnDisk) + Size[s]
    <3>1. PICK O \in SUBSET Saves : O = OnDisk /\ IsFiniteSet(O) /\ s \notin O
      BY <1>0, CacheParts
    <3>2. IsFiniteSet(O \cup {s}) /\ BytesOf(O \cup {s}) = BytesOf(O) + Size[s]
      BY <3>1, BytesAdd
    <3> QED
      BY <3>1, <3>2
  <2>2. PICK G \in SUBSET D : G = gone
    BY <1>7, <2>1
  <2>3. /\ BytesOf(D) \in Nat /\ BytesOf(G) \in Nat /\ BytesOf(D \ G) \in Nat
        /\ BytesOf(D) = BytesOf(G) + BytesOf(D \ G)
    BY <2>1, BytesWithout
  <2>4. BytesOf(OnDisk) \in Nat /\ total <= BytesOf(OnDisk) /\ (~miscounted => total = BytesOf(OnDisk))
    BY CacheParts DEF CacheIInv, CountMatchesDisk
  <2>5. total' = Min0(b - BytesOf(G)) /\ b = total + Size[s]
    BY <1>b, <1>3, <2>2
  <2>6. PICK O \in Nat : O = BytesOf(OnDisk)
    BY <2>4
  <2>7. /\ total' \in Nat /\ total' <= BytesOf(D \ G)
        /\ ~miscounted => total' = BytesOf(D \ G)
    BY <1>0, <2>1, <2>3, <2>4, <2>5, <2>6 DEF Min0
  <2>8. OnDisk' = D \ G /\ miscounted' = miscounted
    BY <1>1, <1>7, <2>1, <2>2
  <2> QED
    BY <2>7, <2>8 DEF CountMatchesDisk
<1>9. SaveTypes'
  BY <1>0, <1>1 DEF SaveTypes
<1>10. OthersRest(s)
  BY <1>0, <1>1, <1>3 DEF OthersRest, SaveTypes
<1>11. SaveOK(s)'
  BY <1>0, <1>1, <1>9 DEF SaveOK, SaveTypes, Held
<1>12. limit' = limit /\ miscounted' = miscounted
  BY <1>1
<1>13. CacheIInv'
  BY <1>3, <1>5, <1>8, <1>9, <1>10, <1>11, <1>12, SaveMoves
<1> QED
  BY <1>5, <1>6, <1>13

(* reconcile counts what it finds, and evicts from that.                   *)
LEMMA RestartStep ==
  ASSUME CacheIInv, Restart
  PROVE  CacheIInv' /\ \A s \in Saves : result'[s] = "url" => result[s] = "url"
<1>0. SaveTypes /\ limit \in Nat /\ BytesOf(OnDisk) \in Nat /\ FilesOK(files)
  BY CacheParts, CacheSplits
<1>1. PICK e :
        /\ e = Evict(Without(tmp), BytesOf(OnDisk), {})
        /\ files' = e.keep /\ total' = e.bytes /\ tmp' = {}
        /\ save' = [s \in Saves |-> "done"]
        /\ download' = [s \in Saves |-> IF download[s] = "running" THEN "failed" ELSE download[s]]
        /\ result' = [s \in Saves |-> IF save[s] = "join" THEN "none" ELSE result[s]]
        /\ miscounted' = FALSE
        /\ UNCHANGED <<got, seenLimit, closed, limit>>
  BY Zenon DEF Restart
<1>b. PICK b \in Nat : b = BytesOf(OnDisk)
  BY <1>0
<1>f. PICK fs : fs = Without(tmp)
  OBVIOUS
<1>2. FilesOK(fs) /\ Files(fs) = OnDisk
  BY <1>0, <1>f, CacheParts, WithoutFacts
<1>3. Evicted(files', total', fs, b, {})
  <2>1. Evicted(Evict(fs, b, {}).keep, Evict(fs, b, {}).bytes, fs, b, {})
    BY <1>0, <1>2, EvictFacts
  <2> QED
    BY <1>1, <1>b, <1>f, <2>1
<1>4. /\ FilesOK(files') /\ Files(files') \subseteq OnDisk
      /\ total' = Min0(b - BytesOf(OnDisk \ Files(files')))
  BY <1>1, <1>2, <1>3 DEF Evicted
<1>5. OnDisk' = Files(files') /\ tmp' \subseteq Files(files')
  BY <1>1 DEF OnDisk, Files
<1>6. CountMatchesDisk' /\ total' \in Nat
  <2>1. PICK D \in SUBSET Saves : D = OnDisk /\ IsFiniteSet(D)
    BY CacheParts
  <2>2. PICK G \in SUBSET D : G = OnDisk \ Files(files')
    BY <2>1
  <2>3. /\ BytesOf(D) \in Nat /\ BytesOf(G) \in Nat /\ BytesOf(D \ G) \in Nat
        /\ BytesOf(D) = BytesOf(G) + BytesOf(D \ G)
    BY <2>1, BytesWithout
  <2>4. OnDisk' = D \ G
    BY <1>4, <1>5, <2>1, <2>2
  <2>5. b = BytesOf(D) /\ total' = Min0(b - BytesOf(G))
    BY <1>b, <1>4, <2>1, <2>2
  <2>6. total' = BytesOf(D \ G)
    BY <2>3, <2>5 DEF Min0
  <2> QED
    BY <2>3, <2>4, <2>6 DEF CountMatchesDisk
<1>7. SaveTypes'
  BY <1>0, <1>1 DEF SaveTypes
<1>8. ASSUME NEW s \in Saves PROVE SaveOK(s)' /\ (result'[s] = "url" => result[s] = "url")
  <2>1. SaveOK(s)
    BY CacheSplits
  <2>2. /\ save'[s] = "done" /\ s \notin tmp' /\ got'[s] = got[s]
        /\ download'[s] = "ok" => download[s] = "ok"
        /\ result'[s] = "url" => result[s] = "url"
        /\ s \in OnDisk' => s \in OnDisk
    BY <1>1, <1>4, <1>5
  <2> QED
    BY <2>1, <2>2 DEF SaveOK, Held
<1>9. \A s \in Saves : SaveOK(s)'
  BY <1>8
<1>10. limit' \in Limits /\ miscounted' \in BOOLEAN
  BY <1>1, CacheSplits
<1> QED
  BY <1>4, <1>5, <1>6, <1>7, <1>8, <1>9, <1>10, CacheJoins

-----------------------------------------------------------------------------
(* An empty cache.                                                         *)
LEMMA CacheInitially == CacheInit => CacheIInv
<1> SUFFICES ASSUME CacheInit PROVE CacheIInv
  OBVIOUS
<1>1. files = <<>> /\ FilesOK(files) /\ Files(files) = {} /\ OnDisk = {}
  BY EmptySeq DEF CacheInit, FilesOK, Distinct, Files, OnDisk
<1>2. BytesOf({}) = 0
  BY FS_EmptySet, BytesFacts
<1>3. CountMatchesDisk
  BY <1>1, <1>2 DEF CacheInit, CountMatchesDisk
<1>4. CacheTypeOK
  <2>1. \A s \in Saves : got[s] <= Size[s]
    BY SizeFacts DEF CacheInit
  <2> QED
    BY <1>1, <2>1 DEF CacheInit, CacheTypeOK, FilesOK, Distinct, Files
<1>5. PublishedIsWhole /\ CacheProtocol
  BY <1>1 DEF CacheInit, PublishedIsWhole, CacheProtocol
<1> QED
  BY <1>3, <1>4, <1>5 DEF CacheIInv

(* One step of the cache keeps the invariant, and makes room if it         *)
(* publishes.                                                              *)
Room ==
  \A s \in Saves : save[s] = "publish" /\ result'[s] = "url" =>
    /\ s \in OnDisk'
    /\ limit = 0 \/ total' <= limit \/ OnDisk' \subseteq Sticky \cup {s}

(* A step that returns no new URL owes no room.                            *)
LEMMA NothingPublished ==
  ASSUME CacheIInv, \A s \in Saves : result'[s] = "url" => result[s] = "url"
  PROVE  Room
<1>1. \A s \in Saves : save[s] = "publish" => result[s] # "url"
  BY DEF CacheIInv, CacheProtocol
<1> QED
  BY <1>1 DEF Room

(* Each step of a save.                                                    *)
LEMMA SaveStepKeeps ==
  ASSUME CacheIInv, NEW s \in Saves, SaveStep(s)
  PROVE  CacheIInv' /\ Room
<1>0. SaveTypes
  BY CacheSplits
<1>1. CASE WriteFile(s)
  <2>1. \A u \in Saves : result'[u] = "url" => result[u] = "url"
    BY <1>0, <1>1 DEF WriteFile, SaveTypes
  <2> QED
    BY <1>1, <2>1, WriteFileStep, NothingPublished
<1>2. CASE BeginStream(s) \/ Chunk(s) \/ DownloadEnds(s) \/ CopyEnds(s)
  <2>1. \A u \in Saves : result'[u] = "url" => result[u] = "url"
    BY <1>2 DEF BeginStream, Chunk, DownloadEnds, CopyEnds
  <2> QED
    BY <1>2, <2>1, BeginStreamStep, ChunkStep, DownloadEndsStep, CopyEndsStep, NothingPublished
<1>3. CASE CopyFails(s)
  <2>1. \A u \in Saves : result'[u] = "url" => result[u] = "url"
    BY <1>0, <1>3 DEF CopyFails, SaveTypes
  <2> QED
    BY <1>3, <2>1, CopyFailsStep, NothingPublished
<1>4. CASE Publish(s)
  <2>1. /\ CacheIInv' /\ s \in OnDisk'
        /\ limit = 0 \/ total' <= limit \/ OnDisk' \subseteq Sticky \cup {s}
    BY <1>4, PublishStep
  <2>2. \A u \in Saves \ {s} : result'[u] = result[u] /\ (save[u] = "publish" => result[u] # "url")
    BY <1>0, <1>4 DEF Publish, SaveTypes, CacheIInv, CacheProtocol
  <2> QED
    BY <2>1, <2>2 DEF Room
<1>5. CASE PublishFails(s)
  <2>1. \A u \in Saves : result'[u] = "url" => result[u] = "url"
    BY <1>0, <1>5 DEF PublishFails, SaveTypes
  <2> QED
    BY <1>5, <2>1, PublishFailsStep, NothingPublished
<1>6. CASE Join(s)
  <2>1. \A u \in Saves : result'[u] = "url" => result[u] = "url"
    BY <1>0, <1>6 DEF Join, SaveTypes
  <2> QED
    BY <1>6, <2>1, JoinStep, NothingPublished
<1> QED
  BY <1>1, <1>2, <1>3, <1>4, <1>5, <1>6 DEF SaveStep

(* A step that leaves the cache alone.                                     *)
LEMMA CacheStutters ==
  ASSUME CacheIInv, UNCHANGED cacheVars
  PROVE  CacheIInv'
<1>1. OnDisk' = OnDisk
  BY DEF cacheVars, OnDisk
<1>2. CountMatchesDisk'
  BY <1>1, DiskStays DEF cacheVars
<1>3. /\ FilesOK(files') /\ tmp \subseteq Files(files') /\ Files(files') \subseteq Files(files)
      /\ total' \in Nat /\ limit' \in Limits /\ miscounted' \in BOOLEAN
      /\ UNCHANGED <<tmp, save, got, seenLimit, download, closed, result>>
  BY CacheParts, CacheSplits DEF cacheVars
<1> QED
  BY <1>2, <1>3, FilesMove

(* Every step keeps the cache's invariant and makes room if it publishes.  *)
LEMMA CacheInductive == CacheIInv /\ [Next]_allVars => CacheIInv' /\ [Room]_cacheVars
<1> SUFFICES ASSUME CacheIInv, [Next]_allVars PROVE CacheIInv' /\ [Room]_cacheVars
  OBVIOUS
<1>1. ASSUME NEW s \in Saves, SaveStep(s) PROVE CacheIInv' /\ Room
  BY <1>1, SaveStepKeeps
<1>2. ASSUME NEW s \in Saves, Touch(s) PROVE CacheIInv' /\ Room
  BY <1>2, TouchStep, NothingPublished DEF Touch
<1>3. ASSUME NEW S, DeleteFiles(S) PROVE CacheIInv' /\ Room
  <2>1. result' = result
    BY <1>3 DEF DeleteFiles
  <2> QED
    BY <1>3, <2>1, DeleteFilesStep, NothingPublished
<1>4. CASE Clear
  BY <1>4, ClearStep, NothingPublished DEF Clear
<1>5. ASSUME NEW l \in Limits, SetLimit(l) PROVE CacheIInv' /\ Room
  BY <1>5, SetLimitStep, NothingPublished DEF SetLimit
<1>6. CASE Restart
  BY <1>6, RestartStep, NothingPublished
<1>7. CASE UNCHANGED cacheVars
  BY <1>7, CacheStutters
<1>8. CASE CacheNext
  BY <1>8, <1>1, <1>2, <1>3, <1>4, <1>5, <1>6 DEF CacheNext
<1> QED
  BY <1>7, <1>8 DEF Next, allVars

(* The byte count, the protocol of the saves and what can be served hold   *)
(* together in every reachable state of internal/cache.                    *)
THEOREM CacheInvariant == Spec => []CacheIInv
<1>1. Init => CacheIInv
  BY CacheInitially DEF Init
<1>2. CacheIInv /\ [Next]_allVars => CacheIInv'
  BY CacheInductive
<1> QED
  BY <1>1, <1>2, PTL DEF Spec

(* A file that can be served is whole and a URL is returned for whole      *)
(* files only, whatever saves, evictions, deletions and restarts           *)
(* interleave (SaveStream and publishFile of internal/cache/service.go).   *)
THEOREM PublishedAlwaysWhole == Spec => []PublishedIsWhole
<1>1. CacheIInv => PublishedIsWhole
  BY DEF CacheIInv
<1> QED
  BY <1>1, CacheInvariant, PTL

(* publishFile makes room: afterwards the cache is within its limit, or    *)
(* nothing that may be evicted is left next to the new file.               *)
THEOREM AlwaysMakesRoom == Spec => PublishMakesRoom
<1>1. CacheIInv /\ [Next]_allVars => [Room]_cacheVars
  BY CacheInductive
<1> QED
  BY <1>1, CacheInvariant, PTL DEF Spec, PublishMakesRoom, Room

-----------------------------------------------------------------------------

(* The stages of the reader after its last send.                           *)
Stopped == {"stop", "done", "close", "ended"}

(* The timer function has the lock while it sends, and only before the     *)
(* final image.                                                            *)
TimerProtocol ==
  /\ mu = "timer" <=> timer = "sending"
  /\ timer = "sending" => ~hasFinal
  /\ hasFinal => timer \in {"fired", "off"}
  /\ timer = "panicked" => reader = "ended" /\ ~hasFinal

(* After the final image the reader only stops, and the channels close     *)
(* after its last send.                                                    *)
ReaderProtocol ==
  /\ reader = "send" => sending # <<"none", "none">>
  /\ reader = "send" /\ sending[1] = "final" => hasFinal /\ sending[2] = "stop"
  /\ hasFinal => reader \in Stopped \/ (reader = "send" /\ sending[1] = "final")
  /\ eventCh <=> reader = "ended"
  /\ doneCh <=> reader \in {"close", "ended"}

(* No event after the final image reports a block.                         *)
InOrder(es) == \A i, j \in DOMAIN es : es[i] = "final" /\ i < j => es[j] # "blocked"

(* The final image in the channel, sent or received.                       *)
FinalProtocol ==
  /\ finalSent => hasFinal
  /\ finalImage => finalSent
  /\ \A i \in DOMAIN events : events[i] = "final" => finalSent
  /\ InOrder(events)
  /\ finalImage => \A i \in DOMAIN events : events[i] # "blocked"
  /\ consumer = "blocked" => ~finalImage

(* The inductive invariant of the stream.                                  *)
StreamIInv == StreamTypeOK /\ TimerProtocol /\ ReaderProtocol /\ FinalProtocol

-----------------------------------------------------------------------------
(* One more event in the channel.                                          *)
LEMMA Appended ==
  ASSUME NEW es \in Seq(Events), NEW e \in Events
  PROVE  /\ Append(es, e) \in Seq(Events) /\ Len(Append(es, e)) = Len(es) + 1
         /\ \A i \in DOMAIN Append(es, e) : i \in DOMAIN es \/ i = Len(es) + 1
         /\ \A i \in DOMAIN es : i <= Len(es) /\ Append(es, e)[i] = es[i]
         /\ Append(es, e)[Len(es) + 1] = e
<1> DEFINE s == Append(es, e)
<1>1. /\ s \in Seq(Events) /\ Len(s) = Len(es) + 1 /\ Len(es) \in Nat
      /\ \A i \in 1..Len(es) : s[i] = es[i]
      /\ s[Len(es) + 1] = e
  BY AppendProperties
<1>2. DOMAIN es = 1..Len(es) /\ DOMAIN s = 1..Len(s)
  BY <1>1
<1> HIDE DEF s
<1> QED
  BY <1>1, <1>2 DEF s

(* One event less.                                                         *)
LEMMA Received ==
  ASSUME NEW es \in Seq(Events), es # << >>
  PROVE  /\ Tail(es) \in Seq(Events) /\ Len(Tail(es)) <= Len(es) /\ Head(es) = es[1]
         /\ 1 \in DOMAIN es /\ Head(es) \in Events
         /\ \A i \in DOMAIN Tail(es) : i > 0 /\ i + 1 \in DOMAIN es /\ Tail(es)[i] = es[i + 1]
<1> DEFINE s == Tail(es)
<1>1. /\ s \in Seq(Events) /\ Len(s) = Len(es) - 1
      /\ \A i \in 1..Len(s) : s[i] = es[i + 1]
      /\ Head(es) \in Events
  BY HeadTailProperties
<1>2. DOMAIN es = 1..Len(es) /\ DOMAIN s = 1..Len(s) /\ Len(es) \in Nat /\ Len(s) \in Nat
  BY <1>1
<1> HIDE DEF s
<1>3. Head(es) = es[1]
  OBVIOUS
<1> QED
  BY <1>1, <1>2, <1>3 DEF s

(* A stream starts with nothing sent.                                      *)
LEMMA StreamInitially == StreamInit => StreamIInv
<1> SUFFICES ASSUME StreamInit PROVE StreamIInv
  OBVIOUS
<1>2. events = << >> /\ DOMAIN events = {}
  BY DEF StreamInit
<1>1. StreamTypeOK
  <2>1. events \in Seq(Events) /\ Len(events) <= Places
    BY <1>2, StreamAssumption, EmptySeq
  <2> QED
    BY <2>1 DEF StreamInit, StreamTypeOK
<1> QED
  BY <1>1, <1>2 DEF StreamInit, StreamIInv, TimerProtocol, ReaderProtocol, FinalProtocol, InOrder

(* The reader's steps that send nothing.                                   *)
LEMMA ReaderStays ==
  ASSUME StreamIInv, ReadMessage \/ Medium \/ Final \/ DeferredStop \/ DeferredDone \/ DeferredClose,
         timer # "panicked"
  PROVE  StreamIInv'
<1>0. UNCHANGED <<events, ctxDone, finalImage, consumer, finalSent, mu>>
  BY DEF ReadMessage, Medium, Final, DeferredStop, DeferredDone, DeferredClose
<1>1. FinalProtocol'
  <2>1. hasFinal => hasFinal'
    BY DEF ReadMessage, Medium, Final, DeferredStop, DeferredDone, DeferredClose
  <2> QED
    BY <1>0, <2>1 DEF StreamIInv, FinalProtocol, InOrder
<1>2. CASE ReadMessage
  BY <1>0, <1>1, <1>2 DEF ReadMessage, SendThen, StreamIInv, StreamTypeOK, TimerProtocol,
                           ReaderProtocol, Stopped
<1>3. CASE Medium
  BY <1>0, <1>1, <1>3 DEF Medium, SendThen, StreamIInv, StreamTypeOK, TimerProtocol,
                           ReaderProtocol, Stopped
<1>4. CASE Final
  BY <1>0, <1>1, <1>4 DEF Final, StopTimer, SendThen, StreamIInv, StreamTypeOK, TimerProtocol,
                           ReaderProtocol, Stopped
<1>5. CASE DeferredStop
  BY <1>0, <1>1, <1>5 DEF DeferredStop, StopTimer, StreamIInv, StreamTypeOK, TimerProtocol,
                           ReaderProtocol, Stopped
<1>6. CASE DeferredDone
  BY <1>0, <1>1, <1>6 DEF DeferredDone, StreamIInv, StreamTypeOK, TimerProtocol,
                           ReaderProtocol, Stopped
<1>7. CASE DeferredClose
  BY <1>0, <1>1, <1>7 DEF DeferredClose, StreamIInv, StreamTypeOK, TimerProtocol,
                           ReaderProtocol, Stopped
<1> QED
  BY <1>2, <1>3, <1>4, <1>5, <1>6, <1>7

(* A send of the reader goes through: only a final image needs the order   *)
(* of the channel.                                                         *)
LEMMA SendStep ==
  ASSUME StreamIInv, Send, timer # "panicked"
  PROVE  StreamIInv'
<1>1. /\ events \in Seq(Events) /\ Len(events) \in Nat /\ Places \in Nat
      /\ sending[1] \in {"preview", "medium", "final", "error"} /\ sending[1] \in Events
      /\ sending[2] \in {"read", "stop"}
      /\ sending[1] = "final" => hasFinal /\ sending[2] = "stop"
  BY StreamAssumption DEF Send, StreamIInv, StreamTypeOK, ReaderProtocol, Events
<1>2. /\ events' \in Seq(Events) /\ Len(events') = Len(events) + 1
      /\ \A i \in DOMAIN events' : i \in DOMAIN events \/ i = Len(events) + 1
      /\ \A i \in DOMAIN events : i <= Len(events) /\ events'[i] = events[i]
      /\ events'[Len(events) + 1] = sending[1]
  BY <1>1, Appended DEF Send
<1>3. /\ UNCHANGED <<mu, hasMedium, hasFinal, timer, doneCh, eventCh, ctxDone, finalImage, consumer>>
      /\ finalSent' = (finalSent \/ sending[1] = "final")
      /\ reader' = sending[2] /\ sending' = <<"none", "none">> /\ reader = "send"
      /\ Len(events) < Places
  BY DEF Send
<1>4. StreamTypeOK'
  BY <1>1, <1>2, <1>3 DEF StreamIInv, StreamTypeOK
<1>5. TimerProtocol'
  BY <1>3 DEF StreamIInv, TimerProtocol
<1>6. ReaderProtocol'
  BY <1>1, <1>3 DEF StreamIInv, ReaderProtocol, Stopped
<1>7. InOrder(events')
  <2> SUFFICES ASSUME NEW i \in DOMAIN events', NEW j \in DOMAIN events', events'[i] = "final", i < j
               PROVE  events'[j] # "blocked"
    BY DEF InOrder
  <2>1. CASE j = Len(events) + 1
    BY <1>1, <1>2, <2>1
  <2>2. CASE j \in DOMAIN events
    <3>1. i \in DOMAIN events
      BY <1>1, <1>2, <2>2
    <3> QED
      BY <1>2, <2>2, <3>1 DEF StreamIInv, FinalProtocol, InOrder
  <2> QED
    BY <1>2, <2>1, <2>2
<1>8. FinalProtocol'
  BY <1>1, <1>2, <1>3, <1>7 DEF StreamIInv, FinalProtocol
<1> QED
  BY <1>4, <1>5, <1>6, <1>8 DEF StreamIInv

(* The timer function sends only while it holds the lock, and no final     *)
(* image has come.                                                         *)
LEMMA TimerKeeps ==
  ASSUME StreamIInv, TimerFires \/ TimerLocks \/ TimerSends, timer # "panicked"
  PROVE  StreamIInv'
<1>1. CASE TimerFires \/ TimerLocks
  BY <1>1 DEF TimerFires, TimerLocks, StreamIInv, StreamTypeOK, TimerProtocol, ReaderProtocol,
              FinalProtocol, InOrder
<1>2. CASE TimerSends /\ events' = events
  BY <1>2 DEF TimerSends, StreamIInv, StreamTypeOK, TimerProtocol, ReaderProtocol,
              FinalProtocol, InOrder
<1>3. CASE TimerSends /\ events' # events
  <2>1. /\ events' = Append(events, "blocked") /\ timer' = "off" /\ mu' = "free"
        /\ timer = "sending" /\ Len(events) < Places
        /\ UNCHANGED <<reader, sending, hasMedium, hasFinal, doneCh, eventCh, ctxDone,
                       finalImage, consumer, finalSent>>
    BY <1>3 DEF TimerSends
  <2>2. /\ events \in Seq(Events) /\ Len(events) \in Nat /\ Places \in Nat /\ "blocked" \in Events
        /\ ~hasFinal /\ ~finalSent /\ ~finalImage
        /\ \A i \in DOMAIN events : events[i] # "final"
    BY <2>1, StreamAssumption DEF StreamIInv, StreamTypeOK, TimerProtocol, FinalProtocol, Events
  <2>3. /\ events' \in Seq(Events) /\ Len(events') = Len(events) + 1
        /\ \A i \in DOMAIN events' : i \in DOMAIN events \/ i = Len(events) + 1
        /\ \A i \in DOMAIN events : events'[i] = events[i]
        /\ events'[Len(events) + 1] = "blocked"
    BY <2>1, <2>2, Appended
  <2>4. \A i \in DOMAIN events' : events'[i] # "final"
    BY <2>2, <2>3
  <2>5. StreamTypeOK' /\ TimerProtocol' /\ ReaderProtocol'
    BY <2>1, <2>2, <2>3 DEF StreamIInv, StreamTypeOK, TimerProtocol, ReaderProtocol
  <2>6. FinalProtocol'
    BY <2>1, <2>2, <2>4 DEF StreamIInv, FinalProtocol, InOrder
  <2> QED
    BY <2>5, <2>6 DEF StreamIInv
<1> QED
  BY <1>1, <1>2, <1>3

(* The consumer takes the events in order.                                 *)
LEMMA ConsumerKeeps ==
  ASSUME StreamIInv, Receive \/ RangeEnds \/ CtxEnds
  PROVE  StreamIInv'
<1>1. CASE RangeEnds
  BY <1>1 DEF RangeEnds, StreamIInv, StreamTypeOK, TimerProtocol, ReaderProtocol,
              FinalProtocol, InOrder
<1>3. CASE CtxEnds
  BY <1>3 DEF CtxEnds, StreamIInv, StreamTypeOK, TimerProtocol, ReaderProtocol,
              FinalProtocol, InOrder
<1>2. CASE Receive
  <2>1. /\ events \in Seq(Events) /\ events # << >> /\ events' = Tail(events)
        /\ finalImage' = (finalImage \/ Head(events) = "final")
        /\ consumer' = IF Head(events) \in {"blocked", "error"} THEN Head(events) ELSE "ranging"
        /\ UNCHANGED <<reader, sending, mu, hasMedium, hasFinal, timer, doneCh, eventCh, ctxDone,
                       finalSent>>
    BY <1>2 DEF Receive, StreamIInv, StreamTypeOK
  <2>2. /\ events' \in Seq(Events) /\ Len(events') <= Len(events) /\ Head(events) = events[1]
        /\ 1 \in DOMAIN events
        /\ \A i \in DOMAIN events' : i > 0 /\ i + 1 \in DOMAIN events /\ events'[i] = events[i + 1]
    BY <2>1, Received
  <2>3. DOMAIN events' \subseteq Nat /\ Len(events) \in Nat /\ Len(events') \in Nat /\ Places \in Nat
    BY <2>1, <2>2, StreamAssumption
  <2>4. StreamTypeOK' /\ TimerProtocol' /\ ReaderProtocol'
    BY <2>1, <2>2, <2>3 DEF StreamIInv, StreamTypeOK, TimerProtocol, ReaderProtocol
  <2>5. InOrder(events')
    <3> SUFFICES ASSUME NEW i \in DOMAIN events', NEW j \in DOMAIN events', events'[i] = "final", i < j
                 PROVE  events'[j] # "blocked"
      BY DEF InOrder
    <3>1. i + 1 < j + 1
      BY <2>3
    <3> QED
      BY <2>2, <3>1 DEF StreamIInv, FinalProtocol, InOrder
  <2>6. Head(events) = "final" => \A i \in DOMAIN events' : events'[i] # "blocked"
    <3> SUFFICES ASSUME events[1] = "final", NEW i \in DOMAIN events' PROVE events'[i] # "blocked"
      BY <2>2
    <3>1. 1 < i + 1
      BY <2>2, <2>3
    <3> QED
      BY <2>2, <3>1 DEF StreamIInv, FinalProtocol, InOrder
  <2>7. Head(events) = "blocked" => ~finalImage'
    BY <2>1, <2>2 DEF StreamIInv, FinalProtocol
  <2>8. FinalProtocol'
    BY <2>1, <2>2, <2>5, <2>6, <2>7 DEF StreamIInv, FinalProtocol
  <2> QED
    BY <2>4, <2>8 DEF StreamIInv
<1> QED
  BY <1>1, <1>2, <1>3

(* Every step of the stream, and of the cache, keeps it.                   *)
LEMMA StreamInductive == StreamIInv /\ [Next]_allVars => StreamIInv'
<1> SUFFICES ASSUME StreamIInv, [Next]_allVars PROVE StreamIInv'
  OBVIOUS
<1>1. CASE StreamNext
  BY <1>1, ReaderStays, SendStep, TimerKeeps, ConsumerKeeps
  DEF StreamNext, ReaderStep, TimerStep, ConsumerStep
<1>2. CASE UNCHANGED imageVars
  BY <1>2 DEF imageVars, StreamIInv, StreamTypeOK, TimerProtocol, ReaderProtocol, FinalProtocol, InOrder
<1> QED
  BY <1>1, <1>2 DEF Next, allVars

(* The lock, the timer, the channel and the reader's stages agree in every *)
(* reachable state of the image stream.                                    *)
THEOREM StreamInvariant == Spec => []StreamIInv
<1>1. Init => StreamIInv
  BY StreamInitially DEF Init
<1> QED
  BY <1>1, StreamInductive, PTL DEF Spec

(* A consumer that has had its final image is never told the generation    *)
(* was blocked (the timer function of internal/xai checks hasFinal under   *)
(* the lock it holds while it sends).                                      *)
THEOREM NeverBlockedAfterFinal == Spec => []NoBlockAfterFinal
<1>1. StreamIInv => NoBlockAfterFinal
  BY DEF StreamIInv, FinalProtocol, InOrder, NoBlockAfterFinal
<1> QED
  BY <1>1, StreamInvariant, PTL

(* The byte count matches the disk, both parts keep their shape, and the   *)
(* late timer function ends the process only on a stream that has ended.   *)
THEOREM MediaIOHolds == Spec => []MediaIOInv
<1>1. CacheIInv => CacheTypeOK /\ CountMatchesDisk
  BY DEF CacheIInv
<1>2. StreamIInv => StreamTypeOK /\ PanicNeedsEndedStream
  BY DEF StreamIInv, TimerProtocol, PanicNeedsEndedStream
<1>3. CacheIInv /\ StreamIInv => MediaIOInv
  BY <1>1, <1>2 DEF MediaIOInv
<1> QED
  BY <1>3, CacheInvariant, StreamInvariant, PTL
=============================================================================
