---- MODULE StreamPipe_proofs ----
(***************************************************************************)
(* Theorems about the streaming response, for every set of answers and     *)
(* requests and every capacity of the two channels:                        *)
(*                                                                         *)
(*   PipeTypesHold       the shape of the state                            *)
(*   EndNamesCallsHolds  the finish reason says whether there was a call   *)
(*   TextAlwaysRewritten the text gets no more references to an upstream   *)
(*                       image once a downloader is there                  *)
(*   PipeInvHolds        think blocks do not nest, hold no content and are *)
(*                       closed at the end, if the answers are Labelled    *)
(*                                                                         *)
(* The first three follow from IInv: the types, EndNamesCalls itself, and  *)
(* Sent.  Sent says that what a stream has delivered is settled, that is,  *)
(* that no image has begun in it and not ended, and apart from what the    *)
(* gate keeps, that is, that no link goes on from the one into the other;  *)
(* without that a reference could be put together from the end of one      *)
(* piece and the start of the next, and TextIsRewritten would not follow   *)
(* from what a single step does.                                           *)
(*                                                                         *)
(* The last one needs BInv, that is IInv and two more parts.  Labels: on   *)
(* its way through the parsers content stays content and reasoning stays   *)
(* reasoning; the tag filter, which both pass, may hold a start tag of the *)
(* content that has begun (Tame) and drops it when it ends.  Marked: the   *)
(* text is a walk (Walk) from outside the blocks to where the gate's text  *)
(* begins, and the gate's text leads on to where the think writer stands.  *)
(*                                                                         *)
(* The parsers are loops (StreamText's Rounds, FoldLeft), so that most of  *)
(* what follows is one rule for each kind of loop, by induction over the   *)
(* natural numbers, and then what one round of each parser keeps.          *)
(***************************************************************************)
EXTENDS StreamPipe, SequenceTheorems, FiniteSetTheorems, WellFoundedInduction,
        TLAPS

(* Induction over the natural numbers, from the well-foundedness of <.     *)
LEMMA Induction ==
  ASSUME NEW S \in SUBSET Nat, 0 \in S, \A n \in S : n + 1 \in S
  PROVE  S = Nat
<1> SUFFICES ASSUME Nat \ S # {} PROVE FALSE
  OBVIOUS
<1> DEFINE LT == {p \in Nat \X Nat : p[1] < p[2]}
<1>1. IsWellFoundedOn(LT, Nat)
  BY NatLessThanWellFounded DEF OpToRel
<1> HIDE DEF LT
<1>2. PICK x \in Nat \ S : \A y \in Nat \ S : ~(<<y, x>> \in LT)
  BY <1>1, WFMin
<1>3. \A y \in Nat \ S : ~(y < x)
  BY <1>2 DEF LT
<1>4. x # 0 /\ x - 1 \in Nat /\ x - 1 < x
  OBVIOUS
<1>5. x - 1 \in S
  BY <1>3, <1>4
<1>6. (x - 1) + 1 = x
  BY <1>4
<1> QED
  BY <1>5, <1>6

(* A set of numbers has a least one. *)
LEMMA Least ==
  ASSUME NEW S \in SUBSET Nat, S # {}
  PROVE  Min(S) \in S /\ \A k \in S : Min(S) <= k
<1> DEFINE LT == {p \in Nat \X Nat : p[1] < p[2]}
<1>1. IsWellFoundedOn(LT, Nat)
  BY NatLessThanWellFounded DEF OpToRel
<1> HIDE DEF LT
<1>2. PICK x \in S : \A y \in S : ~(<<y, x>> \in LT)
  BY <1>1, WFMin
<1>3. \A y \in S : x \in Nat /\ y \in Nat /\ ~(y < x)
  BY <1>2 DEF LT
<1>4. \A y \in S : x <= y
  BY <1>3
<1>5. \E m \in S : \A y \in S : m <= y
  BY <1>4
<1> QED
  BY <1>5 DEF Min

(* What SMT knows of a piece of a sequence, as facts to cite. *)
LEMMA Piece ==
  ASSUME NEW X, NEW s \in Seq(X), NEW m \in Nat, m >= 1, NEW n \in Nat, n <= Len(s)
  PROVE  /\ SubSeq(s, m, n) \in Seq(X)
         /\ Len(SubSeq(s, m, n)) = IF m <= n THEN n - m + 1 ELSE 0
         /\ \A i \in 1..(n - m + 1) : SubSeq(s, m, n)[i] = s[m + i - 1]
OBVIOUS

(* The first symbols of a text. *)
LEMMA Prefix ==
  ASSUME NEW X, NEW s \in Seq(X), NEW n \in 0..Len(s)
  PROVE  /\ SubSeq(s, 1, n) \in Seq(X)
         /\ Len(SubSeq(s, 1, n)) = n
         /\ \A i \in 1..n : SubSeq(s, 1, n)[i] = s[i]
OBVIOUS

(* The last symbols of a text. *)
LEMMA Rest ==
  ASSUME NEW X, NEW s \in Seq(X), NEW m \in 1..(Len(s) + 1)
  PROVE  /\ SubSeq(s, m, Len(s)) \in Seq(X)
         /\ Len(SubSeq(s, m, Len(s))) = Len(s) - m + 1
         /\ \A i \in 1..(Len(s) - m + 1) : SubSeq(s, m, Len(s))[i] = s[m + i - 1]
OBVIOUS

(* One symbol of a text. *)
LEMMA One ==
  ASSUME NEW X, NEW s \in Seq(X), NEW m \in 1..Len(s)
  PROVE  SubSeq(s, m, m) = <<s[m]>>
<1> DEFINE t == SubSeq(s, m, m)
<1>1. t \in Seq(X) /\ Len(t) = 1 /\ \A i \in 1..1 : t[i] = s[m + i - 1]
  BY Piece
<1>2. t[1] = s[m]
  BY <1>1
<1> HIDE DEF t
<1>3. t = <<s[m]>>
  BY <1>1, <1>2
<1> QED
  BY <1>3 DEF t

-----------------------------------------------------------------------------
(* The tag <<"<", z>> begins at position k.  *)
TagAt(data, k, z) == k \in 1..(Len(data) - 1) /\ data[k] = "<" /\ data[k + 1] = z

(* Index finds the first place of a tag of two symbols, 0 when there is none. *)
LEMMA IndexFacts ==
  ASSUME NEW X, NEW data \in Seq(X), NEW z, NEW i, i = Index(data, <<"<", z>>)
  PROVE  /\ i \in Nat
         /\ i = 0 => \A k : ~TagAt(data, k, z)
         /\ i # 0 => TagAt(data, i, z) /\ \A k : TagAt(data, k, z) => i <= k
<1> DEFINE tag == <<"<", z>>
           at == {k \in 1..(Len(data) - Len(tag) + 1) : SubSeq(data, k, k + Len(tag) - 1) = tag}
<1>1. Len(tag) = 2 /\ tag[1] = "<" /\ tag[2] = z
  OBVIOUS
<1>2. Len(data) \in Nat
  OBVIOUS
<1>3. ASSUME NEW k \in 1..(Len(data) - 1)
      PROVE  k \in at <=> TagAt(data, k, z)
  <2> DEFINE s == SubSeq(data, k, k + 1)
  <2>1. s \in Seq(X) /\ Len(s) = 2 /\ s[1] = data[k] /\ s[2] = data[k + 1]
    <3>1. k \in Nat /\ k >= 1 /\ k + 1 \in Nat /\ k + 1 <= Len(data)
      BY <1>2
    <3>2. s \in Seq(X) /\ Len(s) = 2 /\ \A j \in 1..((k + 1) - k + 1) : s[j] = data[k + j - 1]
      BY <3>1, Piece
    <3> QED
      BY <3>2
  <2> HIDE DEF s
  <2>2. s = tag <=> s[1] = "<" /\ s[2] = z
    BY <2>1
  <2>3. k + Len(tag) - 1 = k + 1 /\ Len(data) - Len(tag) + 1 = Len(data) - 1
    BY <1>1, <1>2
  <2>4. SubSeq(data, k, k + Len(tag) - 1) = s
    BY <2>3 DEF s
  <2>5. k \in at <=> s = tag
    BY <2>3, <2>4
  <2> QED
    BY <2>1, <2>2, <2>5 DEF TagAt
<1>4. at \in SUBSET (Nat \ {0}) /\ \A k : k \in at <=> TagAt(data, k, z)
  BY <1>1, <1>2, <1>3 DEF TagAt
<1>5. i = IF at = {} THEN 0 ELSE Min(at)
  BY DEF Index
<1> HIDE DEF at
<1>6. at # {} => Min(at) \in at /\ Min(at) # 0 /\ Min(at) \in Nat /\ \A k \in at : Min(at) <= k
  BY <1>4, Least
<1> HIDE DEF TagAt
<1>7. CASE at = {}
  BY <1>4, <1>5, <1>7
<1>8. CASE at # {}
  <2>1. i \in at /\ i # 0 /\ i \in Nat /\ \A k \in at : i <= k
    BY <1>5, <1>6, <1>8
  <2> QED
    BY <1>4, <2>1
<1> QED
  BY <1>7, <1>8

(* The end of an opening tag: a tag of one symbol. *)
LEMMA IndexOne ==
  ASSUME NEW X, NEW data \in Seq(X), NEW z, NEW i, i = Index(data, <<z>>)
  PROVE  /\ i \in Nat
         /\ i = 0 => \A k \in 1..Len(data) : data[k] # z
         /\ i # 0 => i \in 1..Len(data) /\ data[i] = z /\ \A k \in 1..(i - 1) : data[k] # z
<1> DEFINE at == {k \in 1..(Len(data) - Len(<<z>>) + 1) : SubSeq(data, k, k + Len(<<z>>) - 1) = <<z>>}
<1>1. Len(<<z>>) = 1
  OBVIOUS
<1>2. Len(data) \in Nat
  OBVIOUS
<1>3. ASSUME NEW k \in 1..Len(data)
      PROVE  k \in at <=> data[k] = z
  <2>1. SubSeq(data, k, k) = <<data[k]>>
    BY One
  <2>2. k + Len(<<z>>) - 1 = k /\ Len(data) - Len(<<z>>) + 1 = Len(data)
    BY <1>1, <1>2
  <2>3. k \in at <=> <<data[k]>> = <<z>>
    BY <2>1, <2>2
  <2> QED
    BY <2>3
<1>4. at \in SUBSET (Nat \ {0}) /\ at \subseteq 1..Len(data) /\ \A k \in 1..Len(data) : k \in at <=> data[k] = z
  BY <1>1, <1>2, <1>3
<1>5. i = IF at = {} THEN 0 ELSE Min(at)
  BY DEF Index
<1> HIDE DEF at
<1>6. at # {} => Min(at) \in at /\ Min(at) # 0 /\ Min(at) \in Nat /\ \A k \in at : Min(at) <= k
  BY <1>4, Least
<1>7. CASE at = {}
  BY <1>4, <1>5, <1>7
<1>8. CASE at # {}
  <2>1. i \in at /\ i # 0 /\ i \in Nat /\ \A k \in at : i <= k
    BY <1>5, <1>6, <1>8
  <2>2. i \in 1..Len(data) /\ data[i] = z
    BY <1>4, <2>1
  <2>3. ASSUME NEW k \in 1..(i - 1) PROVE data[k] # z
    <3>1. k \in 1..Len(data) /\ ~(i <= k)
      BY <2>1, <2>2, <1>2
    <3> QED
      BY <1>4, <2>1, <3>1
  <2> QED
    BY <2>1, <2>2, <2>3
<1> QED
  BY <1>7, <1>8

(* The text may end in the beginning of a tag. *)
EndsOpen(data) == data # <<>> /\ data[Len(data)] = "<"

(* Of a tag of two symbols a text can end in none or in the first. *)
LEMMA SuffixIs ==
  ASSUME NEW X, NEW data \in Seq(X), NEW y, NEW z
  PROVE  SuffixPrefixLength(data, <<y, z>>) = IF data # <<>> /\ data[Len(data)] = y THEN 1 ELSE 0
<1> DEFINE tag == <<y, z>>
           L == SuffixPrefixLength(data, tag)
           ns == {n \in 1..(Len(tag) - 1) : IsSuffix(SubSeq(tag, 1, n), data)}
           ends == data # <<>> /\ data[Len(data)] = y
<1>1. SubSeq(tag, 1, 1) = <<y>> /\ Len(tag) = 2
  <2>1. tag \in Seq({y, z}) /\ Len(tag) = 2 /\ tag[1] = y
    OBVIOUS
  <2> HIDE DEF tag
  <2>2. 1 \in 1..Len(tag)
    BY <2>1
  <2>3. PICK Y : Y = {y, z}
    OBVIOUS
  <2>4. tag \in Seq(Y)
    BY <2>1, <2>3
  <2>5. SubSeq(tag, 1, 1) = <<tag[1]>>
    BY <2>2, <2>4, One
  <2> QED
    BY <2>1, <2>5
<1>2. Reverse(<<y>>) = <<y>>
  BY DEF Reverse
<1>3. Len(Reverse(data)) = Len(data) /\ Reverse(data) \in Seq(X) /\ (data # <<>> => Reverse(data)[1] = data[Len(data)])
  <2>1. Reverse(data) = [i \in 1..Len(data) |-> data[(Len(data) - i) + 1]]
    BY DEF Reverse
  <2>2. \A i \in 1..Len(data) : data[(Len(data) - i) + 1] \in X
    OBVIOUS
  <2>3. Reverse(data) \in Seq(X)
    BY <2>1, <2>2, IsASeq
  <2> QED
    BY <2>1, <2>3
<1>4. IsSuffix(<<y>>, data) <=> ends
  <2> DEFINE r == Reverse(data)
  <2>1. IsSuffix(<<y>>, data) <=> 1 <= Len(r) /\ SubSeq(<<y>>, 1, 1) = SubSeq(r, 1, 1)
    BY <1>2 DEF IsSuffix, IsPrefix
  <2>2. SubSeq(<<y>>, 1, 1) = <<y>>
    BY SubSeqFull, <<y>> \in Seq({y}), Len(<<y>>) = 1
  <2>3. ASSUME 1 <= Len(r) PROVE SubSeq(r, 1, 1) = <<r[1]>>
    <3>1. r \in Seq(X)
      BY <1>3
    <3> HIDE DEF r
    <3> QED
      BY <2>3, <3>1, One
  <2>4. data # <<>> <=> 1 <= Len(data)
    OBVIOUS
  <2> QED
    BY <2>1, <2>2, <2>3, <2>4, <1>3
<1>5. ns = IF ends THEN {1} ELSE {}
  <2>1. 1..(Len(tag) - 1) = {1}
    BY <1>1
  <2>2. ns = {n \in {1} : IsSuffix(SubSeq(tag, 1, n), data)}
    BY <2>1
  <2>3. IsSuffix(SubSeq(tag, 1, 1), data) <=> ends
    BY <1>1, <1>4
  <2> HIDE DEF tag, ends
  <2> QED
    BY <2>2, <2>3
<1>6. L = Max({0} \cup ns)
  BY DEF SuffixPrefixLength
<1>7. Max({0}) = 0
  BY DEF Max
<1>8. Max({0} \cup {1}) = 1
  BY DEF Max
<1>9. {0} \cup {} = {0}
  OBVIOUS
<1>10. L = IF ends THEN 1 ELSE 0
  <2> HIDE DEF ns, L, ends
  <2> QED
    BY <1>5, <1>6, <1>7, <1>8, <1>9
<1> QED
  BY <1>10

(* What may be the beginning of such a tag is the "<" a text ends in, if it does. *)
LEMMA CarryFacts ==
  ASSUME NEW X, NEW data \in Seq(X), NEW z
  PROVE  /\ Carry(data, <<"<", z>>) = IF EndsOpen(data) THEN <<"<">> ELSE <<>>
         /\ Clean(data, <<"<", z>>) = IF EndsOpen(data) THEN SubSeq(data, 1, Len(data) - 1) ELSE data
<1> DEFINE tag == <<"<", z>>
           L == SuffixPrefixLength(data, tag)
<1>6. L = IF EndsOpen(data) THEN 1 ELSE 0
  BY SuffixIs DEF EndsOpen
<1>7. Carry(data, tag) = SubSeq(data, Len(data) - L + 1, Len(data)) /\ Clean(data, tag) = SubSeq(data, 1, Len(data) - L)
  BY DEF Carry, Clean
<1> HIDE DEF L
<1>8. CASE EndsOpen(data)
  <2>1. Len(data) \in Nat \ {0} /\ data[Len(data)] = "<" /\ L = 1
    BY <1>8, <1>6 DEF EndsOpen
  <2>2. Carry(data, tag) = SubSeq(data, Len(data), Len(data))
    BY <1>7, <2>1
  <2>3. SubSeq(data, Len(data), Len(data)) = <<"<">>
    BY <2>1, One
  <2> QED
    BY <1>7, <1>8, <2>1, <2>2, <2>3
<1>9. CASE ~EndsOpen(data)
  <2>1. L = 0 /\ Len(data) \in Nat
    BY <1>6, <1>9
  <2>2. SubSeq(data, Len(data) + 1, Len(data)) = <<>>
    BY <2>1, SubSeqEmpty
  <2>3. SubSeq(data, 1, Len(data)) = data
    BY SubSeqFull
  <2> QED
    BY <1>7, <1>9, <2>1, <2>2, <2>3
<1> QED
  BY <1>8, <1>9

(* A recursion over 1..n, by the steps of h from a, has a solution in A.   *)
Steps(h, n, A) == \A i \in 1..n : \A q \in A : h[<<i, q>>] \in A
Solves(g, h, n, A, a) ==
  g \in [0..n -> A] /\ g[0] = a /\ \A i \in 1..n : g[i] = h[<<i, g[i - 1]>>]

(* Such a recursion has a solution. *)
LEMMA Recursion ==
  ASSUME NEW n \in Nat, NEW A, NEW a \in A, NEW h, Steps(h, n, A)
  PROVE  \E g : Solves(g, h, n, A, a)
<1> USE DEF Steps, Solves
<1> DEFINE Upto(m) == \E g \in [0..n -> A] :
                        g[0] = a /\ \A i \in 1..n : i <= m => g[i] = h[<<i, g[i - 1]>>]
           S == {m \in Nat : Upto(m)}
<1>1. 0 \in S
  <2>1. PICK g \in [0..n -> A] : g = [i \in 0..n |-> a]
    OBVIOUS
  <2>2. g[0] = a /\ \A i \in 1..n : i <= 0 => g[i] = h[<<i, g[i - 1]>>]
    BY <2>1
  <2> QED
    BY <2>2
<1>2. \A m \in S : m + 1 \in S
  <2> TAKE m \in S
  <2>1. PICK g \in [0..n -> A] : g[0] = a /\ \A i \in 1..n : i <= m => g[i] = h[<<i, g[i - 1]>>]
    OBVIOUS
  <2>2. CASE m + 1 \in 1..n
    <3> DEFINE v == h[<<m + 1, g[m]>>]
    <3>1. m \in 0..n /\ v \in A
      <4>1. m \in 0..n
        BY <2>2
      <4>2. g[m] \in A
        BY <4>1
      <4> QED
        BY <2>2, <4>1, <4>2
    <3>2. PICK w \in A : w = v
      BY <3>1
    <3> HIDE DEF v
    <3>3. PICK k \in [0..n -> A] : k = [g EXCEPT ![m + 1] = w]
      BY <2>1
    <3>4. k[m + 1] = w /\ \A i \in 0..n : i # m + 1 => k[i] = g[i]
      BY <3>3, <2>2
    <3>5. k[0] = a
      BY <3>4, <2>1, <2>2
    <3>6. \A i \in 1..n : i <= m + 1 => k[i] = h[<<i, k[i - 1]>>]
      <4> TAKE i \in 1..n
      <4>1. CASE i = m + 1
        <5>1. i - 1 = m /\ k[m] = g[m] /\ k[i] = w
          BY <4>1, <3>1, <3>4
        <5>2. w = h[<<m + 1, g[m]>>]
          BY <3>2 DEF v
        <5> QED
          BY <4>1, <5>1, <5>2
      <4>2. CASE i <= m
        BY <4>2, <3>4, <2>1
      <4> QED
        BY <4>1, <4>2
    <3>7. Upto(m + 1)
      BY <3>5, <3>6, Zenon
    <3> QED
      BY <3>7
  <2>3. CASE m + 1 \notin 1..n
    <3>1. \A i \in 1..n : i <= m + 1 => i <= m
      BY <2>3
    <3>2. \A i \in 1..n : i <= m + 1 => g[i] = h[<<i, g[i - 1]>>]
      BY <3>1, <2>1
    <3> QED
      BY <2>1, <3>2
  <2> QED
    BY <2>2, <2>3
<1> HIDE DEF S
<1>3. S \in SUBSET Nat
  BY DEF S
<1>4. S = Nat
  BY <1>1, <1>2, <1>3, Induction
<1>5. Upto(n)
  BY <1>4 DEF S
<1> QED
  BY <1>5

(* What each step of a recursion keeps, its last value has. *)
LEMMA Kept ==
  ASSUME NEW n \in Nat, NEW f, NEW S, <<0, f[0]>> \in S,
         \A i \in 1..n : <<i - 1, f[i - 1]>> \in S => <<i, f[i]>> \in S
  PROVE  \A i \in 0..n : <<i, f[i]>> \in S
<1> DEFINE N == {m \in Nat : m <= n => <<m, f[m]>> \in S}
<1>1. 0 \in N
  OBVIOUS
<1>2. \A m \in N : m + 1 \in N
  <2> TAKE m \in N
  <2> SUFFICES ASSUME m + 1 <= n PROVE <<m + 1, f[m + 1]>> \in S
    OBVIOUS
  <2>1. m + 1 \in 1..n /\ (m + 1) - 1 = m /\ m <= n
    OBVIOUS
  <2>2. <<m, f[m]>> \in S
    BY <2>1
  <2>3. <<(m + 1) - 1, f[(m + 1) - 1]>> \in S
    BY <2>1, <2>2
  <2> QED
    BY <2>1, <2>3
<1> HIDE DEF N
<1>3. N = Nat
  <2>1. N \in SUBSET Nat
    BY DEF N
  <2> QED
    BY <1>1, <1>2, <2>1, Induction
<1> QED
  BY <1>3 DEF N

-----------------------------------------------------------------------------
(* The parsers' loops.  A round takes an accumulator to the next. *)

Began(p, chunk) == [p |-> [p EXCEPT !.part = <<>>], data |-> p.part \o chunk,
                    out |-> <<>>, calls |-> <<>>]
ToolRound(acc) == IF acc.p.in THEN ToolBlock(acc) ELSE ToolText(acc)
CardRound(acc) == IF acc.p.in THEN CardBlock(acc) ELSE CardText(acc)
DropRound(acc) == IF acc.p.in THEN DropBlock(acc) ELSE DropText(acc)

(* What every round keeps: R is the round as a function on S. *)
Rounds(S, R) ==
  /\ R \in [S -> S]
  /\ \A a \in S : a.data \in Seq(Symbols)
  /\ \A a \in S : a.data # <<>> => Len(R[a].data) < Len(a.data)

(* The loop of such rounds is defined. *)
LEMMA RoundsExist ==
  ASSUME NEW S, NEW R, Rounds(S, R), NEW b \in S
  PROVE  \E g \in [0..Len(b.data) -> S] :
            /\ g[0] = b
            /\ \A i \in 1..Len(b.data) :
                 g[i] = IF g[i - 1].data = <<>> THEN g[i - 1] ELSE R[g[i - 1]]
<1>1. PICK n \in Nat : n = Len(b.data)
  BY DEF Rounds
<1> DEFINE h == [q \in (1..n) \X S |-> IF q[2].data = <<>> THEN q[2] ELSE R[q[2]]]
<1>2. \A i \in 1..n : \A q \in S : h[<<i, q>>] = IF q.data = <<>> THEN q ELSE R[q]
  OBVIOUS
<1>3. \A q \in S : R[q] \in S
  BY DEF Rounds
<1>4. \A i \in 1..n : \A q \in S : h[<<i, q>>] \in S
  BY <1>2, <1>3
<1> HIDE DEF h
<1>5. PICK g : Solves(g, h, n, S, b)
  BY <1>4, Recursion DEF Steps
<1>6. ASSUME NEW i \in 1..n
      PROVE  g[i] = IF g[i - 1].data = <<>> THEN g[i - 1] ELSE R[g[i - 1]]
  <2>1. i - 1 \in 0..n /\ g \in [0..n -> S] /\ g[i] = h[<<i, g[i - 1]>>]
    BY <1>5 DEF Solves
  <2>2. g[i - 1] \in S
    BY <2>1
  <2> QED
    BY <1>2, <2>1, <2>2
<1>7. g \in [0..n -> S] /\ g[0] = b
  BY <1>5 DEF Solves
<1> QED
  BY <1>1, <1>6, <1>7

(* It ends in the set it runs in, with nothing left to read: each round reads at least one symbol. *)
LEMMA RoundsEnd ==
  ASSUME NEW S, NEW R, Rounds(S, R), NEW b \in S, NEW f, f[0] = b,
         \A i \in 1..Len(b.data) : f[i - 1] \in S =>
            f[i] = IF f[i - 1].data = <<>> THEN f[i - 1] ELSE R[f[i - 1]]
  PROVE  f[Len(b.data)] \in S /\ f[Len(b.data)].data = <<>>
<1>1. PICK n \in Nat : n = Len(b.data)
  BY DEF Rounds
<1> DEFINE T == {q \in Nat \X S : Len(q[2].data) <= n - q[1]}
<1>2. <<0, f[0]>> \in T
  BY <1>1
<1>3. ASSUME NEW i \in 1..n, <<i - 1, f[i - 1]>> \in T
      PROVE  <<i, f[i]>> \in T
  <2>1. f[i - 1] \in S /\ Len(f[i - 1].data) <= n - (i - 1)
    BY <1>3
  <2>2. f[i - 1].data \in Seq(Symbols)
    BY <2>1 DEF Rounds
  <2>3. CASE f[i - 1].data = <<>>
    <3>1. f[i] = f[i - 1]
      BY <1>1, <2>1, <2>3
    <3>2. Len(f[i].data) = 0
      BY <3>1, <2>3
    <3> QED
      BY <2>1, <3>1, <3>2
  <2>4. CASE f[i - 1].data # <<>>
    <3>1. f[i] = R[f[i - 1]]
      BY <1>1, <2>1, <2>4
    <3>2. f[i] \in S /\ Len(f[i].data) < Len(f[i - 1].data)
      BY <2>1, <2>4, <3>1 DEF Rounds
    <3>3. Len(f[i].data) \in Nat /\ Len(f[i - 1].data) \in Nat
      BY <2>2, <3>2 DEF Rounds
    <3> QED
      BY <2>1, <3>2, <3>3
  <2> QED
    BY <2>3, <2>4
<1> HIDE DEF T
<1>4. \A i \in 0..n : <<i, f[i]>> \in T
  BY <1>2, <1>3, Kept
<1>5. <<n, f[n]>> \in T
  BY <1>4
<1>6. f[n] \in S /\ Len(f[n].data) <= 0
  BY <1>5 DEF T
<1>7. f[n].data \in Seq(Symbols)
  BY <1>6 DEF Rounds
<1> QED
  BY <1>1, <1>6, <1>7

(* A choice from one value. *)
LEMMA Only == \A v : (CHOOSE r \in {v} : TRUE) = v
OBVIOUS

(* What every round of the tool-call parser keeps, the push of a chunk returns. *)
LEMMA ToolLoop ==
  ASSUME NEW p, NEW chunk, NEW S, NEW R, Rounds(S, R), Began(p, chunk) \in S,
         \A a \in S : a.data # <<>> => R[a] = ToolRound(a)
  PROVE  PushTool(p, chunk) \in S /\ PushTool(p, chunk).data = <<>>
<1>1. PICK b \in S : b = Began(p, chunk)
  OBVIOUS
<1>2. PICK n \in Nat : n = Len(b.data)
  BY DEF Rounds
<1> DEFINE Eq(g) == g = [i \in 0..n |-> IF i = 0 THEN b
                     ELSE Bind(g[i - 1], LAMBDA acc : IF acc.data = <<>> THEN acc ELSE ToolRound(acc))]
           Next1(a) == IF a.data = <<>> THEN a ELSE ToolRound(a)
<1>3. PushTool(p, chunk) = (CHOOSE g : Eq(g))[n]
  <2> DEFINE Sol(c) == (CHOOSE g : g = [i \in 0..Len(c.data) |-> IF i = 0 THEN c
            ELSE Bind(g[i - 1], LAMBDA acc : IF acc.data = <<>> THEN acc ELSE ToolRound(acc))])[Len(c.data)]
  <2>1. PushTool(p, chunk) = Bind(Began(p, chunk), LAMBDA c : Sol(c))
    BY Zenon DEF PushTool, Scanning, Loop, ToolRound, Began
  <2>2. Sol(b) = (CHOOSE g : Eq(g))[n]
    BY <1>2
  <2> HIDE DEF Sol
  <2>3. PushTool(p, chunk) = Sol(b)
    BY <1>1, <2>1, Only DEF Bind
  <2> QED
    BY <2>2, <2>3
<1>4. \A g : Eq(g) <=> g = [i \in 0..n |-> IF i = 0 THEN b ELSE Next1(g[i - 1])]
  BY Only DEF Bind
<1>5. PICK g \in [0..n -> S] :
         g[0] = b /\ \A i \in 1..n : g[i] = IF g[i - 1].data = <<>> THEN g[i - 1] ELSE R[g[i - 1]]
  BY <1>2, RoundsExist
<1>6. \A i \in 0..n : g[i] = IF i = 0 THEN b ELSE Next1(g[i - 1])
  <2> TAKE i \in 0..n
  <2>1. CASE i = 0
    BY <2>1, <1>5
  <2>2. CASE i # 0
    <3>1. i \in 1..n /\ g[i - 1] \in S
      BY <2>2, <1>5
    <3> QED
      BY <2>2, <3>1, <1>5
  <2> QED
    BY <2>1, <2>2
<1> HIDE DEF Next1
<1>7. Eq(g)
  <2>1. g = [i \in 0..n |-> IF i = 0 THEN b ELSE Next1(g[i - 1])]
    BY <1>5, <1>6
  <2> HIDE DEF Eq
  <2> QED
    BY <1>4, <2>1
<1> HIDE DEF Eq
<1>8. PICK f : f = CHOOSE k : Eq(k)
  OBVIOUS
<1>9. Eq(f)
  BY <1>7, <1>8
<1>10. f = [i \in 0..n |-> IF i = 0 THEN b ELSE Next1(f[i - 1])]
  BY <1>4, <1>9
<1>11. f[0] = b /\ \A i \in 1..n : f[i] = Next1(f[i - 1])
  <2>1. ASSUME NEW i \in 0..n PROVE f[i] = IF i = 0 THEN b ELSE Next1(f[i - 1])
    BY <1>10
  <2> QED
    BY <2>1
<1>12. \A i \in 1..n : f[i - 1] \in S =>
          f[i] = IF f[i - 1].data = <<>> THEN f[i - 1] ELSE R[f[i - 1]]
  BY <1>11 DEF Next1
<1>13. f[n] \in S /\ f[n].data = <<>>
  BY <1>2, <1>11, <1>12, RoundsEnd
<1> QED
  BY <1>3, <1>8, <1>13

(* The same for the card parser. *)
LEMMA CardLoop ==
  ASSUME NEW p, NEW chunk, NEW S, NEW R, Rounds(S, R), Began(p, chunk) \in S,
         \A a \in S : a.data # <<>> => R[a] = CardRound(a)
  PROVE  PushCard(p, chunk) \in S /\ PushCard(p, chunk).data = <<>>
<1>1. PICK b \in S : b = Began(p, chunk)
  OBVIOUS
<1>2. PICK n \in Nat : n = Len(b.data)
  BY DEF Rounds
<1> DEFINE Eq(g) == g = [i \in 0..n |-> IF i = 0 THEN b
                     ELSE Bind(g[i - 1], LAMBDA acc : IF acc.data = <<>> THEN acc ELSE CardRound(acc))]
           Next1(a) == IF a.data = <<>> THEN a ELSE CardRound(a)
<1>3. PushCard(p, chunk) = (CHOOSE g : Eq(g))[n]
  <2> DEFINE Sol(c) == (CHOOSE g : g = [i \in 0..Len(c.data) |-> IF i = 0 THEN c
            ELSE Bind(g[i - 1], LAMBDA acc : IF acc.data = <<>> THEN acc ELSE CardRound(acc))])[Len(c.data)]
  <2>1. PushCard(p, chunk) = Bind(Began(p, chunk), LAMBDA c : Sol(c))
    BY Zenon DEF PushCard, Scanning, Loop, CardRound, Began
  <2>2. Sol(b) = (CHOOSE g : Eq(g))[n]
    BY <1>2
  <2> HIDE DEF Sol
  <2>3. PushCard(p, chunk) = Sol(b)
    BY <1>1, <2>1, Only DEF Bind
  <2> QED
    BY <2>2, <2>3
<1>4. \A g : Eq(g) <=> g = [i \in 0..n |-> IF i = 0 THEN b ELSE Next1(g[i - 1])]
  BY Only DEF Bind
<1>5. PICK g \in [0..n -> S] :
         g[0] = b /\ \A i \in 1..n : g[i] = IF g[i - 1].data = <<>> THEN g[i - 1] ELSE R[g[i - 1]]
  BY <1>2, RoundsExist
<1>6. \A i \in 0..n : g[i] = IF i = 0 THEN b ELSE Next1(g[i - 1])
  <2> TAKE i \in 0..n
  <2>1. CASE i = 0
    BY <2>1, <1>5
  <2>2. CASE i # 0
    <3>1. i \in 1..n /\ g[i - 1] \in S
      BY <2>2, <1>5
    <3> QED
      BY <2>2, <3>1, <1>5
  <2> QED
    BY <2>1, <2>2
<1> HIDE DEF Next1
<1>7. Eq(g)
  <2>1. g = [i \in 0..n |-> IF i = 0 THEN b ELSE Next1(g[i - 1])]
    BY <1>5, <1>6
  <2> HIDE DEF Eq
  <2> QED
    BY <1>4, <2>1
<1> HIDE DEF Eq
<1>8. PICK f : f = CHOOSE k : Eq(k)
  OBVIOUS
<1>9. Eq(f)
  BY <1>7, <1>8
<1>10. f = [i \in 0..n |-> IF i = 0 THEN b ELSE Next1(f[i - 1])]
  BY <1>4, <1>9
<1>11. f[0] = b /\ \A i \in 1..n : f[i] = Next1(f[i - 1])
  <2>1. ASSUME NEW i \in 0..n PROVE f[i] = IF i = 0 THEN b ELSE Next1(f[i - 1])
    BY <1>10
  <2> QED
    BY <2>1
<1>12. \A i \in 1..n : f[i - 1] \in S =>
          f[i] = IF f[i - 1].data = <<>> THEN f[i - 1] ELSE R[f[i - 1]]
  BY <1>11 DEF Next1
<1>13. f[n] \in S /\ f[n].data = <<>>
  BY <1>2, <1>11, <1>12, RoundsEnd
<1> QED
  BY <1>3, <1>8, <1>13

(* The same for the tag filter. *)
LEMMA DropLoop ==
  ASSUME NEW p, NEW chunk, NEW S, NEW R, Rounds(S, R), Began(p, chunk) \in S,
         \A a \in S : a.data # <<>> => R[a] = DropRound(a)
  PROVE  PushDrop(p, chunk) \in S /\ PushDrop(p, chunk).data = <<>>
<1>1. PICK b \in S : b = Began(p, chunk)
  OBVIOUS
<1>2. PICK n \in Nat : n = Len(b.data)
  BY DEF Rounds
<1> DEFINE Eq(g) == g = [i \in 0..n |-> IF i = 0 THEN b
                     ELSE Bind(g[i - 1], LAMBDA acc : IF acc.data = <<>> THEN acc ELSE DropRound(acc))]
           Next1(a) == IF a.data = <<>> THEN a ELSE DropRound(a)
<1>3. PushDrop(p, chunk) = (CHOOSE g : Eq(g))[n]
  <2> DEFINE Sol(c) == (CHOOSE g : g = [i \in 0..Len(c.data) |-> IF i = 0 THEN c
            ELSE Bind(g[i - 1], LAMBDA acc : IF acc.data = <<>> THEN acc ELSE DropRound(acc))])[Len(c.data)]
  <2>1. PushDrop(p, chunk) = Bind(Began(p, chunk), LAMBDA c : Sol(c))
    BY Zenon DEF PushDrop, Scanning, Loop, DropRound, Began
  <2>2. Sol(b) = (CHOOSE g : Eq(g))[n]
    BY <1>2
  <2> HIDE DEF Sol
  <2>3. PushDrop(p, chunk) = Sol(b)
    BY <1>1, <2>1, Only DEF Bind
  <2> QED
    BY <2>2, <2>3
<1>4. \A g : Eq(g) <=> g = [i \in 0..n |-> IF i = 0 THEN b ELSE Next1(g[i - 1])]
  BY Only DEF Bind
<1>5. PICK g \in [0..n -> S] :
         g[0] = b /\ \A i \in 1..n : g[i] = IF g[i - 1].data = <<>> THEN g[i - 1] ELSE R[g[i - 1]]
  BY <1>2, RoundsExist
<1>6. \A i \in 0..n : g[i] = IF i = 0 THEN b ELSE Next1(g[i - 1])
  <2> TAKE i \in 0..n
  <2>1. CASE i = 0
    BY <2>1, <1>5
  <2>2. CASE i # 0
    <3>1. i \in 1..n /\ g[i - 1] \in S
      BY <2>2, <1>5
    <3> QED
      BY <2>2, <3>1, <1>5
  <2> QED
    BY <2>1, <2>2
<1> HIDE DEF Next1
<1>7. Eq(g)
  <2>1. g = [i \in 0..n |-> IF i = 0 THEN b ELSE Next1(g[i - 1])]
    BY <1>5, <1>6
  <2> HIDE DEF Eq
  <2> QED
    BY <1>4, <2>1
<1> HIDE DEF Eq
<1>8. PICK f : f = CHOOSE k : Eq(k)
  OBVIOUS
<1>9. Eq(f)
  BY <1>7, <1>8
<1>10. f = [i \in 0..n |-> IF i = 0 THEN b ELSE Next1(f[i - 1])]
  BY <1>4, <1>9
<1>11. f[0] = b /\ \A i \in 1..n : f[i] = Next1(f[i - 1])
  <2>1. ASSUME NEW i \in 0..n PROVE f[i] = IF i = 0 THEN b ELSE Next1(f[i - 1])
    BY <1>10
  <2> QED
    BY <2>1
<1>12. \A i \in 1..n : f[i - 1] \in S =>
          f[i] = IF f[i - 1].data = <<>> THEN f[i - 1] ELSE R[f[i - 1]]
  BY <1>11 DEF Next1
<1>13. f[n] \in S /\ f[n].data = <<>>
  BY <1>2, <1>11, <1>12, RoundsEnd
<1> QED
  BY <1>3, <1>8, <1>13

(* A parser and an accumulator over the alphabet A. *)
ParserOf(A) == [in : BOOLEAN, part : Seq(A), buf : Seq(A), next : Nat]
AccOf(A) == [p : ParserOf(A), data : Seq(A), out : Seq(A), calls : Seq(Calls)]

(* A text before, after and without the carry of a tag. *)
LEMMA CutFacts ==
  ASSUME NEW A, NEW data \in Seq(A), NEW z, NEW k, TagAt(data, k, z)
  PROVE  /\ Before(data, k) \in Seq(A) /\ Len(Before(data, k)) = k - 1
         /\ \A i \in 1..(k - 1) : Before(data, k)[i] = data[i]
         /\ After(data, k, <<"<", z>>) \in Seq(A)
         /\ Len(After(data, k, <<"<", z>>)) = Len(data) - k - 1
         /\ \A i \in 1..(Len(data) - k - 1) : After(data, k, <<"<", z>>)[i] = data[k + 1 + i]
<1>1. k \in Nat /\ k >= 1 /\ k + 1 <= Len(data) /\ Len(data) \in Nat
  BY DEF TagAt
<1>2. Before(data, k) = SubSeq(data, 1, k - 1)
  BY DEF Before
<1>3. After(data, k, <<"<", z>>) = SubSeq(data, k + 2, Len(data))
  <2>1. Len(<<"<", z>>) = 2
    OBVIOUS
  <2> QED
    BY <2>1 DEF After
<1>4. /\ SubSeq(data, 1, k - 1) \in Seq(A)
      /\ Len(SubSeq(data, 1, k - 1)) = k - 1
      /\ \A i \in 1..(k - 1) : SubSeq(data, 1, k - 1)[i] = data[i]
  BY <1>1, Prefix
<1>5. /\ SubSeq(data, k + 2, Len(data)) \in Seq(A)
      /\ Len(SubSeq(data, k + 2, Len(data))) = Len(data) - (k + 2) + 1
      /\ \A i \in 1..(Len(data) - (k + 2) + 1) : SubSeq(data, k + 2, Len(data))[i] = data[k + 2 + i - 1]
  BY <1>1, Rest
<1>6. Len(SubSeq(data, k + 2, Len(data))) = Len(data) - k - 1
  BY <1>1, <1>5
<1>7. ASSUME NEW i \in 1..(Len(data) - k - 1)
      PROVE  SubSeq(data, k + 2, Len(data))[i] = data[k + 1 + i]
  <2>1. k + 2 + i - 1 = k + 1 + i /\ Len(data) - (k + 2) + 1 = Len(data) - k - 1
    BY <1>1
  <2> QED
    BY <1>5, <2>1
<1> QED
  BY <1>2, <1>3, <1>4, <1>5, <1>6, <1>7

(* A text without what may be the beginning of a tag, and that beginning. *)
LEMMA CleanFacts ==
  ASSUME NEW A, "<" \in A, NEW data \in Seq(A), NEW z
  PROVE  /\ Carry(data, <<"<", z>>) \in {<<>>, <<"<">>} /\ Carry(data, <<"<", z>>) \in Seq({"<"})
         /\ Carry(data, <<"<", z>>) \in Seq(A)
         /\ Carry(data, <<"<", z>>) = IF EndsOpen(data) THEN <<"<">> ELSE <<>>
         /\ Clean(data, <<"<", z>>) \in Seq(A)
         /\ Len(Clean(data, <<"<", z>>)) = IF EndsOpen(data) THEN Len(data) - 1 ELSE Len(data)
         /\ \A i \in 1..Len(Clean(data, <<"<", z>>)) : i <= Len(data) /\ Clean(data, <<"<", z>>)[i] = data[i]
<1>1. /\ Carry(data, <<"<", z>>) = IF EndsOpen(data) THEN <<"<">> ELSE <<>>
      /\ Clean(data, <<"<", z>>) = IF EndsOpen(data) THEN SubSeq(data, 1, Len(data) - 1) ELSE data
  BY CarryFacts
<1>2. <<>> \in Seq(A) /\ <<"<">> \in Seq(A) /\ <<>> \in Seq({"<"}) /\ <<"<">> \in Seq({"<"})
  OBVIOUS
<1>3. CASE EndsOpen(data)
  <2>1. Len(data) \in Nat /\ Len(data) >= 1
    BY <1>3 DEF EndsOpen
  <2>2. /\ SubSeq(data, 1, Len(data) - 1) \in Seq(A)
        /\ Len(SubSeq(data, 1, Len(data) - 1)) = Len(data) - 1
        /\ \A i \in 1..(Len(data) - 1) : SubSeq(data, 1, Len(data) - 1)[i] = data[i]
    <3>1. Len(data) - 1 \in 0..Len(data)
      BY <2>1
    <3> QED
      BY <3>1, Prefix
  <2>3. \A i \in 1..(Len(data) - 1) : i <= Len(data)
    BY <2>1
  <2> QED
    BY <1>1, <1>2, <1>3, <2>2, <2>3
<1>4. CASE ~EndsOpen(data)
  BY <1>1, <1>2, <1>4
<1> QED
  BY <1>3, <1>4

(* What a round of the tool-call parser is. *)
LEMMA ToolRoundIs ==
  ASSUME NEW A, {"<", "tool>", "/tool>"} \subseteq A, NEW a \in AccOf(A),
         NEW i, i = Index(a.data, IF a.p.in THEN ToolEnd ELSE ToolStart),
         NEW raw, raw = a.p.buf \o Before(a.data, i)
  PROVE  /\ ~a.p.in /\ i = 0 =>
              ToolRound(a) = [p |-> [a.p EXCEPT !.part = Carry(a.data, ToolStart)], data |-> <<>>,
                              out |-> a.out \o Clean(a.data, ToolStart), calls |-> a.calls]
         /\ ~a.p.in /\ i # 0 =>
              ToolRound(a) = [p |-> [a.p EXCEPT !.in = TRUE], data |-> After(a.data, i, ToolStart),
                              out |-> a.out \o Before(a.data, i), calls |-> a.calls]
         /\ a.p.in /\ i = 0 =>
              ToolRound(a) = [p |-> [a.p EXCEPT !.buf = @ \o Clean(a.data, ToolEnd), !.part = Carry(a.data, ToolEnd)],
                              data |-> <<>>, out |-> a.out, calls |-> a.calls]
         /\ a.p.in /\ i # 0 /\ ParseToolCallBlock(raw) =>
              ToolRound(a) = [p |-> [a.p EXCEPT !.buf = <<>>, !.in = FALSE, !.next = @ + 1],
                              data |-> After(a.data, i, ToolEnd), out |-> a.out,
                              calls |-> Append(a.calls, CallOf(a.p.next, raw))]
         /\ a.p.in /\ i # 0 /\ ~ParseToolCallBlock(raw) =>
              ToolRound(a) = [p |-> [a.p EXCEPT !.buf = <<>>, !.in = FALSE],
                              data |-> After(a.data, i, ToolEnd),
                              out |-> IF raw = <<>> THEN a.out ELSE a.out \o ToolStart \o raw \o ToolEnd,
                              calls |-> a.calls]
<1>1. a.p \in ParserOf(A) /\ a.data \in Seq(A) /\ a.out \in Seq(A) /\ a.calls \in Seq(Calls)
  BY DEF AccOf
<1>2. CASE ~a.p.in /\ i = 0
  BY <1>1, <1>2 DEF ToolRound, ToolText, AccOf, ParserOf
<1>3. CASE ~a.p.in /\ i # 0
  BY <1>1, <1>3 DEF ToolRound, ToolText, AccOf, ParserOf
<1>4. CASE a.p.in /\ i = 0
  BY <1>1, <1>4 DEF ToolRound, ToolBlock, AccOf, ParserOf
<1>5. CASE a.p.in /\ i # 0 /\ ParseToolCallBlock(raw)
  BY <1>1, <1>5 DEF ToolRound, ToolBlock, AccOf, ParserOf
<1>6. CASE a.p.in /\ i # 0 /\ ~ParseToolCallBlock(raw)
  BY <1>1, <1>6 DEF ToolRound, ToolBlock, AccOf, ParserOf
<1> QED
  BY <1>2, <1>3, <1>4, <1>5, <1>6

(* Two texts one after the other are a text. *)
LEMMA CatSeq ==
  ASSUME NEW X, NEW s \in Seq(X), NEW t \in Seq(X)
  PROVE  s \o t \in Seq(X)
OBVIOUS

(* An accumulator is made of its four fields. *)
LEMMA AccIs ==
  ASSUME NEW A, NEW P, NEW p \in P, NEW d \in Seq(A), NEW o \in Seq(A), NEW c \in Seq(Calls),
         NEW n \in Nat, Len(d) < n,
         NEW r, r = [p |-> p, data |-> d, out |-> o, calls |-> c]
  PROVE  r \in [p : P, data : Seq(A), out : Seq(A), calls : Seq(Calls)] /\ Len(r.data) < n
OBVIOUS

(* An update of a parser is a parser. *)
LEMMA ParserIs ==
  ASSUME NEW A, NEW p \in ParserOf(A), NEW x \in Seq(A), NEW y \in Seq(A), NEW b \in BOOLEAN
  PROVE  /\ [p EXCEPT !.part = x] \in ParserOf(A)
         /\ [p EXCEPT !.in = b] \in ParserOf(A)
         /\ [p EXCEPT !.buf = @ \o x, !.part = y] \in ParserOf(A)
         /\ [p EXCEPT !.buf = <<>>, !.in = FALSE] \in ParserOf(A)
         /\ [p EXCEPT !.buf = <<>>, !.in = FALSE, !.next = @ + 1] \in ParserOf(A)
<1>1. <<>> \in Seq(A) /\ p.next + 1 \in Nat /\ p.buf \o x \in Seq(A)
  BY CatSeq DEF ParserOf
<1>2. PICK e \in Seq(A), z \in Seq(A) : e = <<>> /\ z = p.buf \o x
  BY <1>1
<1>3. [p EXCEPT !.part = x] \in ParserOf(A) /\ [p EXCEPT !.in = b] \in ParserOf(A)
  BY DEF ParserOf
<1>4. [p EXCEPT !.buf = z, !.part = y] \in ParserOf(A)
  BY DEF ParserOf
<1>5. [p EXCEPT !.buf = e, !.in = FALSE] \in ParserOf(A)
  BY DEF ParserOf
<1>6. [p EXCEPT !.buf = e, !.in = FALSE, !.next = @ + 1] \in ParserOf(A)
  BY <1>1 DEF ParserOf
<1> QED
  BY <1>2, <1>3, <1>4, <1>5, <1>6

(* A call is one. *)
LEMMA CallOfIs == ASSUME NEW n \in Nat, NEW raw PROVE CallOf(n, raw) \in Calls
BY DEF CallOf, Calls

(* A round of the tool-call parser keeps the types and reads something. *)
LEMMA ToolRoundTypes ==
  ASSUME NEW A, {"<", "tool>", "/tool>"} \subseteq A, NEW a \in AccOf(A), a.data # <<>>
  PROVE  ToolRound(a) \in AccOf(A) /\ Len(ToolRound(a).data) < Len(a.data)
<1>1. /\ a.p \in ParserOf(A) /\ a.data \in Seq(A) /\ a.out \in Seq(A) /\ a.calls \in Seq(Calls)
      /\ Len(a.data) \in Nat /\ Len(a.data) > 0 /\ a.p.buf \in Seq(A)
  BY DEF AccOf, ParserOf
<1>2. Len(<<>>) = 0 /\ <<>> \in Seq(A) /\ ToolStart \in Seq(A) /\ ToolEnd \in Seq(A)
  BY DEF ToolStart, ToolEnd
<1> DEFINE i == Index(a.data, IF a.p.in THEN ToolEnd ELSE ToolStart)
           raw == a.p.buf \o Before(a.data, i)
<1>3. CASE ~a.p.in
  <2>1. /\ i \in Nat /\ (i # 0 => TagAt(a.data, i, "tool>"))
    BY <1>1, <1>3, IndexFacts DEF ToolStart
  <2> HIDE DEF i
  <2>2. CASE i = 0
    <3>1. ToolRound(a) = [p |-> [a.p EXCEPT !.part = Carry(a.data, ToolStart)], data |-> <<>>,
                              out |-> a.out \o Clean(a.data, ToolStart), calls |-> a.calls]
      BY <1>3, <2>2, ToolRoundIs DEF i
    <3>2. Carry(a.data, ToolStart) \in Seq(A) /\ Clean(a.data, ToolStart) \in Seq(A)
      BY <1>1, CleanFacts DEF ToolStart
    <3>3. [a.p EXCEPT !.part = Carry(a.data, ToolStart)] \in ParserOf(A) /\ a.out \o Clean(a.data, ToolStart) \in Seq(A)
      BY <1>1, <3>2, ParserIs, CatSeq
    <3> QED
      BY <1>1, <1>2, <3>1, <3>2, <3>3, AccIs DEF AccOf
  <2>3. CASE i # 0
    <3>1. ToolRound(a) = [p |-> [a.p EXCEPT !.in = TRUE], data |-> After(a.data, i, ToolStart),
                              out |-> a.out \o Before(a.data, i), calls |-> a.calls]
      BY <1>3, <2>3, ToolRoundIs DEF i
    <3>2. Before(a.data, i) \in Seq(A) /\ After(a.data, i, ToolStart) \in Seq(A)
          /\ Len(After(a.data, i, ToolStart)) < Len(a.data)
      BY <1>1, <2>1, <2>3, CutFacts DEF ToolStart
    <3>3. [a.p EXCEPT !.in = TRUE] \in ParserOf(A) /\ a.out \o Before(a.data, i) \in Seq(A)
      BY <1>1, <3>2, ParserIs, CatSeq
    <3> QED
      BY <1>1, <1>2, <3>1, <3>2, <3>3, AccIs DEF AccOf
  <2> QED
    BY <2>2, <2>3
<1>4. CASE a.p.in
  <2>1. /\ i \in Nat /\ (i # 0 => TagAt(a.data, i, "/tool>"))
    BY <1>1, <1>4, IndexFacts DEF ToolEnd
  <2> HIDE DEF i
  <2>2. CASE i = 0
    <3>1. ToolRound(a) = [p |-> [a.p EXCEPT !.buf = @ \o Clean(a.data, ToolEnd), !.part = Carry(a.data, ToolEnd)],
                              data |-> <<>>, out |-> a.out, calls |-> a.calls]
      BY <1>4, <2>2, ToolRoundIs DEF i
    <3>2. Carry(a.data, ToolEnd) \in Seq(A) /\ Clean(a.data, ToolEnd) \in Seq(A)
      BY <1>1, CleanFacts DEF ToolEnd
    <3>3. [a.p EXCEPT !.buf = @ \o Clean(a.data, ToolEnd), !.part = Carry(a.data, ToolEnd)] \in ParserOf(A)
      BY <1>1, <3>2, ParserIs, CatSeq
    <3> QED
      BY <1>1, <1>2, <3>1, <3>2, <3>3, AccIs DEF AccOf
  <2>3. CASE i # 0
    <3>2. Before(a.data, i) \in Seq(A) /\ After(a.data, i, ToolEnd) \in Seq(A)
          /\ Len(After(a.data, i, ToolEnd)) < Len(a.data)
      BY <1>1, <2>1, <2>3, CutFacts DEF ToolEnd
    <3>3. raw \in Seq(A)
      BY <1>1, <3>2, CatSeq
    <3> HIDE DEF raw
    <3>4. CASE ParseToolCallBlock(raw)
      <4>1. ToolRound(a) = [p |-> [a.p EXCEPT !.buf = <<>>, !.in = FALSE, !.next = @ + 1],
                              data |-> After(a.data, i, ToolEnd), out |-> a.out,
                              calls |-> Append(a.calls, CallOf(a.p.next, raw))]
        BY <1>4, <2>3, <3>4, ToolRoundIs DEF i, raw
      <4>2. Append(a.calls, CallOf(a.p.next, raw)) \in Seq(Calls)
        <5>1. a.p.next \in Nat
          BY <1>1 DEF ParserOf
        <5>2. PICK call \in Calls : call = CallOf(a.p.next, raw)
          BY <5>1, CallOfIs
        <5> QED
          BY <1>1, <5>2
      <4>3. [a.p EXCEPT !.buf = <<>>, !.in = FALSE, !.next = @ + 1] \in ParserOf(A)
        BY <1>1, <1>2, ParserIs
      <4> QED
        BY <1>1, <3>2, <4>1, <4>2, <4>3, AccIs DEF AccOf
    <3>5. CASE ~ParseToolCallBlock(raw)
      <4>1. ToolRound(a) = [p |-> [a.p EXCEPT !.buf = <<>>, !.in = FALSE],
                              data |-> After(a.data, i, ToolEnd),
                              out |-> IF raw = <<>> THEN a.out ELSE a.out \o ToolStart \o raw \o ToolEnd,
                              calls |-> a.calls]
        BY <1>4, <2>3, <3>5, ToolRoundIs DEF i, raw
      <4>2. a.out \o ToolStart \o raw \o ToolEnd \in Seq(A)
        BY <1>1, <1>2, <3>3, CatSeq
      <4>3. [a.p EXCEPT !.buf = <<>>, !.in = FALSE] \in ParserOf(A)
        BY <1>1, <1>2, ParserIs
      <4> QED
        BY <1>1, <3>2, <4>1, <4>2, <4>3, AccIs DEF AccOf
    <3> QED
      BY <3>4, <3>5
  <2> QED
    BY <2>2, <2>3
<1> QED
  BY <1>1, <1>3, <1>4 DEF ParserOf

(* A card parser: its text part is the beginning of a tag. *)
CardOf == [in : BOOLEAN, part : {<<>>, <<"<">>}, buf : Seq(Symbols), next : Nat]
CardAcc(A) == [p : CardOf, data : Seq(A), out : Seq(A), calls : Seq(Calls)]

(* The same for a card parser. *)
LEMMA CardIs ==
  ASSUME NEW p \in CardOf, NEW x \in Seq(Symbols), NEW y \in {<<>>, <<"<">>}
  PROVE  /\ [p EXCEPT !.part = y] \in CardOf
         /\ [p EXCEPT !.buf = @ \o x, !.part = y] \in CardOf
         /\ [p EXCEPT !.in = FALSE, !.buf = <<>>] \in CardOf
         /\ [p EXCEPT !.in = TRUE, !.buf = @ \o x] \in CardOf
<1>1. p.buf \o x \in Seq(Symbols) /\ <<>> \in Seq(Symbols)
  BY CatSeq DEF CardOf
<1>2. PICK z \in Seq(Symbols), e \in Seq(Symbols) : z = p.buf \o x /\ e = <<>>
  BY <1>1
<1>3. [p EXCEPT !.part = y] \in CardOf
  BY DEF CardOf
<1>4. [p EXCEPT !.buf = z, !.part = y] \in CardOf
  BY DEF CardOf
<1>5. [p EXCEPT !.in = FALSE, !.buf = e] \in CardOf
  BY DEF CardOf
<1>6. [p EXCEPT !.in = TRUE, !.buf = z] \in CardOf
  BY DEF CardOf
<1> QED
  BY <1>2, <1>3, <1>4, <1>5, <1>6

(* The four cases of a round of the card parser. *)
LEMMA CardRoundIs ==
  ASSUME NEW A, {"<", "line"} \subseteq A, A \subseteq Symbols, NEW a \in CardAcc(A),
         NEW i, i = Index(a.data, IF a.p.in THEN CardEnd ELSE CardStart),
         NEW card, card = SubSeq(a.data, i, Len(a.data)), NEW j, j = Index(card, CardEnd)
  PROVE  /\ ~a.p.in /\ i = 0 =>
              CardRound(a) = [p |-> [a.p EXCEPT !.part = Carry(a.data, CardStart)], data |-> <<>>,
                              out |-> a.out \o Clean(a.data, CardStart), calls |-> a.calls]
         /\ ~a.p.in /\ i # 0 /\ j = 0 =>
              CardRound(a) = [p |-> [a.p EXCEPT !.in = TRUE, !.buf = @ \o card], data |-> <<>>,
                              out |-> a.out \o Before(a.data, i), calls |-> a.calls]
         /\ ~a.p.in /\ i # 0 /\ j # 0 =>
              CardRound(a) = [p |-> a.p, data |-> After(card, j, CardEnd),
                              out |-> Append(a.out \o Before(a.data, i), "line"), calls |-> a.calls]
         /\ a.p.in /\ i = 0 =>
              CardRound(a) = [p |-> [a.p EXCEPT !.buf = @ \o Clean(a.data, CardEnd), !.part = Carry(a.data, CardEnd)],
                              data |-> <<>>, out |-> a.out, calls |-> a.calls]
         /\ a.p.in /\ i # 0 =>
              CardRound(a) = [p |-> [a.p EXCEPT !.in = FALSE, !.buf = <<>>],
                              data |-> After(a.data, i, CardEnd), out |-> Append(a.out, "line"),
                              calls |-> a.calls]
<1>1. a.p \in CardOf /\ a.data \in Seq(A) /\ a.out \in Seq(A) /\ a.calls \in Seq(Calls)
  BY DEF CardAcc
<1>2. CASE ~a.p.in
  BY <1>1, <1>2 DEF CardRound, CardText, CardAcc, CardOf
<1>3. CASE a.p.in
  BY <1>1, <1>3 DEF CardRound, CardBlock, CardAcc, CardOf
<1> QED
  BY <1>2, <1>3

(* A round of the card parser keeps the types and reads something. *)
LEMMA CardRoundTypes ==
  ASSUME NEW A, {"<", "line"} \subseteq A, A \subseteq Symbols, NEW a \in CardAcc(A),
         a.data # <<>>
  PROVE  CardRound(a) \in CardAcc(A) /\ Len(CardRound(a).data) < Len(a.data)
<1>1. /\ a.p \in CardOf /\ a.data \in Seq(A) /\ a.out \in Seq(A) /\ a.calls \in Seq(Calls)
      /\ Len(a.data) \in Nat /\ Len(a.data) > 0 /\ a.p.buf \in Seq(Symbols) /\ a.p.in \in BOOLEAN
  BY DEF CardAcc, CardOf
<1>2. Len(<<>>) = 0 /\ <<>> \in Seq(A) /\ <<>> \in Seq(Symbols)
  OBVIOUS
<1>0. \A s \in Seq(A) : s \in Seq(Symbols)
  OBVIOUS
<1> DEFINE i == Index(a.data, IF a.p.in THEN CardEnd ELSE CardStart)
           card == SubSeq(a.data, i, Len(a.data))
           j == Index(card, CardEnd)
<1>3. CASE ~a.p.in
  <2>1. /\ i \in Nat /\ (i # 0 => TagAt(a.data, i, "card"))
    BY <1>1, <1>3, IndexFacts DEF CardStart
  <2> HIDE DEF i
  <2>2. CASE i = 0
    <3>1. CardRound(a) = [p |-> [a.p EXCEPT !.part = Carry(a.data, CardStart)], data |-> <<>>,
                              out |-> a.out \o Clean(a.data, CardStart), calls |-> a.calls]
      BY <1>3, <2>2, CardRoundIs DEF i
    <3>2. Carry(a.data, CardStart) \in {<<>>, <<"<">>} /\ Clean(a.data, CardStart) \in Seq(A)
      BY <1>1, CleanFacts DEF CardStart
    <3>3. [a.p EXCEPT !.part = Carry(a.data, CardStart)] \in CardOf /\ a.out \o Clean(a.data, CardStart) \in Seq(A)
      BY <1>1, <1>2, <3>2, CardIs, CatSeq
    <3> QED
      BY <1>1, <1>2, <3>1, <3>3, AccIs DEF CardAcc
  <2>3. CASE i # 0
    <3>1. Before(a.data, i) \in Seq(A) /\ i \in 1..Len(a.data)
      <4>1. i \in 1..Len(a.data)
        BY <1>1, <2>1, <2>3 DEF TagAt
      <4> QED
        BY <1>1, <2>1, <2>3, <4>1, CutFacts
    <3>2. card \in Seq(A) /\ Len(card) = Len(a.data) - i + 1 /\ Len(card) <= Len(a.data)
      BY <1>1, <3>1, Rest
    <3> HIDE DEF card
    <3>3. j \in Nat /\ (j # 0 => TagAt(card, j, "/card>"))
      BY <3>2, IndexFacts DEF CardEnd
    <3> HIDE DEF j
    <3>4. CASE j = 0
      <4>1. CardRound(a) = [p |-> [a.p EXCEPT !.in = TRUE, !.buf = @ \o card], data |-> <<>>,
                              out |-> a.out \o Before(a.data, i), calls |-> a.calls]
        BY <1>3, <2>3, <3>4, CardRoundIs DEF i, j, card
      <4>2. a.p.buf \o card \in Seq(Symbols) /\ a.out \o Before(a.data, i) \in Seq(A)
        BY <1>0, <1>1, <3>1, <3>2, CatSeq
      <4>3. [a.p EXCEPT !.in = TRUE, !.buf = @ \o card] \in CardOf
        BY <1>0, <1>1, <3>2, CardIs
      <4> QED
        BY <1>1, <1>2, <4>1, <4>2, <4>3, AccIs DEF CardAcc
    <3>5. CASE j # 0
      <4>1. CardRound(a) = [p |-> a.p, data |-> After(card, j, CardEnd),
                              out |-> Append(a.out \o Before(a.data, i), "line"), calls |-> a.calls]
        BY <1>3, <2>3, <3>5, CardRoundIs DEF i, j, card
      <4>2. After(card, j, CardEnd) \in Seq(A) /\ Len(After(card, j, CardEnd)) < Len(card)
        BY <3>2, <3>3, <3>5, CutFacts DEF CardEnd
      <4>3. Append(a.out \o Before(a.data, i), "line") \in Seq(A)
        BY <1>1, <3>1, CatSeq
      <4>4. Len(After(card, j, CardEnd)) < Len(a.data)
        BY <1>1, <3>2, <4>2, LenProperties
      <4> QED
        BY <1>1, <4>1, <4>2, <4>3, <4>4, AccIs DEF CardAcc
    <3> QED
      BY <3>4, <3>5
  <2> QED
    BY <2>2, <2>3
<1>4. CASE a.p.in
  <2>1. /\ i \in Nat /\ (i # 0 => TagAt(a.data, i, "/card>"))
    BY <1>1, <1>4, IndexFacts DEF CardEnd
  <2> HIDE DEF i
  <2>2. CASE i = 0
    <3>1. CardRound(a) = [p |-> [a.p EXCEPT !.buf = @ \o Clean(a.data, CardEnd), !.part = Carry(a.data, CardEnd)],
                              data |-> <<>>, out |-> a.out, calls |-> a.calls]
      BY <1>4, <2>2, CardRoundIs DEF i
    <3>2. Carry(a.data, CardEnd) \in {<<>>, <<"<">>} /\ Clean(a.data, CardEnd) \in Seq(A)
      BY <1>1, CleanFacts DEF CardEnd
    <3>3. [a.p EXCEPT !.buf = @ \o Clean(a.data, CardEnd), !.part = Carry(a.data, CardEnd)] \in CardOf
      BY <1>0, <1>1, <3>2, CardIs
    <3> QED
      BY <1>1, <1>2, <3>1, <3>3, AccIs DEF CardAcc
  <2>3. CASE i # 0
    <3>1. CardRound(a) = [p |-> [a.p EXCEPT !.in = FALSE, !.buf = <<>>],
                              data |-> After(a.data, i, CardEnd), out |-> Append(a.out, "line"),
                              calls |-> a.calls]
      BY <1>4, <2>3, CardRoundIs DEF i
    <3>2. After(a.data, i, CardEnd) \in Seq(A) /\ Len(After(a.data, i, CardEnd)) < Len(a.data)
      BY <1>1, <2>1, <2>3, CutFacts DEF CardEnd
    <3>3. Append(a.out, "line") \in Seq(A)
      BY <1>1
    <3>4. [a.p EXCEPT !.in = FALSE, !.buf = <<>>] \in CardOf
      BY <1>1, <1>2, CardIs
    <3> QED
      BY <1>1, <3>1, <3>2, <3>3, <3>4, AccIs DEF CardAcc
  <2> QED
    BY <2>2, <2>3
<1> QED
  BY <1>1, <1>3, <1>4

(* The cases of a round of the tag filter. *)
LEMMA DropRoundIs ==
  ASSUME NEW A, "<" \in A, NEW a \in AccOf(A),
         NEW i, i = Index(a.data, IF a.p.in THEN DropEnd ELSE DropStart),
         NEW tag, tag = SubSeq(a.data, i, Len(a.data)), NEW j, j = Index(tag, <<">">>)
  PROVE  /\ ~a.p.in /\ i = 0 =>
              DropRound(a) = [p |-> [a.p EXCEPT !.part = Carry(a.data, DropStart)], data |-> <<>>,
                              out |-> a.out \o Clean(a.data, DropStart), calls |-> a.calls]
         /\ ~a.p.in /\ i # 0 /\ j = 0 =>
              DropRound(a) = [p |-> [a.p EXCEPT !.part = tag], data |-> <<>>,
                              out |-> a.out \o Before(a.data, i), calls |-> a.calls]
         /\ ~a.p.in /\ i # 0 /\ j # 0 =>
              DropRound(a) = [p |-> [a.p EXCEPT !.in = TRUE], data |-> After(tag, j, <<">">>),
                              out |-> a.out \o Before(a.data, i), calls |-> a.calls]
         /\ a.p.in /\ i = 0 =>
              DropRound(a) = [p |-> [a.p EXCEPT !.part = Carry(a.data, DropEnd)],
                              data |-> <<>>, out |-> a.out, calls |-> a.calls]
         /\ a.p.in /\ i # 0 =>
              DropRound(a) = [p |-> [a.p EXCEPT !.in = FALSE],
                              data |-> After(a.data, i, DropEnd), out |-> a.out, calls |-> a.calls]
<1>1. a.p \in ParserOf(A) /\ a.data \in Seq(A) /\ a.out \in Seq(A) /\ a.calls \in Seq(Calls)
  BY DEF AccOf
<1>2. CASE ~a.p.in
  BY <1>1, <1>2 DEF DropRound, DropText, AccOf, ParserOf
<1>3. CASE a.p.in
  BY <1>1, <1>3 DEF DropRound, DropBlock, AccOf, ParserOf
<1> QED
  BY <1>2, <1>3

(* What follows the end of an opening tag. *)
LEMMA AfterGt ==
  ASSUME NEW A, NEW s \in Seq(A), NEW z, NEW k \in 1..Len(s)
  PROVE  /\ After(s, k, <<z>>) = SubSeq(s, k + 1, Len(s))
         /\ After(s, k, <<z>>) \in Seq(A)
         /\ Len(After(s, k, <<z>>)) = Len(s) - k
         /\ \A i \in 1..(Len(s) - k) : After(s, k, <<z>>)[i] = s[k + i]
<1>1. Len(<<z>>) = 1 /\ Len(s) \in Nat
  OBVIOUS
<1>2. After(s, k, <<z>>) = SubSeq(s, k + 1, Len(s))
  BY <1>1 DEF After
<1>3. /\ SubSeq(s, k + 1, Len(s)) \in Seq(A)
      /\ Len(SubSeq(s, k + 1, Len(s))) = Len(s) - (k + 1) + 1
      /\ \A i \in 1..(Len(s) - (k + 1) + 1) : SubSeq(s, k + 1, Len(s))[i] = s[k + 1 + i - 1]
  BY <1>1, Rest
<1>4. ASSUME NEW i \in 1..(Len(s) - k) PROVE SubSeq(s, k + 1, Len(s))[i] = s[k + i]
  <2>1. k + 1 + i - 1 = k + i /\ Len(s) - (k + 1) + 1 = Len(s) - k
    BY <1>1
  <2> QED
    BY <1>3, <2>1
<1>5. Len(s) - (k + 1) + 1 = Len(s) - k
  BY <1>1
<1> QED
  BY <1>2, <1>3, <1>4, <1>5

(* A round of the tag filter keeps the types and reads something. *)
LEMMA DropRoundTypes ==
  ASSUME NEW A, "<" \in A, NEW a \in AccOf(A), a.data # <<>>
  PROVE  DropRound(a) \in AccOf(A) /\ Len(DropRound(a).data) < Len(a.data)
<1>1. /\ a.p \in ParserOf(A) /\ a.data \in Seq(A) /\ a.out \in Seq(A) /\ a.calls \in Seq(Calls)
      /\ Len(a.data) \in Nat /\ Len(a.data) > 0 /\ a.p.in \in BOOLEAN
  BY DEF AccOf, ParserOf
<1>2. Len(<<>>) = 0 /\ <<>> \in Seq(A)
  OBVIOUS
<1> DEFINE i == Index(a.data, IF a.p.in THEN DropEnd ELSE DropStart)
           tag == SubSeq(a.data, i, Len(a.data))
           j == Index(tag, <<">">>)
<1>3. CASE ~a.p.in
  <2>1. /\ i \in Nat /\ (i # 0 => TagAt(a.data, i, "drop"))
    BY <1>1, <1>3, IndexFacts DEF DropStart
  <2> HIDE DEF i
  <2>2. CASE i = 0
    <3>1. DropRound(a) = [p |-> [a.p EXCEPT !.part = Carry(a.data, DropStart)], data |-> <<>>,
                              out |-> a.out \o Clean(a.data, DropStart), calls |-> a.calls]
      BY <1>3, <2>2, DropRoundIs DEF i
    <3>2. Carry(a.data, DropStart) \in Seq(A) /\ Clean(a.data, DropStart) \in Seq(A)
      BY <1>1, CleanFacts DEF DropStart
    <3>3. [a.p EXCEPT !.part = Carry(a.data, DropStart)] \in ParserOf(A) /\ a.out \o Clean(a.data, DropStart) \in Seq(A)
      BY <1>1, <1>2, <3>2, ParserIs, CatSeq
    <3> QED
      BY <1>1, <1>2, <3>1, <3>3, AccIs DEF AccOf
  <2>3. CASE i # 0
    <3>1. Before(a.data, i) \in Seq(A) /\ i \in 1..Len(a.data)
      <4>1. i \in 1..Len(a.data)
        BY <1>1, <2>1, <2>3 DEF TagAt
      <4> QED
        BY <1>1, <2>1, <2>3, <4>1, CutFacts
    <3>2. tag \in Seq(A) /\ Len(tag) = Len(a.data) - i + 1 /\ Len(tag) <= Len(a.data)
      BY <1>1, <3>1, Rest
    <3> HIDE DEF tag
    <3>3. j \in Nat /\ (j # 0 => j \in 1..Len(tag))
      BY <3>2, IndexOne
    <3> HIDE DEF j
    <3>6. a.out \o Before(a.data, i) \in Seq(A)
      BY <1>1, <3>1, CatSeq
    <3>4. CASE j = 0
      <4>1. DropRound(a) = [p |-> [a.p EXCEPT !.part = tag], data |-> <<>>,
                              out |-> a.out \o Before(a.data, i), calls |-> a.calls]
        BY <1>3, <2>3, <3>4, DropRoundIs DEF i, j, tag
      <4>2. [a.p EXCEPT !.part = tag] \in ParserOf(A)
        BY <1>1, <1>2, <3>2, ParserIs
      <4> QED
        BY <1>1, <1>2, <3>6, <4>1, <4>2, AccIs DEF AccOf
    <3>5. CASE j # 0
      <4>1. DropRound(a) = [p |-> [a.p EXCEPT !.in = TRUE], data |-> After(tag, j, <<">">>),
                              out |-> a.out \o Before(a.data, i), calls |-> a.calls]
        BY <1>3, <2>3, <3>5, DropRoundIs DEF i, j, tag
      <4>2. After(tag, j, <<">">>) \in Seq(A) /\ Len(After(tag, j, <<">">>)) = Len(tag) - j
        BY <3>2, <3>3, <3>5, AfterGt
      <4>3. Len(After(tag, j, <<">">>)) < Len(a.data)
        BY <1>1, <3>2, <3>3, <3>5, <4>2
      <4>4. [a.p EXCEPT !.in = TRUE] \in ParserOf(A)
        BY <1>1, <1>2, ParserIs
      <4> QED
        BY <1>1, <3>6, <4>1, <4>2, <4>3, <4>4, AccIs DEF AccOf
    <3> QED
      BY <3>4, <3>5
  <2> QED
    BY <2>2, <2>3
<1>4. CASE a.p.in
  <2>1. /\ i \in Nat /\ (i # 0 => TagAt(a.data, i, "/drop>"))
    BY <1>1, <1>4, IndexFacts DEF DropEnd
  <2> HIDE DEF i
  <2>2. CASE i = 0
    <3>1. DropRound(a) = [p |-> [a.p EXCEPT !.part = Carry(a.data, DropEnd)],
                              data |-> <<>>, out |-> a.out, calls |-> a.calls]
      BY <1>4, <2>2, DropRoundIs DEF i
    <3>2. Carry(a.data, DropEnd) \in Seq(A)
      BY <1>1, CleanFacts DEF DropEnd
    <3>3. [a.p EXCEPT !.part = Carry(a.data, DropEnd)] \in ParserOf(A)
      BY <1>1, <1>2, <3>2, ParserIs
    <3> QED
      BY <1>1, <1>2, <3>1, <3>3, AccIs DEF AccOf
  <2>3. CASE i # 0
    <3>1. DropRound(a) = [p |-> [a.p EXCEPT !.in = FALSE],
                              data |-> After(a.data, i, DropEnd), out |-> a.out, calls |-> a.calls]
      BY <1>4, <2>3, DropRoundIs DEF i
    <3>2. After(a.data, i, DropEnd) \in Seq(A) /\ Len(After(a.data, i, DropEnd)) < Len(a.data)
      BY <1>1, <2>1, <2>3, CutFacts DEF DropEnd
    <3>4. [a.p EXCEPT !.in = FALSE] \in ParserOf(A)
      BY <1>1, <1>2, ParserIs
    <3> QED
      BY <1>1, <3>1, <3>2, <3>4, AccIs DEF AccOf
  <2> QED
    BY <2>2, <2>3
<1> QED
  BY <1>1, <1>3, <1>4

-----------------------------------------------------------------------------
(* What the parsers return. *)

(* Where the loops begin. *)
LEMMA BeganIs ==
  ASSUME NEW A, NEW p \in ParserOf(A), NEW chunk \in Seq(A)
  PROVE  /\ Began(p, chunk) \in AccOf(A) /\ Began(p, chunk).p = [p EXCEPT !.part = <<>>]
         /\ Began(p, chunk).data = p.part \o chunk /\ Began(p, chunk).out = <<>>
         /\ Began(p, chunk).calls = <<>>
<1>1. <<>> \in Seq(A) /\ <<>> \in Seq(Calls) /\ p.part \in Seq(A)
  BY DEF ParserOf
<1>2. [p EXCEPT !.part = <<>>] \in ParserOf(A) /\ p.part \o chunk \in Seq(A)
  BY <1>1, ParserIs, CatSeq
<1> QED
  BY <1>1, <1>2 DEF Began, AccOf

(* What the tool-call parser returns for a chunk is a parser, a text and numbers. *)
LEMMA ToolTypes ==
  ASSUME NEW A, {"<", "tool>", "/tool>"} \subseteq A, A \subseteq Symbols,
         NEW p \in ParserOf(A), NEW chunk \in Seq(A)
  PROVE  PushTool(p, chunk) \in AccOf(A)
<1> DEFINE S == AccOf(A)
           R == [a \in S |-> IF a.data = <<>> THEN a ELSE ToolRound(a)]
<1>1. \A a \in S : R[a] = IF a.data = <<>> THEN a ELSE ToolRound(a)
  OBVIOUS
<1>2. Rounds(S, R)
  <2>1. \A a \in S : a.data \in Seq(Symbols)
    BY DEF AccOf
  <2>2. \A a \in S : R[a] \in S
    BY <1>1, ToolRoundTypes
  <2>3. \A a \in S : a.data # <<>> => Len(R[a].data) < Len(a.data)
    BY <1>1, ToolRoundTypes
  <2>4. R \in [S -> S]
    BY <2>2
  <2> HIDE DEF S, R
  <2> QED
    BY <2>1, <2>3, <2>4 DEF Rounds
<1>3. Began(p, chunk) \in S
  BY BeganIs
<1> HIDE DEF S, R
<1>4. PushTool(p, chunk) \in S
  BY <1>1, <1>2, <1>3, ToolLoop
<1> QED
  BY <1>4 DEF S

(* The same for the tag filter. *)
LEMMA DropTypes ==
  ASSUME NEW A, "<" \in A, A \subseteq Symbols, NEW p \in ParserOf(A), NEW chunk \in Seq(A)
  PROVE  PushDrop(p, chunk) \in AccOf(A)
<1> DEFINE S == AccOf(A)
           R == [a \in S |-> IF a.data = <<>> THEN a ELSE DropRound(a)]
<1>1. \A a \in S : R[a] = IF a.data = <<>> THEN a ELSE DropRound(a)
  OBVIOUS
<1>2. Rounds(S, R)
  <2>1. \A a \in S : a.data \in Seq(Symbols)
    BY DEF AccOf
  <2>2. \A a \in S : R[a] \in S
    BY <1>1, DropRoundTypes
  <2>3. \A a \in S : a.data # <<>> => Len(R[a].data) < Len(a.data)
    BY <1>1, DropRoundTypes
  <2>4. R \in [S -> S]
    BY <2>2
  <2> HIDE DEF S, R
  <2> QED
    BY <2>1, <2>3, <2>4 DEF Rounds
<1>3. Began(p, chunk) \in S
  BY BeganIs
<1> HIDE DEF S, R
<1>4. PushDrop(p, chunk) \in S
  BY <1>1, <1>2, <1>3, DropLoop
<1> QED
  BY <1>4 DEF S

(* Where the loop of the card parser begins. *)
LEMMA CardBeganIs ==
  ASSUME NEW A, "<" \in A, NEW p \in CardOf, NEW chunk \in Seq(A)
  PROVE  /\ Began(p, chunk) \in CardAcc(A) /\ Began(p, chunk).p = [p EXCEPT !.part = <<>>]
         /\ Began(p, chunk).data = p.part \o chunk /\ Began(p, chunk).out = <<>>
         /\ Began(p, chunk).calls = <<>>
<1>0. <<>> \in Seq(A) /\ <<>> \in Seq(Calls) /\ <<"<">> \in Seq(A) /\ <<>> \in Seq(Symbols)
  OBVIOUS
<1>1. <<>> \in Seq(A) /\ <<>> \in Seq(Calls) /\ p.part \in Seq(A) /\ <<>> \in Seq(Symbols)
  BY <1>0 DEF CardOf
<1>2. [p EXCEPT !.part = <<>>] \in CardOf /\ p.part \o chunk \in Seq(A)
  BY <1>1, CardIs, CatSeq
<1> QED
  BY <1>1, <1>2 DEF Began, CardAcc

(* What the card parser returns for a chunk. *)
LEMMA CardTypes ==
  ASSUME NEW A, {"<", "line"} \subseteq A, A \subseteq Symbols, NEW p \in CardOf,
         NEW chunk \in Seq(A)
  PROVE  PushCard(p, chunk) \in CardAcc(A)
<1> DEFINE S == CardAcc(A)
           R == [a \in S |-> IF a.data = <<>> THEN a ELSE CardRound(a)]
<1>1. \A a \in S : R[a] = IF a.data = <<>> THEN a ELSE CardRound(a)
  OBVIOUS
<1>2. Rounds(S, R)
  <2>1. \A a \in S : a.data \in Seq(Symbols)
    BY DEF CardAcc
  <2>2. \A a \in S : R[a] \in S
    BY <1>1, CardRoundTypes
  <2>3. \A a \in S : a.data # <<>> => Len(R[a].data) < Len(a.data)
    BY <1>1, CardRoundTypes
  <2>4. R \in [S -> S]
    BY <2>2
  <2> HIDE DEF S, R
  <2> QED
    BY <2>1, <2>3, <2>4 DEF Rounds
<1>3. Began(p, chunk) \in S
  BY CardBeganIs
<1> HIDE DEF S, R
<1>4. PushCard(p, chunk) \in S
  BY <1>1, <1>2, <1>3, CardLoop
<1> QED
  BY <1>4 DEF S

(* The flushes. *)
LEMMA FlushToolTypes ==
  ASSUME NEW A, {"<", "tool>", "/tool>"} \subseteq A, NEW p \in ParserOf(A)
  PROVE  /\ FlushTool(p).p \in ParserOf(A) /\ FlushTool(p).out \in Seq(A) /\ FlushTool(p).calls \in Seq(Calls)
<1>1. p.part \in Seq(A) /\ p.buf \in Seq(A) /\ p.next \in Nat /\ p.in \in BOOLEAN
  BY DEF ParserOf
<1>2. p.buf \o p.part \in Seq(A) /\ ToolStart \o (p.buf \o p.part) \in Seq(A)
      /\ <<>> \in Seq(A) /\ <<>> \in Seq(Calls)
  BY <1>1, CatSeq DEF ToolStart
<1>7. PICK call \in Calls : call = CallOf(p.next, p.buf \o p.part)
  BY <1>1, CallOfIs
<1>8. <<call>> \in Seq(Calls)
  OBVIOUS
<1>3. PICK e \in Seq(A) : e = <<>>
  BY <1>2
<1>4. PICK q \in ParserOf(A) : q = [p EXCEPT !.in = FALSE, !.buf = e, !.part = e]
  BY <1>1 DEF ParserOf
<1>5. PICK m \in Nat : m = q.next + 1
  BY DEF ParserOf
<1>6. [q EXCEPT !.next = m] \in ParserOf(A)
  BY DEF ParserOf
<1> QED
  BY <1>1, <1>2, <1>3, <1>4, <1>5, <1>6, <1>7, <1>8 DEF FlushTool

(* A fresh parser is one. *)
LEMMA FreshIs == ASSUME NEW A PROVE Fresh \in ParserOf(A) /\ Fresh \in CardOf
<1>1. <<>> \in Seq(A) /\ <<>> \in Seq(Symbols)
  OBVIOUS
<1> QED
  BY <1>1 DEF Fresh, ParserOf, CardOf

FilterOf(A) == [card : CardOf, drop : ParserOf(A)]

(* The flush of the filters gives a text. *)
LEMMA FlushFilterTypes ==
  ASSUME NEW A, {"<", "line"} \subseteq A, A \subseteq Symbols, NEW f \in FilterOf(A)
  PROVE  FlushFilter(f) \in Seq(A)
<1>1. f.card \in CardOf /\ f.drop \in ParserOf(A)
  BY DEF FilterOf
<1>2. FlushCard(f.card).out \in Seq(A)
  <2>1. <<>> \in Seq(A) /\ <<"<">> \in Seq(A)
    OBVIOUS
  <2> QED
    BY <1>1, <2>1 DEF FlushCard, CardOf
<1> DEFINE d == PushDrop(f.drop, FlushCard(f.card).out)
<1>3. d \in AccOf(A)
  BY <1>1, <1>2, DropTypes
<1>4. FlushFilter(f) = d.out \o FlushDrop(d.p).out
  BY Only DEF FlushFilter, Bind
<1> HIDE DEF d
<1>5. FlushDrop(d.p).out \in Seq(A)
  <2>1. <<>> \in Seq(A) /\ d.p.part \in Seq(A)
    BY <1>3 DEF AccOf, ParserOf
  <2> QED
    BY <2>1 DEF FlushDrop
<1>6. d.out \in Seq(A)
  BY <1>3 DEF AccOf
<1> QED
  BY <1>4, <1>5, <1>6, CatSeq

ScanAcc(A) == [done : Seq(A), held : Seq(A), images : Nat]
Nothing == [done |-> <<>>, held |-> <<>>, images |-> 0]
ScanStep(acc, s) ==
  IF acc.held = <<>>
  THEN IF s = "![" THEN [acc EXCEPT !.held = <<s>>]
       ELSE [acc EXCEPT !.done = Append(@, s)]
  ELSE IF s = "img)"
  THEN [done |-> Append(acc.done, "pic"), held |-> <<>>, images |-> acc.images + 1]
  ELSE [acc EXCEPT !.held = Append(@, s)]

(* A step of Scan keeps the types of what it gathers. *)
LEMMA ScanStepTypes ==
  ASSUME NEW A, "pic" \in A, NEW a \in ScanAcc(A), NEW s \in A
  PROVE  ScanStep(a, s) \in ScanAcc(A)
<1>1. a.done \in Seq(A) /\ a.held \in Seq(A) /\ a.images \in Nat
  BY DEF ScanAcc
<1>2. <<>> \in Seq(A) /\ <<s>> \in Seq(A) /\ Append(a.done, s) \in Seq(A) /\ Append(a.held, s) \in Seq(A)
      /\ Append(a.done, "pic") \in Seq(A) /\ a.images + 1 \in Nat
  BY <1>1
<1> QED
  BY <1>1, <1>2 DEF ScanStep, ScanAcc

(* The solutions of Scan's recursion over two texts agree as far as the texts do. *)
Scans(f, text, n) == f[0] = Nothing /\ \A i \in 1..n : f[i] = ScanStep(f[i - 1], text[i])

(* Two such solutions agree as far as their texts do. *)
LEMMA ScansAgree ==
  ASSUME NEW n \in Nat, NEW f, NEW g, NEW s, NEW t, Scans(f, s, n), Scans(g, t, n),
         \A i \in 1..n : s[i] = t[i]
  PROVE  \A i \in 0..n : f[i] = g[i]
<1> DEFINE N == {m \in Nat : m <= n => f[m] = g[m]}
<1>1. 0 \in N
  BY DEF Scans
<1>2. ASSUME NEW m \in N PROVE m + 1 \in N
  <2>1. SUFFICES ASSUME m + 1 <= n PROVE f[m + 1] = g[m + 1]
    OBVIOUS
  <2>2. m + 1 \in 1..n /\ (m + 1) - 1 = m /\ f[m] = g[m]
    BY <2>1
  <2>3. f[m + 1] = ScanStep(f[m], s[m + 1]) /\ g[m + 1] = ScanStep(g[m], t[m + 1])
    BY <2>2 DEF Scans
  <2> QED
    BY <2>2, <2>3
<1>3. N = Nat
  <2> HIDE DEF N
  <2>1. N \in SUBSET Nat
    BY DEF N
  <2> QED
    BY <1>1, <1>2, <2>1, Induction
<1> QED
  BY <1>3

(* Scan is the last value of its recursion. *)
LEMMA ScanIs ==
  ASSUME NEW A, "pic" \in A, NEW text \in Seq(A)
  PROVE  \E f \in [0..Len(text) -> ScanAcc(A)] : Scans(f, text, Len(text)) /\ Scan(text) = f[Len(text)]
<1> DEFINE n == Len(text)
           h == [q \in (1..n) \X ScanAcc(A) |-> ScanStep(q[2], text[q[1]])]
           Eq(g) == g = [i \in 0..n |-> IF i = 0 THEN Nothing
                                         ELSE Bind(g[i - 1], LAMBDA acc : ScanStep(acc, text[i]))]
<1>0. n \in Nat /\ \A i \in 1..n : text[i] \in A
  OBVIOUS
<1>1. Scan(text) = (CHOOSE g : Eq(g))[n]
  BY Zenon DEF Scan, Scanning, ScanStep, Nothing
<1> HIDE DEF n
<1>2. \A i \in 1..n : \A q \in ScanAcc(A) : h[<<i, q>>] = ScanStep(q, text[i])
  OBVIOUS
<1>3. Nothing \in ScanAcc(A)
  <2>1. <<>> \in Seq(A)
    OBVIOUS
  <2> QED
    BY <2>1 DEF Nothing, ScanAcc
<1>4. Steps(h, n, ScanAcc(A))
  BY <1>0, <1>2, ScanStepTypes DEF Steps
<1> HIDE DEF h
<1>5. PICK g : Solves(g, h, n, ScanAcc(A), Nothing)
  BY <1>0, <1>3, <1>4, Recursion
<1>6. g \in [0..n -> ScanAcc(A)] /\ g[0] = Nothing
  BY <1>5 DEF Solves
<1>7. ASSUME NEW i \in 1..n PROVE g[i] = ScanStep(g[i - 1], text[i])
  <2>1. g[i] = h[<<i, g[i - 1]>>] /\ g[i - 1] \in ScanAcc(A)
    BY <1>0, <1>5 DEF Solves
  <2> QED
    BY <1>2, <2>1
<1>8. \A k : Eq(k) <=> k = [i \in 0..n |-> IF i = 0 THEN Nothing ELSE ScanStep(k[i - 1], text[i])]
  BY Only DEF Bind
<1> HIDE DEF Eq
<1>9. Eq(g)
  <2>1. \A i \in 0..n : g[i] = IF i = 0 THEN Nothing ELSE ScanStep(g[i - 1], text[i])
    BY <1>0, <1>6, <1>7
  <2>2. g = [i \in 0..n |-> IF i = 0 THEN Nothing ELSE ScanStep(g[i - 1], text[i])]
    BY <1>6, <2>1
  <2> QED
    BY <1>8, <2>2
<1>10. PICK f : f = CHOOSE k : Eq(k)
  OBVIOUS
<1>11. f = [i \in 0..n |-> IF i = 0 THEN Nothing ELSE ScanStep(f[i - 1], text[i])]
  BY <1>8, <1>9, <1>10
<1>12. Scans(f, text, n)
  <2>1. ASSUME NEW i \in 0..n PROVE f[i] = IF i = 0 THEN Nothing ELSE ScanStep(f[i - 1], text[i])
    BY <1>11
  <2> QED
    BY <1>0, <2>1 DEF Scans
<1>13. Scans(g, text, n)
  BY <1>6, <1>7 DEF Scans
<1>14. \A i \in 0..n : f[i] = g[i]
  BY <1>0, <1>12, <1>13, ScansAgree
<1>15. f[n] = g[n]
  BY <1>0, <1>14
<1> QED
  BY <1>1, <1>6, <1>10, <1>13, <1>15 DEF n

(* Scan gives settled text, held text and a number. *)
LEMMA ScanTypes ==
  ASSUME NEW A, "pic" \in A, NEW text \in Seq(A)
  PROVE  Scan(text) \in ScanAcc(A)
BY ScanIs

(* Scan of a text and of its prefixes. *)
ScanParts(f, text) == \A n \in 0..Len(text) : Scan(SubSeq(text, 1, n)) = f[n]

(* The values of the recursion are Scan of the prefixes. *)
LEMMA ScanPrefixes ==
  ASSUME NEW A, "pic" \in A, NEW text \in Seq(A)
  PROVE  \E f \in [0..Len(text) -> ScanAcc(A)] :
           Scans(f, text, Len(text)) /\ ScanParts(f, text)
<1>1. PICK f \in [0..Len(text) -> ScanAcc(A)] : Scans(f, text, Len(text)) /\ Scan(text) = f[Len(text)]
  BY ScanIs
<1>2. ASSUME NEW n \in 0..Len(text) PROVE Scan(SubSeq(text, 1, n)) = f[n]
  <2> DEFINE p == SubSeq(text, 1, n)
  <2>1. p \in Seq(A) /\ Len(p) = n /\ \A i \in 1..n : p[i] = text[i]
    BY Prefix
  <2> HIDE DEF p
  <2>2. PICK g \in [0..Len(p) -> ScanAcc(A)] : Scans(g, p, Len(p)) /\ Scan(p) = g[Len(p)]
    BY <2>1, ScanIs
  <2>3. Scans(f, text, n)
    BY <1>1 DEF Scans
  <2>4. \A i \in 0..n : f[i] = g[i]
    BY <2>1, <2>2, <2>3, ScansAgree
  <2> QED
    BY <2>1, <2>2, <2>4 DEF p
<1> QED
  BY <1>1, <1>2 DEF ScanParts

(* The one that Bind binds. *)
LEMMA FilteredIs ==
  ASSUME NEW f, NEW text,
         NEW c, c = IF "card" \in Filters THEN PushCard(f.card, text) ELSE [p |-> f.card, out |-> text],
         NEW d, d = IF "drop" \in Filters THEN PushDrop(f.drop, c.out) ELSE [p |-> f.drop, out |-> c.out]
  PROVE  Filtered(f, text) = [f |-> [card |-> c.p, drop |-> d.p], out |-> d.out]
BY Only DEF Filtered, Bind

(* The filters keep their types and give a text. *)
LEMMA FilteredTypes ==
  ASSUME NEW f \in FilterOf(Symbols), NEW text \in Seq(Symbols)
  PROVE  Filtered(f, text).f \in FilterOf(Symbols) /\ Filtered(f, text).out \in Seq(Symbols)
<1> DEFINE c == IF "card" \in Filters THEN PushCard(f.card, text) ELSE [p |-> f.card, out |-> text]
           d == IF "drop" \in Filters THEN PushDrop(f.drop, c.out) ELSE [p |-> f.drop, out |-> c.out]
<1>0. {"<", "line"} \subseteq Symbols
  BY DEF Symbols
<1>1. f.card \in CardOf /\ f.drop \in ParserOf(Symbols)
  BY DEF FilterOf
<1>c. c = IF "card" \in Filters THEN PushCard(f.card, text) ELSE [p |-> f.card, out |-> text]
  OBVIOUS
<1>2. c.p \in CardOf /\ c.out \in Seq(Symbols)
  <2>1. CASE "card" \in Filters
    <3>1. PushCard(f.card, text) \in CardAcc(Symbols)
      BY <1>0, <1>1, CardTypes
    <3> QED
      BY <2>1, <3>1 DEF CardAcc
  <2> QED
    BY <1>1, <2>1
<1> HIDE DEF c
<1>d. d = IF "drop" \in Filters THEN PushDrop(f.drop, c.out) ELSE [p |-> f.drop, out |-> c.out]
  OBVIOUS
<1>3. d.p \in ParserOf(Symbols) /\ d.out \in Seq(Symbols)
  <2>1. CASE "drop" \in Filters
    <3>1. PushDrop(f.drop, c.out) \in AccOf(Symbols)
      BY <1>0, <1>1, <1>2, DropTypes
    <3> QED
      BY <2>1, <3>1 DEF AccOf
  <2> QED
    BY <1>1, <1>2, <2>1
<1> HIDE DEF d
<1>4. Filtered(f, text) = [f |-> [card |-> c.p, drop |-> d.p], out |-> d.out]
  BY <1>c, <1>d, FilteredIs
<1> QED
  BY <1>2, <1>3, <1>4 DEF FilterOf

Kinds == {"event", "error", "finish"}
Events == [kind : Kinds, content : Seq(Symbols), reason : Seq(Symbols), calls : Seq(Calls), dl : BOOLEAN]

(* So are an error and the end. *)
LEMMA EndEvents == ErrorEvent \in Events /\ FinishEvent \in Events
<1>1. <<>> \in Seq(Symbols) /\ <<>> \in Seq(Calls)
  OBVIOUS
<1> QED
  BY <1>1 DEF Event, Events, Kinds, ErrorEvent, FinishEvent

(* Consume, step by step. *)
Stage(filter, text) == IF text = <<>> THEN [f |-> filter, out |-> <<>>] ELSE Filtered(filter, text)
Found(tool, text) == IF text = <<>> THEN [p |-> tool, out |-> <<>>, calls |-> <<>>] ELSE PushTool(tool, text)
Given(e, t, r) == [e EXCEPT !.content = t.out, !.reason = r.out, !.calls = t.calls]

(* Consume is those steps one after the other. *)
LEMMA ConsumeIs ==
  ASSUME NEW filter, NEW tool, NEW e, NEW c, c = Stage(filter, e.content),
         NEW r, r = Stage(c.f, e.reason), NEW t, t = Found(tool, c.out), NEW ev,
         ev = Given(e, t, r)
  PROVE  Consume(filter, tool, e) =
           [filter |-> r.f, tool |-> t.p, events |-> IfWorth(ev)]
<1>1. Consume(filter, tool, e) =
        CHOOSE x \in {CHOOSE y \in {CHOOSE z \in {[filter |-> r1.f, tool |-> t1.p,
                                                   events |-> IfWorth(Given(e, t1, r1))]
                                      : t1 \in {Found(tool, c1.out)}} : TRUE
                       : r1 \in {Stage(c1.f, e.reason)}} : TRUE
            : c1 \in {Stage(filter, e.content)}} : TRUE
  BY Zenon DEF Consume, Bind, Stage, Found, Given
<1> QED
  BY <1>1, Only

(* The filters keep their types for a text that may be empty. *)
LEMMA StageTypes ==
  ASSUME NEW f \in FilterOf(Symbols), NEW text \in Seq(Symbols)
  PROVE  Stage(f, text).f \in FilterOf(Symbols) /\ Stage(f, text).out \in Seq(Symbols)
<1>1. <<>> \in Seq(Symbols)
  OBVIOUS
<1> QED
  BY <1>1, FilteredTypes DEF Stage

(* So does the tool-call parser. *)
LEMMA FoundTypes ==
  ASSUME NEW p \in ParserOf(Symbols), NEW text \in Seq(Symbols)
  PROVE  /\ Found(p, text).p \in ParserOf(Symbols) /\ Found(p, text).out \in Seq(Symbols)
         /\ Found(p, text).calls \in Seq(Calls)
<1>1. <<>> \in Seq(Symbols) /\ <<>> \in Seq(Calls)
  OBVIOUS
<1>2. {"<", "tool>", "/tool>"} \subseteq Symbols
  BY DEF Symbols
<1>3. PushTool(p, text) \in AccOf(Symbols)
  BY <1>2, ToolTypes
<1> QED
  BY <1>1, <1>3 DEF Found, AccOf

(* consumeUpstreamEvents keeps its parsers and passes on at most one event, of the same kind. *)
LEMMA ConsumeTypes ==
  ASSUME NEW filter \in FilterOf(Symbols), NEW tool \in ParserOf(Symbols), NEW e \in Events
  PROVE  /\ Consume(filter, tool, e).filter \in FilterOf(Symbols)
         /\ Consume(filter, tool, e).tool \in ParserOf(Symbols)
         /\ Consume(filter, tool, e).events \in Seq(Events)
         /\ Len(Consume(filter, tool, e).events) <= 1
         /\ \A i \in DOMAIN Consume(filter, tool, e).events :
              Consume(filter, tool, e).events[i].kind = e.kind
<1> DEFINE c == Stage(filter, e.content)
           r == Stage(c.f, e.reason)
           t == Found(tool, c.out)
           ev == Given(e, t, r)
<1>1. e.content \in Seq(Symbols) /\ e.reason \in Seq(Symbols)
  BY DEF Events
<1>2. c.f \in FilterOf(Symbols) /\ c.out \in Seq(Symbols)
  BY <1>1, StageTypes
<1> HIDE DEF c
<1>3. r.f \in FilterOf(Symbols) /\ r.out \in Seq(Symbols)
  BY <1>1, <1>2, StageTypes
<1>4. t.p \in ParserOf(Symbols) /\ t.out \in Seq(Symbols) /\ t.calls \in Seq(Calls)
  BY <1>2, FoundTypes
<1> HIDE DEF r, t
<1>5. ev \in Events /\ ev.kind = e.kind
  BY <1>3, <1>4 DEF Given, Events
<1> HIDE DEF ev
<1>6. Consume(filter, tool, e) =
           [filter |-> r.f, tool |-> t.p, events |-> IfWorth(ev)]
  BY ConsumeIs DEF c, r, t, ev
<1>7. IfWorth(ev) \in Seq(Events) /\ Len(IfWorth(ev)) <= 1 /\ \A i \in DOMAIN IfWorth(ev) : IfWorth(ev)[i] = ev
  BY <1>5 DEF IfWorth
<1> QED
  BY <1>3, <1>4, <1>5, <1>6, <1>7

(* Flushed is the flush of the filters, pushed, then the flush of the parser. *)
LEMMA FlushedIs ==
  ASSUME NEW filter, NEW tool, NEW t, t = PushTool(tool, FlushFilter(filter)),
         NEW u, u = FlushTool(t.p)
  PROVE  Flushed(filter, tool) = IfWorth(Late(t)) \o IfWorth(Late(u)) \o <<FinishEvent>>
<1>1. Flushed(filter, tool) =
        CHOOSE x \in {CHOOSE y \in {IfWorth(Late(t1)) \o IfWorth(Late(u1)) \o <<FinishEvent>>
                                      : u1 \in {FlushTool(t1.p)}} : TRUE
            : t1 \in {PushTool(tool, FlushFilter(filter))}} : TRUE
  BY Zenon DEF Flushed, Bind
<1> QED
  BY <1>1, Only

(* An event or none. *)
LEMMA IfWorthTypes ==
  ASSUME NEW e \in Events
  PROVE  IfWorth(e) \in Seq(Events)
BY DEF IfWorth

(* What a parser gave back late is an event. *)
LEMMA LateIs ==
  ASSUME NEW t, t.out \in Seq(Symbols), t.calls \in Seq(Calls)
  PROVE  Late(t) \in Events
BY DEF Late, Event, Events, Kinds

(* The flush of the parsers gives events. *)
LEMMA FlushedTypes ==
  ASSUME NEW filter \in FilterOf(Symbols), NEW tool \in ParserOf(Symbols)
  PROVE  Flushed(filter, tool) \in Seq(Events)
<1>1. PICK t : t = PushTool(tool, FlushFilter(filter))
  OBVIOUS
<1>2. PICK u : u = FlushTool(t.p)
  OBVIOUS
<1>3. {"<", "line"} \subseteq Symbols /\ {"<", "tool>", "/tool>"} \subseteq Symbols
  BY DEF Symbols
<1>4. t \in AccOf(Symbols)
  <2>1. FlushFilter(filter) \in Seq(Symbols)
    BY <1>3, FlushFilterTypes
  <2> QED
    BY <1>1, <1>3, <2>1, ToolTypes
<1>5. t.p \in ParserOf(Symbols) /\ t.out \in Seq(Symbols) /\ t.calls \in Seq(Calls)
  BY <1>4 DEF AccOf
<1>6. u.out \in Seq(Symbols) /\ u.calls \in Seq(Calls)
  BY <1>2, <1>3, <1>5, FlushToolTypes
<1>7. PICK a \in Seq(Events), b \in Seq(Events) : a = IfWorth(Late(t)) /\ b = IfWorth(Late(u))
  BY <1>5, <1>6, LateIs, IfWorthTypes
<1>8. FinishEvent \in Events
  BY EndEvents
<1>9. Flushed(filter, tool) = a \o b \o <<FinishEvent>>
  BY Zenon, <1>1, <1>2, <1>7, FlushedIs
<1>10. a \o b \o <<FinishEvent>> \in Seq(Events)
  BY <1>8
<1> QED
  BY <1>9, <1>10

(* A call as text is a text. *)
LEMMA CallTextIs ==
  ASSUME NEW A, {"<", "tool>", "/tool>", "call", "ht", "tps://", "grok"} \subseteq A, NEW call \in Calls
  PROVE  CallText(call) \in Seq(A)
<1>1. <<"ht", "tps://">> \in Seq(A) /\ <<"grok">> \in Seq(A) /\ <<>> \in Seq(A)
      /\ <<"<", "tool>">> \in Seq(A) /\ <<"call">> \in Seq(A) /\ <<"<", "/tool>">> \in Seq(A)
  OBVIOUS
<1>2. Link \in Seq(A)
  BY <1>1, CatSeq DEF Link, Scheme
<1>3. (IF call.link THEN Link ELSE <<>>) \in Seq(A)
  BY <1>1, <1>2
<1> QED
  BY <1>1, <1>3, CatSeq DEF CallText, ToolStart, ToolEnd

(* Texts joined are a text. *)
LEMMA FlattenTypes ==
  ASSUME NEW A, NEW n \in Nat, NEW s, s \in [1..n -> Seq(A)]
  PROVE  FlattenSeq(s) \in Seq(A)
<1>1. s \in Seq(Seq(A)) /\ Len(s) = n /\ \A i \in 1..n : s[i] \in Seq(A)
  OBVIOUS
<1>2. CASE n = 0
  <2>1. s = <<>>
    BY <1>1, <1>2
  <2>2. FlattenSeq(s) = s
    BY <1>1, <1>2 DEF FlattenSeq
  <2>3. <<>> \in Seq(A)
    OBVIOUS
  <2> QED
    BY <2>1, <2>2, <2>3
<1>3. CASE n # 0
  <2> DEFINE Eq(g) == g = [i \in 1..n |-> IF i = 1 THEN s[i] ELSE g[i - 1] \o s[i]]
             h == [q \in (1..n) \X Seq(A) |-> q[2] \o s[q[1]]]
  <2>1. FlattenSeq(s) = (CHOOSE g : Eq(g))[n]
    <3>1. FlattenSeq(s) = (CHOOSE g : g = [i \in 1..Len(s) |-> IF i = 1 THEN s[i] ELSE g[i - 1] \o s[i]])[Len(s)]
      BY <1>1, <1>3, Zenon DEF FlattenSeq
    <3> QED
      BY <1>1, <3>1
  <2>2. ASSUME NEW i \in 1..n, NEW q \in Seq(A) PROVE h[<<i, q>>] = q \o s[i] /\ q \o s[i] \in Seq(A)
    <3>1. s[i] \in Seq(A)
      BY <1>1
    <3>2. <<i, q>> \in (1..n) \X Seq(A) /\ <<i, q>>[1] = i /\ <<i, q>>[2] = q
      OBVIOUS
    <3> QED
      BY <3>1, <3>2, CatSeq
  <2>3. Steps(h, n, Seq(A))
    BY <2>2 DEF Steps
  <2> HIDE DEF h
  <2>4. <<>> \in Seq(A)
    OBVIOUS
  <2>5. PICK g : Solves(g, h, n, Seq(A), <<>>)
    BY <2>3, <2>4, Recursion
  <2>6. g \in [0..n -> Seq(A)] /\ g[0] = <<>>
    BY <2>5 DEF Solves
  <2>7. ASSUME NEW i \in 1..n PROVE g[i] = g[i - 1] \o s[i]
    <3>1. g[i] = h[<<i, g[i - 1]>>] /\ g[i - 1] \in Seq(A)
      BY <2>5 DEF Solves
    <3> QED
      BY <2>2, <3>1
  <2> DEFINE k == [i \in 1..n |-> g[i]]
  <2>8. Eq(k)
    <3>1. ASSUME NEW i \in 1..n PROVE k[i] = IF i = 1 THEN s[i] ELSE k[i - 1] \o s[i]
      <4>1. CASE i = 1
        <5>1. g[1] = <<>> \o s[1] /\ s[1] \in Seq(A)
          <6>1. 1 \in 1..n /\ 1 - 1 = 0
            BY <4>1
          <6> QED
            BY <1>1, <2>6, <2>7, <6>1
        <5>2. <<>> \o s[1] = s[1]
          BY <5>1
        <5> QED
          BY <4>1, <5>1, <5>2
      <4>2. CASE i # 1
        <5>1. i - 1 \in 1..n
          BY <4>2
        <5> QED
          BY <2>7, <4>2, <5>1
      <4> QED
        BY <4>1, <4>2
    <3> QED
      BY <3>1
  <2>9. PICK f : f = CHOOSE l : Eq(l)
    OBVIOUS
  <2>10. f = [i \in 1..n |-> IF i = 1 THEN s[i] ELSE f[i - 1] \o s[i]]
    BY <2>8, <2>9
  <2>11. \A i \in 1..n : f[i] = IF i = 1 THEN s[i] ELSE f[i - 1] \o s[i]
    BY <2>10
  <2> DEFINE N == {m \in Nat : m + 1 <= n => f[m + 1] \in Seq(A)}
  <2>12. 0 \in N
    BY <1>1, <2>11
  <2>13. ASSUME NEW m \in N PROVE m + 1 \in N
    <3>1. SUFFICES ASSUME (m + 1) + 1 <= n PROVE f[(m + 1) + 1] \in Seq(A)
      OBVIOUS
    <3>2. m + 1 \in 1..n /\ f[m + 1] \in Seq(A) /\ (m + 1) + 1 \in 1..n /\ (m + 1) + 1 # 1
          /\ ((m + 1) + 1) - 1 = m + 1
      BY <3>1
    <3>3. f[(m + 1) + 1] = f[m + 1] \o s[(m + 1) + 1]
      BY <2>11, <3>2
    <3> QED
      BY <1>1, <3>2, <3>3
  <2>14. N = Nat
    <3> HIDE DEF N
    <3>1. N \in SUBSET Nat
      BY DEF N
    <3> QED
      BY <2>12, <2>13, <3>1, Induction
  <2>15. n - 1 \in Nat /\ (n - 1) + 1 = n
    BY <1>3
  <2>16. f[n] \in Seq(A)
    <3> HIDE DEF N
    <3>1. n - 1 \in N
      BY <2>14, <2>15
    <3> QED
      BY <2>15, <3>1 DEF N
  <2> QED
    BY <2>1, <2>9, <2>16
<1> QED
  BY <1>2, <1>3

(* So are some of them. *)
LEMMA CallTextsAre ==
  ASSUME NEW A, {"<", "tool>", "/tool>", "call", "ht", "tps://", "grok"} \subseteq A, NEW calls \in Seq(Calls)
  PROVE  FlattenSeq([i \in DOMAIN calls |-> CallText(calls[i])]) \in Seq(A)
<1>1. PICK n \in Nat : n = Len(calls) /\ DOMAIN calls = 1..n
  OBVIOUS
<1>2. \A i \in 1..n : CallText(calls[i]) \in Seq(A)
  BY <1>1, CallTextIs
<1>3. [i \in DOMAIN calls |-> CallText(calls[i])] \in [1..n -> Seq(A)]
  BY <1>1, <1>2
<1> QED
  BY <1>3, FlattenTypes

(* Induction up to n. *)
LEMMA UpTo ==
  ASSUME NEW n \in Nat, NEW N \in SUBSET (0..n), 0 \in N, \A i \in 1..n : i - 1 \in N => i \in N
  PROVE  N = 0..n
<1> DEFINE M == {m \in Nat : m <= n => m \in N}
<1>1. \A m \in M : m + 1 \in M
  <2> SUFFICES ASSUME NEW m \in M, m + 1 <= n PROVE m + 1 \in N
    OBVIOUS
  <2>1. m + 1 \in 1..n /\ (m + 1) - 1 = m /\ m \in N
    OBVIOUS
  <2> QED
    BY <2>1
<1>2. 0 \in M /\ M \in SUBSET Nat
  OBVIOUS
<1> HIDE DEF M
<1>3. M = Nat
  BY <1>1, <1>2, Induction
<1>4. ASSUME NEW k \in 0..n PROVE k \in N
  <2>1. k \in M
    BY <1>3
  <2> QED
    BY <2>1 DEF M
<1> QED
  BY <1>4

(* A text with one more symbol is a text. *)
LEMMA AppendSeq ==
  ASSUME NEW X, NEW s \in Seq(X), NEW e \in X
  PROVE  Append(s, e) \in Seq(X)
OBVIOUS

(* What is settled begins no image, and what is held ends none. *)
SaneAcc(A) == [done : Seq(A \ {"!["}), held : Seq(A \ {"img)"}), images : Nat]

(* Such a record is made of its fields. *)
LEMMA SaneIs ==
  ASSUME NEW A, NEW d \in Seq(A \ {"!["}), NEW h \in Seq(A \ {"img)"}), NEW m \in Nat, NEW r,
         r = [done |-> d, held |-> h, images |-> m]
  PROVE  r \in SaneAcc(A)
BY DEF SaneAcc

(* Every step keeps that. *)
LEMMA ScanStepSane ==
  ASSUME NEW A, "pic" \in A, NEW a \in SaneAcc(A), NEW s \in A
  PROVE  ScanStep(a, s) \in SaneAcc(A)
<1>1. PICK d \in Seq(A \ {"!["}), h \in Seq(A \ {"img)"}), m \in Nat :
        a = [done |-> d, held |-> h, images |-> m]
  BY DEF SaneAcc
<1>2. <<>> \in Seq(A \ {"img)"}) /\ Append(d, "pic") \in Seq(A \ {"!["}) /\ m + 1 \in Nat
  BY <1>1
<1>3. CASE h = <<>> /\ s = "!["
  <2>1. <<s>> \in Seq(A \ {"img)"})
    BY <1>3
  <2>2. ScanStep(a, s) = [done |-> d, held |-> <<s>>, images |-> m]
    BY <1>1, <1>3 DEF ScanStep
  <2> QED
    BY <1>1, <2>1, <2>2, SaneIs
<1>4. CASE h = <<>> /\ s # "!["
  <2>3. s \in A \ {"!["}
    BY <1>4
  <2>1. PICK e \in Seq(A \ {"!["}) : e = Append(d, s)
    BY <2>3, AppendSeq
  <2>2. ScanStep(a, s) = [done |-> e, held |-> h, images |-> m]
    BY <1>1, <1>4, <2>1 DEF ScanStep
  <2> QED
    BY <1>1, <2>1, <2>2, SaneIs
<1>5. CASE h # <<>> /\ s = "img)"
  <2>1. ScanStep(a, s) = [done |-> Append(d, "pic"), held |-> <<>>, images |-> m + 1]
    BY <1>1, <1>5 DEF ScanStep
  <2> QED
    BY <1>2, <2>1 DEF SaneAcc
<1>6. CASE h # <<>> /\ s # "img)"
  <2>3. s \in A \ {"img)"}
    BY <1>6
  <2>1. PICK e \in Seq(A \ {"img)"}) : e = Append(h, s)
    BY <2>3, AppendSeq
  <2>2. ScanStep(a, s) = [done |-> d, held |-> e, images |-> m]
    BY <1>1, <1>6, <2>1 DEF ScanStep
  <2> QED
    BY <1>1, <2>1, <2>2, SaneIs
<1> QED
  BY <1>3, <1>4, <1>5, <1>6

(* So it holds of Scan. *)
LEMMA ScanSane ==
  ASSUME NEW A, "pic" \in A, NEW text \in Seq(A)
  PROVE  Scan(text) \in SaneAcc(A)
<1>1. PICK f \in [0..Len(text) -> ScanAcc(A)] : Scans(f, text, Len(text)) /\ Scan(text) = f[Len(text)]
  BY ScanIs
<1> DEFINE n == Len(text)
           S == (0..n) \X SaneAcc(A)
<1>2. n \in Nat /\ \A i \in 1..n : text[i] \in A
  OBVIOUS
<1>3. Scans(f, text, n)
  BY <1>1
<1> HIDE DEF n
<1>4. <<0, f[0]>> \in S
  <2>1. <<>> \in Seq(A \ {"!["}) /\ <<>> \in Seq(A \ {"img)"})
    OBVIOUS
  <2>2. Nothing \in SaneAcc(A)
    BY <2>1 DEF Nothing, SaneAcc
  <2> QED
    BY <1>2, <1>3, <2>2 DEF Scans
<1>5. ASSUME NEW i \in 1..n, <<i - 1, f[i - 1]>> \in S PROVE <<i, f[i]>> \in S
  <2>1. f[i] = ScanStep(f[i - 1], text[i]) /\ f[i - 1] \in SaneAcc(A)
    BY <1>3, <1>5 DEF Scans
  <2> QED
    BY <1>2, <2>1, ScanStepSane
<1>6. \A i \in 0..n : <<i, f[i]>> \in S
  <2> HIDE DEF S
  <2> QED
    BY <1>2, <1>4, <1>5, Kept
<1>7. f[n] \in SaneAcc(A)
  BY <1>2, <1>6
<1> QED
  BY <1>1, <1>7 DEF n

(* Where an image that has not ended began, the text was settled. *)
LEMMA ScanSettled ==
  ASSUME NEW A, "pic" \in A, NEW text \in Seq(A)
  PROVE  /\ Len(Scan(text).held) \in 0..Len(text)
         /\ Scan(SubSeq(text, 1, Len(text) - Len(Scan(text).held))).held = <<>>
<1>1. PICK f \in [0..Len(text) -> ScanAcc(A)] :
           Scans(f, text, Len(text)) /\ \A k \in 0..Len(text) : Scan(SubSeq(text, 1, k)) = f[k]
  BY ScanPrefixes DEF ScanParts
<1>2. PICK n \in Nat : n = Len(text)
  OBVIOUS
<1>3. SubSeq(text, 1, n) = text
  BY <1>2
<1>4. Scan(text) = f[n]
  BY <1>1, <1>2, <1>3
<1>5. Scans(f, text, n) /\ f \in [0..n -> ScanAcc(A)] /\ \A k \in 0..n : f[k].held \in Seq(A)
  BY <1>1, <1>2 DEF ScanAcc
<1> DEFINE N == {k \in 0..n : Len(f[k].held) <= k /\ f[k - Len(f[k].held)].held = <<>>}
<1>6. 0 \in N
  BY <1>2, <1>5 DEF Scans, Nothing
<1>7. ASSUME NEW i \in 1..n, i - 1 \in N PROVE i \in N
  <2>0. i - 1 \in 0..n /\ f[i - 1] \in ScanAcc(A)
    BY <1>5
  <2>1. f[i] = ScanStep(f[i - 1], text[i])
    BY <1>5 DEF Scans
  <2>2. PICK h \in Seq(A) : h = f[i - 1].held
    BY <1>5, <2>0
  <2>9. Len(f[i - 1].held) <= i - 1 /\ f[(i - 1) - Len(f[i - 1].held)].held = <<>>
    BY <1>7
  <2>3. Len(h) <= i - 1 /\ f[i - 1 - Len(h)].held = <<>> /\ i \in 0..n
    BY <2>2, <2>9
  <2>4. CASE h = <<>> /\ text[i] = "!["
    <3>1. f[i].held = <<text[i]>>
      BY <2>1, <2>2, <2>4 DEF ScanStep
    <3>2. Len(f[i].held) = 1
      BY <3>1
    <3>3. f[i - 1].held = <<>>
      BY <2>2, <2>4
    <3>4. Len(f[i].held) <= i /\ f[i - Len(f[i].held)].held = <<>>
      BY <2>3, <3>2, <3>3
    <3> QED
      BY <2>3, <3>4
  <2>5. CASE f[i].held = <<>>
    <3>1. Len(f[i].held) = 0
      BY <2>5
    <3>2. i - Len(f[i].held) = i /\ Len(f[i].held) <= i
      BY <3>1
    <3> QED
      BY <2>3, <2>5, <3>2
  <2>6. CASE h # <<>> /\ text[i] # "img)"
    <3>1. f[i].held = Append(h, text[i])
      BY <2>1, <2>2, <2>6 DEF ScanStep
    <3>2. Len(f[i].held) = Len(h) + 1 /\ Len(h) \in Nat
      BY <3>1
    <3>3. i - Len(f[i].held) = i - 1 - Len(h)
      BY <3>2
    <3>4. Len(f[i].held) <= i /\ f[i - Len(f[i].held)].held = <<>>
      BY <2>3, <3>2, <3>3
    <3> QED
      BY <2>3, <3>4
  <2>7. CASE h = <<>> /\ text[i] # "!["
    <3>1. f[i].held = <<>>
      BY <2>0, <2>1, <2>2, <2>7 DEF ScanStep, ScanAcc
    <3> QED
      BY <2>5, <3>1
  <2>8. CASE h # <<>> /\ text[i] = "img)"
    <3>1. f[i].held = <<>>
      BY <2>1, <2>2, <2>8 DEF ScanStep
    <3> QED
      BY <2>5, <3>1
  <2> QED
    BY <2>4, <2>6, <2>7, <2>8
<1>8. N = 0..n
  <2>1. N \in SUBSET (0..n)
    OBVIOUS
  <2> HIDE DEF N
  <2> QED
    BY <1>6, <1>7, <2>1, UpTo
<1>9. Len(f[n].held) \in 0..n /\ f[n - Len(f[n].held)].held = <<>>
  <2>1. n \in N
    <3> HIDE DEF N
    <3> QED
      BY <1>8
  <2>2. f[n].held \in Seq(A)
    BY <1>5
  <2> QED
    BY <2>1, <2>2
<1>10. Scan(SubSeq(text, 1, n - Len(f[n].held))).held = <<>>
  <2>1. n - Len(f[n].held) \in 0..n
    BY <1>9
  <2> QED
    BY <1>1, <1>2, <1>9, <2>1
<1> QED
  BY <1>2, <1>4, <1>9, <1>10

(* Texts can be joined in any order. *)
LEMMA CatAssoc ==
  ASSUME NEW X, NEW v \in Seq(X), NEW w \in Seq(X), NEW x \in Seq(X)
  PROVE  (v \o w) \o x = v \o (w \o x)
OBVIOUS

(* A symbol after two texts is after the second. *)
LEMMA AppendTail ==
  ASSUME NEW X, NEW v \in Seq(X), NEW w \in Seq(X), NEW z
  PROVE  Append(v \o w, z) = v \o Append(w, z)
OBVIOUS

(* The same for values that have names. *)
LEMMA AppendAfter ==
  ASSUME NEW X, NEW v \in Seq(X), NEW w \in Seq(X), NEW z, NEW v1, v1 = v \o w,
         NEW w2, w2 = Append(w, z), NEW v2, v2 = Append(v1, z)
  PROVE  v2 = v \o w2
BY AppendTail

Behind(d, k, p, q) ==
  p.done = d \o q.done /\ p.held = q.held /\ p.images = k + q.images

(* A step after the settled text d with k images keeps what is gathered that far behind. *)
LEMMA StepBehind ==
  ASSUME NEW A, NEW d \in Seq(A), NEW k \in Nat, NEW p \in ScanAcc(A), NEW q \in ScanAcc(A),
         NEW y, Behind(d, k, p, q)
  PROVE  Behind(d, k, ScanStep(p, y), ScanStep(q, y))
<1>1. PICK e \in Seq(A), x \in Seq(A), j \in Nat : q = [done |-> e, held |-> x, images |-> j]
  BY DEF ScanAcc
<1>2. PICK c \in Seq(A) : c = d \o e
  BY CatSeq
<1>3. p = [done |-> c, held |-> x, images |-> k + j]
  <2>1. p.done = c /\ p.held = x /\ p.images = k + j
    BY <1>1, <1>2 DEF Behind
  <2> QED
    BY <2>1 DEF ScanAcc
<1>4. CASE x = <<>> /\ y = "!["
  <2>1. /\ ScanStep(p, y) = [done |-> c, held |-> <<y>>, images |-> k + j]
        /\ ScanStep(q, y) = [done |-> e, held |-> <<y>>, images |-> j]
    BY <1>1, <1>3, <1>4 DEF ScanStep
  <2> QED
    BY <1>2, <2>1 DEF Behind
<1>5. CASE x = <<>> /\ y # "!["
  <2>1. PICK e1, c1 : e1 = Append(e, y) /\ c1 = Append(c, y)
    OBVIOUS
  <2>2. /\ ScanStep(p, y) = [done |-> c1, held |-> x, images |-> k + j]
        /\ ScanStep(q, y) = [done |-> e1, held |-> x, images |-> j]
    BY <1>1, <1>3, <1>5, <2>1 DEF ScanStep
  <2>3. c1 = d \o e1
    BY Zenon, <1>1, <1>2, <2>1, AppendAfter
  <2> QED
    BY <2>2, <2>3 DEF Behind
<1>6. CASE x # <<>> /\ y = "img)"
  <2>1. PICK e1, c1 : e1 = Append(e, "pic") /\ c1 = Append(c, "pic")
    OBVIOUS
  <2>2. /\ ScanStep(p, y) = [done |-> c1, held |-> <<>>, images |-> (k + j) + 1]
        /\ ScanStep(q, y) = [done |-> e1, held |-> <<>>, images |-> j + 1]
    BY <1>1, <1>3, <1>6, <2>1 DEF ScanStep
  <2>3. c1 = d \o e1
    BY Zenon, <1>1, <1>2, <2>1, AppendAfter
  <2>4. (k + j) + 1 = k + (j + 1)
    OBVIOUS
  <2> QED
    BY <2>2, <2>3, <2>4 DEF Behind
<1>7. CASE x # <<>> /\ y # "img)"
  <2>1. PICK x1 : x1 = Append(x, y)
    OBVIOUS
  <2>2. /\ ScanStep(p, y) = [done |-> c, held |-> x1, images |-> k + j]
        /\ ScanStep(q, y) = [done |-> e, held |-> x1, images |-> j]
    BY <1>1, <1>3, <1>7, <2>1 DEF ScanStep
  <2> QED
    BY <1>2, <2>2 DEF Behind
<1> QED
  BY <1>4, <1>5, <1>6, <1>7

(* After a settled text a text is read as if it began there. *)
LEMMA ScanAfter ==
  ASSUME NEW A, "pic" \in A, NEW s \in Seq(A), NEW t \in Seq(A), Scan(s).held = <<>>
  PROVE  /\ Scan(s \o t).held = Scan(t).held
         /\ Scan(s \o t).done = Scan(s).done \o Scan(t).done
         /\ Scan(s \o t).images = Scan(s).images + Scan(t).images
<1>1. PICK u \in Seq(A) : u = s \o t
  BY CatSeq
<1>2. PICK m \in Nat, n \in Nat : m = Len(s) /\ n = Len(t)
  OBVIOUS
<1>3. Len(u) = m + n /\ \A i \in 1..m : u[i] = s[i]
  BY <1>1, <1>2
<1>4. ASSUME NEW i \in 1..n PROVE u[m + i] = t[i]
  BY <1>1, <1>2
<1>5. PICK f \in [0..(m + n) -> ScanAcc(A)] : Scans(f, u, m + n) /\ ScanParts(f, u)
  BY <1>3, ScanPrefixes
<1>6. f[m] = Scan(s) /\ f[m + n] = Scan(u)
  <2>1. SubSeq(u, 1, m) = s /\ SubSeq(u, 1, m + n) = u
    BY <1>1, <1>2, <1>3
  <2>2. m \in 0..(m + n) /\ m + n \in 0..(m + n)
    OBVIOUS
  <2> QED
    BY <1>3, <1>5, <2>1, <2>2 DEF ScanParts
<1>7. PICK h \in [0..n -> ScanAcc(A)] : Scans(h, t, n) /\ Scan(t) = h[n]
  BY <1>2, ScanIs
<1>8. PICK d \in Seq(A), k \in Nat : f[m].done = d /\ f[m].held = <<>> /\ f[m].images = k
  <2>1. f[m] \in ScanAcc(A) /\ f[m].held = <<>>
    BY <1>5, <1>6
  <2> QED
    BY <2>1 DEF ScanAcc
<1> DEFINE N == {i \in 0..n : Behind(d, k, f[m + i], h[i])}
<1>9. 0 \in N
  <2>1. h[0].done = <<>> /\ h[0].held = <<>> /\ h[0].images = 0 /\ d \o <<>> = d /\ k + 0 = k /\ m + 0 = m
    BY <1>7 DEF Scans, Nothing
  <2>2. Behind(d, k, f[m], h[0])
    BY <1>8, <2>1 DEF Behind
  <2> QED
    BY <2>1, <2>2
<1>10. ASSUME NEW i \in 1..n, i - 1 \in N PROVE i \in N
  <2>1. i - 1 \in 0..n /\ m + (i - 1) \in 0..(m + n) /\ (m + i) - 1 = m + (i - 1) /\ m + i \in 1..(m + n)
    OBVIOUS
  <2>2. f[m + i] = ScanStep(f[m + (i - 1)], t[i]) /\ h[i] = ScanStep(h[i - 1], t[i])
    BY <1>4, <1>5, <1>7, <2>1 DEF Scans
  <2>3. f[m + (i - 1)] \in ScanAcc(A) /\ h[i - 1] \in ScanAcc(A)
    BY <1>5, <1>7, <2>1
  <2>4. Behind(d, k, f[m + (i - 1)], h[i - 1])
    BY <1>10
  <2>5. Behind(d, k, f[m + i], h[i])
    BY <2>2, <2>3, <2>4, StepBehind
  <2> QED
    BY <2>5
<1>11. n \in N
  <2>1. N \in SUBSET (0..n)
    OBVIOUS
  <2> HIDE DEF N
  <2>2. N = 0..n
    BY <1>9, <1>10, <2>1, UpTo
  <2> QED
    BY <2>2
<1>12. Behind(d, k, f[m + n], h[n])
  BY <1>11
<1> QED
  BY <1>1, <1>6, <1>7, <1>8, <1>12 DEF Behind

(* An end without a beginning before it and a beginning without an end after
   it make no image. *)
LEMMA NoImages ==
  ASSUME NEW A, "pic" \in A, NEW d \in Seq(A \ {"!["}), NEW h \in Seq(A \ {"img)"})
  PROVE  Scan(d \o h).images = 0 /\ (h = <<>> => Scan(d).held = <<>>)
<1>0. d \in Seq(A) /\ h \in Seq(A)
  OBVIOUS
<1>1. PICK u \in Seq(A) : u = d \o h
  BY <1>0, CatSeq
<1>2. PICK m \in Nat, n \in Nat : m = Len(d) /\ n = Len(h)
  OBVIOUS
<1>3. Len(u) = m + n /\ \A i \in 1..m : u[i] # "!["
  <2>1. \A i \in 1..m : d[i] \in A \ {"!["}
    BY <1>2
  <2> QED
    BY <1>0, <1>1, <1>2, <2>1
<1>4. ASSUME NEW i \in 1..(m + n), i > m PROVE u[i] # "img)"
  <2>1. \A k \in 1..n : h[k] \in A \ {"img)"}
    BY <1>2
  <2>2. u[i] = h[i - m] /\ i - m \in 1..n
    BY <1>0, <1>1, <1>2, <1>4
  <2> QED
    BY <2>1, <2>2
<1>5. PICK f \in [0..(m + n) -> ScanAcc(A)] : Scans(f, u, m + n) /\ Scan(u) = f[m + n]
  BY <1>3, ScanIs
<1> DEFINE N == {i \in 0..(m + n) : f[i].images = 0 /\ (i <= m => f[i].held = <<>>)}
<1>6. 0 \in N
  BY <1>5 DEF Scans, Nothing
<1>7. ASSUME NEW i \in 1..(m + n), i - 1 \in N PROVE i \in N
  <2>1. PICK e \in Seq(A), x \in Seq(A) : f[i - 1] = [done |-> e, held |-> x, images |-> 0]
    BY <1>5, <1>7 DEF ScanAcc
  <2>2. f[i] = ScanStep(f[i - 1], u[i])
    BY <1>5 DEF Scans
  <2>3. CASE i <= m
    <3>1. x = <<>> /\ u[i] # "!["
      BY <1>3, <1>7, <2>1, <2>3
    <3>2. f[i].held = <<>> /\ f[i].images = 0
      BY <2>1, <2>2, <3>1 DEF ScanStep
    <3> QED
      BY <3>2
  <2>4. CASE i > m
    <3>1. u[i] # "img)"
      BY <1>4, <2>4
    <3>2. f[i].images = 0
      BY <2>1, <2>2, <3>1 DEF ScanStep
    <3> QED
      BY <2>4, <3>2
  <2> QED
    BY <2>3, <2>4
<1>8. m + n \in N
  <2>1. N \in SUBSET (0..(m + n))
    OBVIOUS
  <2> HIDE DEF N
  <2>2. N = 0..(m + n)
    BY <1>6, <1>7, <2>1, UpTo
  <2> QED
    BY <2>2
<1>9. ASSUME h = <<>> PROVE Scan(d).held = <<>>
  <2>1. n = 0 /\ u = d /\ m + n = m
    BY <1>0, <1>1, <1>2, <1>9
  <2> QED
    BY <1>5, <1>8, <2>1
<1> QED
  BY <1>1, <1>5, <1>8, <1>9

(* The last of what is settled stands for the last of the text, and the    *)
(* one before it for the one before: or there an image was replaced.       *)
EndsLike(d, text, k) ==
  d # <<>> /\ \/ d[Len(d)] = "pic"
              \/ d[Len(d)] = text[k] /\ (Len(d) > 1 => k > 1 /\ d[Len(d) - 1] \in {text[k - 1], "pic"})

(* The first does so too, and what is held begins where an image does.     *)
Borders(text, k, d, h) ==
  /\ k = 0 => d = <<>> /\ h = <<>>
  /\ k # 0 => \/ d # <<>> /\ d[1] \in {text[1], "pic"}
              \/ d = <<>> /\ h # <<>> /\ h[1] = text[1]
  /\ k # 0 /\ h = <<>> => EndsLike(d, text, k)
  /\ h # <<>> => Len(h) <= k /\ text[k - Len(h) + 1] = "!["

(* What a symbol more does to a text that has some. *)
LEMMA AppendIs ==
  ASSUME NEW X, NEW s \in Seq(X), NEW e \in X, NEW t, t = Append(s, e)
  PROVE  /\ t \in Seq(X) /\ t # <<>> /\ Len(t) = Len(s) + 1 /\ t[Len(t)] = e
         /\ t[1] = IF s = <<>> THEN e ELSE s[1]
         /\ s # <<>> => t[Len(t) - 1] = s[Len(s)]
OBVIOUS

(* Each step keeps that: a symbol that is not an image's. *)
LEMMA BordersPlain ==
  ASSUME NEW A, NEW text \in Seq(A), NEW k \in Nat, k + 1 <= Len(text), NEW d \in Seq(A), Borders(text, k, d, <<>>),
         NEW e, e = Append(d, text[k + 1])
  PROVE  Borders(text, k + 1, e, <<>>)
<1>1. /\ e # <<>> /\ Len(e) = Len(d) + 1 /\ e[Len(e)] = text[k + 1]
      /\ e[1] = IF d = <<>> THEN text[k + 1] ELSE d[1]
      /\ d # <<>> => e[Len(e) - 1] = d[Len(d)]
  <2>1. text[k + 1] \in A
    OBVIOUS
  <2> QED
    BY <2>1, AppendIs
<1>2. CASE k = 0
  <2>1. d = <<>> /\ Len(e) = 1 /\ e[1] = text[1]
    BY <1>1, <1>2 DEF Borders
  <2> QED
    BY <1>1, <1>2, <2>1 DEF Borders, EndsLike
<1>3. CASE k # 0
  <2>1. EndsLike(d, text, k) /\ d # <<>> /\ d[1] \in {text[1], "pic"}
    BY <1>3 DEF Borders, EndsLike
  <2>2. e[1] \in {text[1], "pic"}
    BY <1>1, <2>1
  <2>3. (k + 1) - 1 = k /\ k + 1 > 1
    BY <1>3
  <2>4. e[Len(e) - 1] \in {text[k], "pic"}
    BY <1>1, <2>1 DEF EndsLike
  <2>5. EndsLike(e, text, k + 1)
    BY <1>1, <2>3, <2>4 DEF EndsLike
  <2> QED
    BY <1>1, <2>2, <2>5 DEF Borders
<1> QED
  BY <1>2, <1>3

(* An image that begins. *)
LEMMA BordersBegin ==
  ASSUME NEW A, NEW text \in Seq(A), NEW k \in Nat, k + 1 <= Len(text), NEW d \in Seq(A), Borders(text, k, d, <<>>),
         text[k + 1] = "!["
  PROVE  Borders(text, k + 1, d, <<"![">>)
<1>1. <<"![">> # <<>> /\ Len(<<"![">>) = 1 /\ <<"![">>[1] = "!["
  OBVIOUS
<1>2. (k + 1) - 1 + 1 = k + 1
  OBVIOUS
<1>3. (d # <<>> /\ d[1] \in {text[1], "pic"}) \/ (d = <<>> /\ text[1] = "![")
  BY DEF Borders
<1> QED
  BY <1>1, <1>2, <1>3 DEF Borders

(* An image that goes on. *)
LEMMA BordersOn ==
  ASSUME NEW A, NEW text \in Seq(A), NEW k \in Nat, k + 1 <= Len(text), NEW d \in Seq(A), NEW h \in Seq(A), h # <<>>,
         Borders(text, k, d, h), NEW g, g = Append(h, text[k + 1])
  PROVE  Borders(text, k + 1, d, g)
<1>1. g # <<>> /\ Len(g) = Len(h) + 1 /\ g[1] = h[1]
  <2>1. text[k + 1] \in A
    OBVIOUS
  <2> QED
    BY <2>1, AppendIs
<1>2. Len(h) \in Nat /\ Len(h) <= k /\ text[k - Len(h) + 1] = "!["
  BY DEF Borders
<1>3. Len(g) <= k + 1 /\ (k + 1) - Len(g) + 1 = k - Len(h) + 1 /\ k # 0
  BY <1>1, <1>2
<1>4. (d # <<>> /\ d[1] \in {text[1], "pic"}) \/ (d = <<>> /\ g[1] = text[1])
  BY <1>1, <1>3 DEF Borders
<1> QED
  BY <1>1, <1>2, <1>3, <1>4 DEF Borders

(* An image that ends. *)
LEMMA BordersEnd ==
  ASSUME NEW A, "pic" \in A, NEW text \in Seq(A), NEW k \in Nat, NEW d \in Seq(A), NEW h, h # <<>>,
         Borders(text, k, d, h), NEW e, e = Append(d, "pic")
  PROVE  Borders(text, k + 1, e, <<>>)
<1>1. e # <<>> /\ e[Len(e)] = "pic" /\ e[1] = IF d = <<>> THEN "pic" ELSE d[1]
  BY AppendIs
<1>2. e[1] \in {text[1], "pic"}
  BY <1>1 DEF Borders
<1> QED
  BY <1>1, <1>2 DEF Borders, EndsLike

(* So it holds of Scan. *)
LEMMA ScanBorders ==
  ASSUME NEW A, "pic" \in A, NEW text \in Seq(A)
  PROVE  Borders(text, Len(text), Scan(text).done, Scan(text).held)
<1>1. PICK f \in [0..Len(text) -> ScanAcc(A)] : Scans(f, text, Len(text)) /\ Scan(text) = f[Len(text)]
  BY ScanIs
<1>2. PICK n \in Nat : n = Len(text)
  OBVIOUS
<1>3. f \in [0..n -> ScanAcc(A)] /\ Scans(f, text, n) /\ Scan(text) = f[n]
  BY <1>1, <1>2
<1> DEFINE N == {k \in 0..n : Borders(text, k, f[k].done, f[k].held)}
<1>4. 0 \in N
  <2>1. f[0].done = <<>> /\ f[0].held = <<>>
    BY <1>3 DEF Scans, Nothing
  <2> QED
    BY <2>1 DEF Borders
<1>5. ASSUME NEW i \in 1..n, i - 1 \in N PROVE i \in N
  <2>1. PICK k \in Nat : k = i - 1 /\ i = k + 1 /\ k + 1 <= Len(text) /\ k \in 0..n
    BY <1>2
  <2>2. f[k + 1] = ScanStep(f[k], text[k + 1]) /\ f[k] \in ScanAcc(A)
    BY <1>3, <2>1 DEF Scans
  <2>3. PICK d \in Seq(A), h \in Seq(A), m \in Nat : f[k] = [done |-> d, held |-> h, images |-> m]
    BY <2>2 DEF ScanAcc
  <2>4. Borders(text, k, d, h)
    BY <1>5, <2>1, <2>3
  <2>9. Borders(text, k + 1, f[k + 1].done, f[k + 1].held) => i \in N
    BY <2>1
  <2>5. CASE h = <<>> /\ text[k + 1] = "!["
    <3>1. f[k + 1].done = d /\ f[k + 1].held = <<"![">>
      BY <2>2, <2>3, <2>5 DEF ScanStep
    <3>2. Borders(text, k + 1, d, <<"![">>)
      BY <2>1, <2>4, <2>5, BordersBegin
    <3> QED
      BY <2>9, <3>1, <3>2
  <2>6. CASE h = <<>> /\ text[k + 1] # "!["
    <3>1. f[k + 1].done = Append(d, text[k + 1]) /\ f[k + 1].held = <<>>
      BY <2>2, <2>3, <2>6 DEF ScanStep
    <3>2. Borders(text, k + 1, Append(d, text[k + 1]), <<>>)
      BY <2>1, <2>4, <2>6, BordersPlain
    <3> QED
      BY <2>9, <3>1, <3>2
  <2>7. CASE h # <<>> /\ text[k + 1] = "img)"
    <3>1. f[k + 1].done = Append(d, "pic") /\ f[k + 1].held = <<>>
      BY <2>2, <2>3, <2>7 DEF ScanStep
    <3>2. Borders(text, k + 1, Append(d, "pic"), <<>>)
      BY <2>4, <2>7, BordersEnd
    <3> QED
      BY <2>9, <3>1, <3>2
  <2>8. CASE h # <<>> /\ text[k + 1] # "img)"
    <3>1. f[k + 1].done = d /\ f[k + 1].held = Append(h, text[k + 1])
      BY <2>2, <2>3, <2>8 DEF ScanStep
    <3>2. Borders(text, k + 1, d, Append(h, text[k + 1]))
      BY <2>1, <2>4, <2>8, BordersOn
    <3> QED
      BY <2>9, <3>1, <3>2
  <2> QED
    BY <2>5, <2>6, <2>7, <2>8
<1>6. n \in N
  <2>1. N \in SUBSET (0..n)
    OBVIOUS
  <2> HIDE DEF N
  <2>2. N = 0..n
    BY <1>4, <1>5, <2>1, UpTo
  <2> QED
    BY <2>2
<1> QED
  BY <1>2, <1>3, <1>6

(* A sequence with a length has elements. *)
LEMMA SomeIs ==
  ASSUME NEW X, NEW s \in Seq(X), Len(s) > 0
  PROVE  s # <<>>
OBVIOUS

(* A link is at position i; a text ends in its first piece, or in two.     *)
LinkAt(text, i) == text[i] = "ht" /\ text[i + 1] = "tps://" /\ text[i + 2] = "grok"
EndsHalf(text) == text # <<>> /\ text[Len(text)] = "ht"
EndsScheme(text) == Len(text) > 1 /\ text[Len(text) - 1] = "ht" /\ text[Len(text)] = "tps://"

(* The second text goes on where the first ends in a piece of a link.      *)
Joins(s, u) ==
  u # <<>> /\ ((EndsHalf(s) /\ u[1] = "tps://") \/ (EndsScheme(s) /\ u[1] = "grok"))

(* It does not, nor can what comes after it: it is there to be in between. *)
Apart(s, g) == ~Joins(s, g) /\ (EndsHalf(s) \/ EndsScheme(s) => g # <<>>)

(* A link, symbol by symbol. *)
LEMMA LinksAre ==
  ASSUME NEW text \in Seq(Symbols)
  PROVE  \A i : i \in Links(text) <=> i \in 1..(Len(text) - 2) /\ LinkAt(text, i)
<1>1. ASSUME NEW i \in 1..(Len(text) - 2) PROVE SubSeq(text, i, i + 2) = Link <=> LinkAt(text, i)
  <2>1. i \in Nat /\ i >= 1 /\ i + 2 \in Nat /\ i + 2 <= Len(text)
    OBVIOUS
  <2>2. PICK s \in Seq(Symbols) : s = SubSeq(text, i, i + 2)
    BY <2>1, Piece
  <2>3. Len(s) = 3 /\ s[1] = text[i] /\ s[2] = text[i + 1] /\ s[3] = text[i + 2]
    <3>1. Len(s) = (i + 2) - i + 1 /\ \A j \in 1..((i + 2) - i + 1) : s[j] = text[i + j - 1]
      BY <2>1, <2>2, Piece
    <3> QED
      BY <3>1
  <2>4. Link = <<"ht", "tps://", "grok">>
    BY DEF Link
  <2>5. s = <<"ht", "tps://", "grok">> <=> s[1] = "ht" /\ s[2] = "tps://" /\ s[3] = "grok"
    BY <2>3
  <2> QED
    BY <2>2, <2>3, <2>4, <2>5 DEF LinkAt
<1> QED
  BY <1>1 DEF Links

(* A text has a number of links, and none if it is too short. *)
LEMMA LinksFinite ==
  ASSUME NEW text \in Seq(Symbols)
  PROVE  Cardinality(Links(text)) \in Nat /\ (Len(text) < 3 => Links(text) = {})
<1>1. IsFiniteSet(1..Len(text)) /\ Links(text) \subseteq 1..Len(text)
  BY FS_Interval DEF Links
<1>2. IsFiniteSet(Links(text))
  BY <1>1, FS_Subset
<1>3. Cardinality(Links(text)) \in Nat
  BY <1>2, FS_CardinalityType
<1>4. ASSUME Len(text) < 3 PROVE Links(text) = {}
  BY <1>4 DEF Links
<1> QED
  BY <1>3, <1>4

(* A text without links that does not go on with one adds none. *)
LEMMA LinksStay ==
  ASSUME NEW text \in Seq(Symbols), NEW u \in Seq(Symbols), Links(u) = {}, ~Joins(text, u)
  PROVE  Links(text \o u) = Links(text)
<1>1. PICK m \in Nat, n \in Nat, v \in Seq(Symbols) : m = Len(text) /\ n = Len(u) /\ v = text \o u
  <2>1. text \o u \in Seq(Symbols)
    BY CatSeq
  <2>2. Len(text) \in Nat /\ Len(u) \in Nat
    OBVIOUS
  <2> QED
    BY Zenon, <2>1, <2>2
<1>2. Len(v) = m + n /\ (\A i \in 1..m : v[i] = text[i]) /\ (\A i \in 1..n : v[m + i] = u[i])
  BY <1>1
<1>3. ASSUME NEW i \in Links(text) PROVE i \in Links(v)
  <2>1. i \in 1..(m - 2) /\ LinkAt(text, i)
    BY <1>1, LinksAre
  <2>2. i \in 1..(m + n - 2) /\ v[i] = text[i] /\ v[i + 1] = text[i + 1] /\ v[i + 2] = text[i + 2]
    BY <1>2, <2>1
  <2>3. LinkAt(v, i)
    BY <2>1, <2>2 DEF LinkAt
  <2> QED
    BY <1>2, <2>2, <2>3, LinksAre
<1>4. ASSUME NEW i \in Links(v) PROVE i \in Links(text)
  <2>1. i \in 1..(m + n - 2) /\ LinkAt(v, i)
    BY <1>2, LinksAre
  <2>2. CASE i + 2 <= m
    <3>1. i \in 1..(m - 2) /\ v[i] = text[i] /\ v[i + 1] = text[i + 1] /\ v[i + 2] = text[i + 2]
      BY <1>2, <2>1, <2>2
    <3>2. LinkAt(text, i)
      BY <2>1, <3>1 DEF LinkAt
    <3> QED
      BY <1>1, <3>1, <3>2, LinksAre
  <2>3. CASE i > m
    <3>1. PICK j \in Nat : j = i - m /\ j \in 1..(n - 2) /\ i = m + j
      BY <2>1, <2>3
    <3>2. v[i] = u[j] /\ v[i + 1] = u[j + 1] /\ v[i + 2] = u[j + 2]
      <4>1. j \in 1..n /\ j + 1 \in 1..n /\ j + 2 \in 1..n
        BY <3>1
      <4>2. v[m + j] = u[j] /\ v[m + (j + 1)] = u[j + 1] /\ v[m + (j + 2)] = u[j + 2]
        BY <1>2, <4>1
      <4>3. m + (j + 1) = i + 1 /\ m + (j + 2) = i + 2
        BY <3>1
      <4> QED
        BY <3>1, <4>2, <4>3
    <3>3. LinkAt(u, j)
      BY <2>1, <3>2 DEF LinkAt
    <3>4. j \in Links(u)
      BY <1>1, <3>1, <3>3, LinksAre
    <3> QED
      BY <3>4
  <2>4. CASE i + 1 = m
    <3>1. v[i] = text[m - 1] /\ v[i + 1] = text[m] /\ v[i + 2] = u[1] /\ n > 0 /\ m > 1
      <4>1. 1 \in 1..n /\ i \in 1..m /\ i + 1 \in 1..m /\ i + 2 = m + 1 /\ i = m - 1
        BY <2>1, <2>4
      <4> QED
        BY <1>2, <2>4, <4>1
    <3>2. EndsScheme(text) /\ u[1] = "grok" /\ u # <<>>
      BY <1>1, <2>1, <3>1 DEF LinkAt, EndsScheme
    <3> QED
      BY <3>2 DEF Joins
  <2>5. CASE i = m
    <3>1. v[i] = text[m] /\ v[i + 1] = u[1] /\ n > 0 /\ m > 0
      <4>1. 1 \in 1..n /\ i \in 1..m
        BY <2>1, <2>5
      <4> QED
        BY <1>2, <2>5, <4>1
    <3>2. EndsHalf(text) /\ u[1] = "tps://" /\ u # <<>>
      BY <1>1, <2>1, <3>1 DEF LinkAt, EndsHalf
    <3> QED
      BY <3>2 DEF Joins
  <2> QED
    BY <2>1, <2>2, <2>3, <2>4, <2>5
<1>5. Links(v) = Links(text)
  BY <1>3, <1>4
<1> QED
  BY <1>1, <1>5

(* What ends apart from what comes next does so after another text. *)
LEMMA ApartThen ==
  ASSUME NEW s \in Seq(Symbols), NEW u \in Seq(Symbols), NEW r \in Seq(Symbols),
         ~Joins(s, u), Apart(u, r), u = <<>> => Apart(s, r)
  PROVE  Apart(s \o u, r)
<1>1. CASE u = <<>>
  <2>1. s \o u = s
    BY <1>1
  <2> QED
    BY <1>1, <2>1
<1>2. CASE u # <<>>
  <2>1. PICK v \in Seq(Symbols) : v = s \o u
    BY CatSeq
  <2>6. PICK m \in Nat, n \in Nat : m = Len(s) /\ n = Len(u) /\ n > 0
    BY <1>2
  <2>7. Len(v) = m + n /\ (\A i \in 1..m : v[i] = s[i]) /\ (\A i \in 1..n : v[m + i] = u[i])
    BY <2>1, <2>6
  <2>2. v[Len(v)] = u[Len(u)] /\ v # <<>>
    BY <2>6, <2>7
  <2>3. EndsHalf(v) => EndsHalf(u)
    BY <1>2, <2>2 DEF EndsHalf
  <2>4. ASSUME EndsScheme(v) PROVE EndsScheme(u)
    <3>1. CASE Len(u) > 1
      <4>1. v[Len(v) - 1] = u[Len(u) - 1]
        <5>1. n - 1 \in 1..n /\ m + (n - 1) = Len(v) - 1
          BY <2>6, <2>7, <3>1
        <5> QED
          BY <2>6, <2>7, <5>1
      <4> QED
        BY <2>2, <2>4, <3>1, <4>1 DEF EndsScheme
    <3>2. CASE Len(u) = 1
      <4>1. Len(v) - 1 = m /\ m > 0
        BY <2>4, <2>6, <2>7, <3>2 DEF EndsScheme
      <4>2. s # <<>> /\ v[Len(v) - 1] = s[Len(s)]
        BY <2>6, <2>7, <4>1
      <4>3. EndsHalf(s) /\ u[1] = "tps://"
        BY <2>2, <2>4, <3>2, <4>2 DEF EndsScheme, EndsHalf
      <4> QED
        BY <1>2, <4>3 DEF Joins
    <3> QED
      BY <2>6, <3>1, <3>2
  <2>5. Apart(v, r)
    BY <2>3, <2>4 DEF Apart, Joins
  <2> QED
    BY <2>1, <2>5
<1> QED
  BY <1>1, <1>2

(* A text in which no image ends. *)
Plain(u) == \E d \in Seq(Symbols \ {"!["}), h \in Seq(Symbols \ {"img)"}) : u = d \o h

(* It has no image. *)
LEMMA PlainIs ==
  ASSUME NEW u, Plain(u)
  PROVE  u \in Seq(Symbols) /\ Scan(u).images = 0
<1>1. PICK d \in Seq(Symbols \ {"!["}), h \in Seq(Symbols \ {"img)"}) : u = d \o h
  BY DEF Plain
<1>2. d \in Seq(Symbols) /\ h \in Seq(Symbols)
  OBVIOUS
<1>3. u \in Seq(Symbols)
  BY <1>1, <1>2, CatSeq
<1>4. "pic" \in Symbols
  BY DEF Symbols
<1>5. Scan(d \o h).images = 0
  BY <1>4, NoImages
<1> QED
  BY <1>1, <1>3, <1>5

(* It stays plain when no image can end in what follows. *)
LEMMA PlainThen ==
  ASSUME NEW u, Plain(u), NEW z \in Seq(Symbols \ {"img)"})
  PROVE  Plain(u \o z)
<1>1. PICK d \in Seq(Symbols \ {"!["}), h \in Seq(Symbols \ {"img)"}) : u = d \o h
  BY DEF Plain
<1>2. PICK k \in Seq(Symbols \ {"img)"}) : k = h \o z
  BY CatSeq
<1>3. d \in Seq(Symbols) /\ h \in Seq(Symbols) /\ z \in Seq(Symbols)
  OBVIOUS
<1>4. (d \o h) \o z = d \o (h \o z)
  BY <1>3, CatAssoc
<1>5. u \o z = d \o k
  BY Zenon, <1>1, <1>2, <1>4
<1> QED
  BY <1>5 DEF Plain

(* rewriteContent without the binding. *)
LEMMA RewriteIs ==
  ASSUME NEW on, NEW works, NEW t
  PROVE  RewriteContent(on, works, t) =
           IF ~on THEN [ok |-> TRUE, out |-> t]
           ELSE IF (HasImage(t) /\ ~works) \/ Links(Rewritten(t)) # {} THEN [ok |-> FALSE, out |-> <<>>]
           ELSE [ok |-> TRUE, out |-> Rewritten(t)]
BY Only DEF RewriteContent, Bind

(* Two texts begin alike, and end alike: what the second ends in, so does  *)
(* the first.                                                              *)
Alike(t, o) ==
  /\ t = <<>> <=> o = <<>>
  /\ t # <<>> => o[1] \in {t[1], "pic"}
EndAlike(t, o) == (EndsHalf(o) => EndsHalf(t)) /\ (EndsScheme(o) => EndsScheme(t))

(* Where images begin or end there is no piece of a link. *)
LEMMA LikeEnds ==
  ASSUME NEW t \in Seq(Symbols), t # <<>>, NEW d, EndsLike(d, t, Len(t))
  PROVE  EndAlike(t, d)
<1>1. EndsHalf(d) => EndsHalf(t)
  BY DEF EndsHalf, EndsLike
<1>2. ASSUME EndsScheme(d) PROVE EndsScheme(t)
  <2>1. d[Len(d)] = "tps://" /\ d[Len(d) - 1] = "ht" /\ Len(d) > 1
    BY <1>2 DEF EndsScheme
  <2>2. d[Len(d)] = t[Len(t)] /\ Len(t) > 1 /\ d[Len(d) - 1] \in {t[Len(t) - 1], "pic"}
    BY <2>1 DEF EndsLike
  <2> QED
    BY <2>1, <2>2 DEF EndsScheme
<1> QED
  BY <1>1, <1>2 DEF EndAlike

(* A rewritten text has no image, begins as the text does, and is settled  *)
(* and ends as the text does if the text was settled.                      *)
LEMMA RewrittenIs ==
  ASSUME NEW t \in Seq(Symbols), NEW o, o = Rewritten(t)
  PROVE  /\ o \in Seq(Symbols) /\ Plain(o) /\ Alike(t, o)
         /\ Scan(t).held = <<>> => Scan(o).held = <<>> /\ EndAlike(t, o)
<1>0. "pic" \in Symbols
  BY DEF Symbols
<1>1. PICK d \in Seq(Symbols \ {"!["}), h \in Seq(Symbols \ {"img)"}) : d = Scan(t).done /\ h = Scan(t).held
  BY <1>0, ScanSane DEF SaneAcc
<1>2. d \in Seq(Symbols) /\ h \in Seq(Symbols)
  OBVIOUS
<1>3. o = d \o h
  BY <1>1 DEF Rewritten
<1>4. Plain(o)
  BY <1>3 DEF Plain
<1>5. o \in Seq(Symbols)
  BY <1>4, PlainIs
<1>6. PICK n \in Nat : n = Len(t) /\ (n = 0 <=> t = <<>>)
  OBVIOUS
<1>7. Borders(t, n, d, h)
  BY <1>0, <1>1, <1>6, ScanBorders
<1>8. Alike(t, o)
  <2>1. CASE n = 0
    <3>1. d = <<>> /\ h = <<>>
      BY <1>7, <2>1 DEF Borders
    <3> QED
      BY <1>3, <1>6, <2>1, <3>1 DEF Alike
  <2>2. CASE n # 0 /\ d # <<>>
    <3>1. o # <<>> /\ o[1] = d[1] /\ d[1] \in {t[1], "pic"}
      <4>1. d[1] \in {t[1], "pic"}
        BY <1>7, <2>2 DEF Borders
      <4>2. o # <<>> /\ o[1] = d[1]
        BY <1>2, <1>3, <2>2
      <4> QED
        BY <4>1, <4>2
    <3> QED
      BY <1>6, <2>2, <3>1 DEF Alike
  <2>3. CASE n # 0 /\ d = <<>>
    <3>1. h # <<>> /\ h[1] = t[1]
      BY <1>7, <2>3 DEF Borders
    <3>2. o = h
      BY <1>2, <1>3, <2>3
    <3> QED
      BY <1>6, <2>3, <3>1, <3>2 DEF Alike
  <2> QED
    BY <2>1, <2>2, <2>3
<1>9. ASSUME Scan(t).held = <<>> PROVE Scan(o).held = <<>> /\ EndAlike(t, o)
  <2>1. h = <<>> /\ d \o h = d
    BY <1>1, <1>2, <1>9
  <2>2. Scan(d).held = <<>>
    BY <1>0, <2>1, NoImages
  <2>3. o = d
    BY <1>3, <2>1
  <2>4. CASE n = 0
    <3>1. o = <<>>
      BY <1>7, <2>3, <2>4 DEF Borders
    <3>2. ~EndsHalf(o) /\ ~EndsScheme(o)
      BY <3>1 DEF EndsHalf, EndsScheme
    <3> QED
      BY <2>2, <2>3, <3>2 DEF EndAlike
  <2>5. CASE n # 0
    <3>1. EndsLike(d, t, n)
      BY <1>7, <2>1, <2>5 DEF Borders
    <3>2. EndAlike(t, d)
      BY <1>6, <2>5, <3>1, LikeEnds
    <3> QED
      BY <2>2, <2>3, <3>2
  <2> QED
    BY <2>4, <2>5
<1> QED
  BY <1>4, <1>5, <1>8, <1>9

(* Nothing is settled and plain. *)
LEMMA EmptyScan == Scan(<<>>).held = <<>> /\ Plain(<<>>) /\ Links(<<>>) = {}
<1>1. <<>> \in Seq(Symbols \ {"!["}) /\ <<>> \in Seq(Symbols \ {"img)"}) /\ <<>> \o <<>> = <<>>
  OBVIOUS
<1>2. Plain(<<>>)
  BY <1>1 DEF Plain
<1>3. "pic" \in Symbols
  BY DEF Symbols
<1>4. Scan(<<>>).held = <<>>
  BY <1>1, <1>3, NoImages
<1>5. <<>> \in Seq(Symbols) /\ Len(<<>>) < 3
  OBVIOUS
<1> QED
  BY <1>2, <1>4, <1>5, LinksFinite

(* What rewriteContent lets through is plain and without links if it       *)
(* rewrites, and it begins and ends as the text does.                      *)
LEMMA RewriteFacts ==
  ASSUME NEW on \in BOOLEAN, NEW works \in BOOLEAN, NEW t \in Seq(Symbols), NEW w,
         w = RewriteContent(on, works, t)
  PROVE  /\ w.out \in Seq(Symbols)
         /\ on => Plain(w.out) /\ Links(w.out) = {}
         /\ Scan(t).held = <<>> => Scan(w.out).held = <<>>
         /\ w.ok => Alike(t, w.out) /\ (Scan(t).held = <<>> => EndAlike(t, w.out))
<1>1. CASE ~on
  <2>1. w = [ok |-> TRUE, out |-> t]
    BY <1>1, RewriteIs
  <2>2. Alike(t, t) /\ EndAlike(t, t)
    BY DEF Alike, EndAlike
  <2> QED
    BY <1>1, <2>1, <2>2
<1>2. CASE w = [ok |-> FALSE, out |-> <<>>]
  <2>1. <<>> \in Seq(Symbols)
    OBVIOUS
  <2> QED
    BY <1>2, <2>1, EmptyScan
<1>3. CASE Links(Rewritten(t)) = {} /\ w = [ok |-> TRUE, out |-> Rewritten(t)]
  <2>1. PICK o : o = Rewritten(t)
    OBVIOUS
  <2>2. /\ o \in Seq(Symbols) /\ Plain(o) /\ Alike(t, o)
        /\ Scan(t).held = <<>> => Scan(o).held = <<>> /\ EndAlike(t, o)
    BY <2>1, RewrittenIs
  <2>3. w.out = o /\ Links(o) = {}
    BY <1>3, <2>1
  <2> QED
    BY <2>2, <2>3
<1> QED
  BY <1>1, <1>2, <1>3, RewriteIs

(* A text was settled wherever what is held began later and no image ends  *)
(* from there on.                                                          *)
LEMMA SettledBefore ==
  ASSUME NEW A, "pic" \in A, NEW text \in Seq(A), NEW m \in 0..Len(text),
         m <= Len(text) - Len(Scan(text).held), \A i \in (m + 1)..Len(text) : text[i] # "img)"
  PROVE  Scan(SubSeq(text, 1, m)).held = <<>>
<1>1. PICK f \in [0..Len(text) -> ScanAcc(A)] :
           Scans(f, text, Len(text)) /\ \A k \in 0..Len(text) : Scan(SubSeq(text, 1, k)) = f[k]
  BY ScanPrefixes DEF ScanParts
<1>2. PICK n \in Nat : n = Len(text)
  OBVIOUS
<1>3. SubSeq(text, 1, n) = text
  BY <1>2
<1>4. Scan(text) = f[n]
  BY <1>1, <1>2, <1>3
<1>5. Scans(f, text, n) /\ f \in [0..n -> ScanAcc(A)] /\ \A k \in 0..n : f[k].held \in Seq(A)
  BY <1>1, <1>2 DEF ScanAcc
<1>6. SUFFICES ASSUME f[m].held # <<>> PROVE FALSE
  BY <1>1
<1> DEFINE N == {k \in 0..n : k >= m => Len(f[k].held) >= (k - m) + 1}
<1>7. 0 \in N
  <2>1. ASSUME 0 >= m PROVE Len(f[0].held) >= (0 - m) + 1
    <3>1. m = 0 /\ 0 \in 0..n
      BY <1>2, <2>1
    <3>2. PICK h \in Seq(A) : h = f[0].held /\ h # <<>>
      BY <1>5, <1>6, <3>1
    <3> QED
      BY <3>1, <3>2
  <2> QED
    BY <2>1
<1>8. ASSUME NEW i \in 1..n, i - 1 \in N PROVE i \in N
  <2>1. SUFFICES ASSUME i >= m PROVE Len(f[i].held) >= (i - m) + 1
    OBVIOUS
  <2>2. PICK h \in Seq(A), g \in Seq(A) : h = f[i - 1].held /\ g = f[i].held
    BY <1>5
  <2>3. CASE i = m
    <3>1. g # <<>>
      BY <1>6, <2>2, <2>3
    <3> QED
      BY <1>2, <2>2, <2>3, <3>1
  <2>4. CASE i > m
    <3>1. i \in (m + 1)..Len(text) /\ i - 1 >= m
      BY <1>2, <2>4
    <3>2. Len(h) >= ((i - 1) - m) + 1 /\ text[i] # "img)"
      BY <1>8, <2>2, <3>1
    <3>3. h # <<>>
      BY <1>2, <3>1, <3>2
    <3>4. f[i] = ScanStep(f[i - 1], text[i])
      BY <1>5 DEF Scans
    <3>5. g = Append(h, text[i])
      BY <2>2, <3>2, <3>3, <3>4 DEF ScanStep
    <3>6. Len(g) = Len(h) + 1
      BY <3>5
    <3> QED
      BY <1>2, <2>2, <3>2, <3>6
  <2> QED
    BY <1>2, <2>1, <2>3, <2>4
<1>9. n \in N
  <2>1. N \in SUBSET (0..n)
    OBVIOUS
  <2> HIDE DEF N
  <2>2. N = 0..n
    BY <1>7, <1>8, <2>1, UpTo
  <2> QED
    BY <2>2
<1>10. Len(f[n].held) >= (n - m) + 1 /\ Len(f[n].held) \in Nat
  BY <1>2, <1>5, <1>9
<1> QED
  BY <1>2, <1>4, <1>10

(* An image that has not ended began there, after settled text. *)
LEMMA ImageHoldIs ==
  ASSUME NEW t \in Seq(Symbols), NEW k, k = ImageHold(t)
  PROVE  /\ k \in 0..Len(t) /\ k = Len(t) - Len(Scan(t).held)
         /\ Scan(SubSeq(t, 1, k)).held = <<>>
         /\ k < Len(t) => t[k + 1] = "!["
<1>0. "pic" \in Symbols
  BY DEF Symbols
<1>1. PICK n \in Nat, l \in Nat :
        n = Len(t) /\ l <= n /\ l = Len(Scan(t).held) /\ Scan(SubSeq(t, 1, n - l)).held = <<>>
  <2>1. Len(Scan(t).held) \in 0..Len(t) /\ Scan(SubSeq(t, 1, Len(t) - Len(Scan(t).held))).held = <<>>
    BY <1>0, ScanSettled
  <2> QED
    BY <2>1
<1>2. k = n - l
  BY <1>1 DEF ImageHold
<1>3. ASSUME k < Len(t) PROVE t[k + 1] = "!["
  <2>1. PICK h \in Seq(Symbols) : h = Scan(t).held
    BY <1>0, ScanTypes DEF ScanAcc
  <2>2. h # <<>>
    BY <1>1, <1>2, <1>3, <2>1
  <2>3. t[n - Len(h) + 1] = "!["
    <3>1. Borders(t, n, Scan(t).done, h)
      BY <1>0, <1>1, <2>1, ScanBorders
    <3> QED
      BY <2>2, <3>1 DEF Borders
  <2> QED
    BY <1>1, <1>2, <2>1, <2>3
<1>4. k \in 0..Len(t) /\ k = Len(t) - Len(Scan(t).held)
  BY <1>1, <1>2
<1>5. Scan(SubSeq(t, 1, k)).held = <<>>
  BY <1>1, <1>2
<1> QED
  BY <1>3, <1>4, <1>5

(* A link that may go on begins there, and nothing delimits it. *)
LEMMA LinkHoldIs ==
  ASSUME NEW t \in Seq(Symbols), NEW k, k = LinkHold(t)
  PROVE  /\ k \in 0..Len(t)
         /\ k < Len(t) => t[k + 1] = "ht" /\ \A i \in (k + 1)..Len(t) : t[i] \notin Delimiters
         /\ k = Len(t) => ~EndsScheme(t)
<1>1. PICK n \in Nat : n = Len(t)
  OBVIOUS
<1>2. ASSUME NEW i \in 1..(n - 1) PROVE SubSeq(t, i, i + 1) = Scheme <=> t[i] = "ht" /\ t[i + 1] = "tps://"
  <2>1. i \in Nat /\ i >= 1 /\ i + 1 \in Nat /\ i + 1 <= Len(t)
    BY <1>1
  <2>2. PICK s \in Seq(Symbols) : s = SubSeq(t, i, i + 1)
    BY <2>1, Piece
  <2>3. Len(s) = 2 /\ s[1] = t[i] /\ s[2] = t[i + 1]
    <3>1. Len(s) = (i + 1) - i + 1 /\ \A j \in 1..((i + 1) - i + 1) : s[j] = t[i + j - 1]
      BY <2>1, <2>2, Piece
    <3> QED
      BY <3>1
  <2>4. s = <<"ht", "tps://">> <=> s[1] = "ht" /\ s[2] = "tps://"
    BY <2>3
  <2> QED
    BY <2>2, <2>3, <2>4 DEF Scheme
<1>3. ActiveLinks(t) = {i \in 1..(n - 1) : /\ t[i] = "ht" /\ t[i + 1] = "tps://"
                                          /\ \A j \in i..n : t[j] \notin Delimiters}
  BY <1>1, <1>2 DEF ActiveLinks
<1> DEFINE S == {i - 1 : i \in ActiveLinks(t)} \cup {n}
<1>4. k = Min(S)
  BY <1>1 DEF LinkHold
<1>5. S \in SUBSET Nat /\ S # {}
  BY <1>3
<1>6. k \in S /\ \A j \in S : k <= j
  <2> HIDE DEF S
  <2> QED
    BY <1>4, <1>5, Least
<1>7. ASSUME k # n PROVE k \in 0..n /\ k + 1 \in ActiveLinks(t)
  BY <1>3, <1>6, <1>7
<1>8. k \in 0..n
  BY <1>7
<1>9. ASSUME k < n PROVE t[k + 1] = "ht" /\ \A i \in (k + 1)..n : t[i] \notin Delimiters
  <2>1. k + 1 \in ActiveLinks(t)
    BY <1>7, <1>8, <1>9
  <2> QED
    BY <1>3, <2>1
<1>10. ASSUME k = n, EndsScheme(t) PROVE FALSE
  <2>1. n > 1 /\ t[n - 1] = "ht" /\ t[n] = "tps://" /\ n - 1 \in 1..(n - 1) /\ (n - 1) + 1 = n
    BY <1>1, <1>10 DEF EndsScheme
  <2>2. \A j \in (n - 1)..n : t[j] \notin Delimiters
    <3>1. "ht" \notin Delimiters /\ "tps://" \notin Delimiters
      BY DEF Delimiters
    <3>2. \A j \in (n - 1)..n : j = n - 1 \/ j = n
      OBVIOUS
    <3> QED
      BY <2>1, <3>1, <3>2
  <2>3. n - 1 \in ActiveLinks(t)
    BY <1>3, <2>1, <2>2
  <2>4. (n - 1) - 1 \in S
    BY <2>3
  <2>5. k <= (n - 1) - 1
    BY <1>6, <2>4
  <2> QED
    BY <1>10, <2>5
<1> QED
  BY <1>1, <1>8, <1>9, <1>10

(* Half a scheme at the end of a text. *)
LEMMA PartialHoldIs ==
  ASSUME NEW t \in Seq(Symbols), NEW k, k = PartialHold(t)
  PROVE  /\ k \in 0..Len(t)
         /\ k < Len(t) => k + 1 = Len(t) /\ t[Len(t)] = "ht"
         /\ k = Len(t) => ~EndsHalf(t)
<1>1. SuffixPrefixLength(t, <<"ht", "tps://">>) = IF t # <<>> /\ t[Len(t)] = "ht" THEN 1 ELSE 0
  BY SuffixIs
<1>2. k = IF EndsHalf(t) THEN Len(t) - 1 ELSE Len(t)
  BY <1>1 DEF PartialHold, Scheme, EndsHalf
<1>3. EndsHalf(t) => Len(t) > 0 /\ t[Len(t)] = "ht"
  BY DEF EndsHalf
<1> QED
  BY <1>2, <1>3

(* The gate cuts where the text is settled and no link goes on. *)
LEMMA CutSettled ==
  ASSUME NEW t \in Seq(Symbols), NEW k, k = StreamingSafeFlushIndex(t)
  PROVE  /\ k \in 0..Len(t) /\ Scan(SubSeq(t, 1, k)).held = <<>>
         /\ k < Len(t) => t[k + 1] \in {"![", "ht"}
         /\ k = Len(t) => ~EndsHalf(t) /\ ~EndsScheme(t)
<1>0. "pic" \in Symbols
  BY DEF Symbols
<1>1. PICK n \in Nat : n = Len(t)
  OBVIOUS
<1>2. PICK a, b, c : a = ImageHold(t) /\ b = LinkHold(t) /\ c = PartialHold(t)
  OBVIOUS
<1>3. /\ a \in 0..n /\ a = n - Len(Scan(t).held) /\ Scan(SubSeq(t, 1, a)).held = <<>>
      /\ a < n => t[a + 1] = "!["
  BY <1>1, <1>2, ImageHoldIs
<1>4. /\ b \in 0..n
      /\ b < n => t[b + 1] = "ht" /\ \A i \in (b + 1)..n : t[i] \notin Delimiters
      /\ b = n => ~EndsScheme(t)
  BY <1>1, <1>2, LinkHoldIs
<1>5. /\ c \in 0..n
      /\ c < n => c + 1 = n /\ t[n] = "ht"
      /\ c = n => ~EndsHalf(t)
  BY <1>1, <1>2, PartialHoldIs
<1>6. k \in {a, b, c} /\ k <= a /\ k <= b /\ k <= c
  <2>1. PICK S : S = {a, b, c}
    OBVIOUS
  <2>2. S \in SUBSET Nat /\ S # {} /\ a \in S /\ b \in S /\ c \in S
    BY <1>3, <1>4, <1>5, <2>1
  <2>3. k = Min(S)
    BY <1>2, <2>1 DEF StreamingSafeFlushIndex
  <2>4. k \in S /\ \A j \in S : k <= j
    BY <2>2, <2>3, Least
  <2> QED
    BY <2>1, <2>2, <2>4
<1>7. k \in 0..n
  BY <1>3, <1>4, <1>5, <1>6
<1>8. Scan(SubSeq(t, 1, k)).held = <<>>
  <2>1. CASE k = a
    BY <1>3, <2>1
  <2>2. CASE \A i \in (k + 1)..n : t[i] # "img)"
    <3>1. k \in 0..Len(t) /\ k <= Len(t) - Len(Scan(t).held) /\ \A i \in (k + 1)..Len(t) : t[i] # "img)"
      BY <1>1, <1>3, <1>6, <1>7, <2>2
    <3> QED
      BY <1>0, <3>1, SettledBefore
  <2>3. CASE k = b
    <3>1. "img)" \in Delimiters
      BY DEF Delimiters, Symbols
    <3>2. CASE k = n
      <4>1. \A i \in (k + 1)..n : FALSE
        BY <3>2
      <4> QED
        BY <2>2, <4>1
    <3>3. CASE k < n
      BY <1>4, <2>2, <2>3, <3>1, <3>3
    <3> QED
      BY <1>7, <3>2, <3>3
  <2>4. CASE k = c
    <3>1. ASSUME NEW i \in (k + 1)..n PROVE t[i] = "ht"
      BY <1>5, <2>4, <3>1
    <3> QED
      BY <2>2, <3>1
  <2> QED
    BY <1>6, <2>1, <2>3, <2>4
<1>9. k < n => t[k + 1] \in {"![", "ht"}
  BY <1>3, <1>4, <1>5, <1>6
<1>10. k = n => ~EndsHalf(t) /\ ~EndsScheme(t)
  BY <1>3, <1>4, <1>5, <1>6
<1> QED
  BY <1>1, <1>7, <1>8, <1>9, <1>10

(* The two parts the gate cuts a text into. *)
IsCut(t, k, c, r) ==
  k = StreamingSafeFlushIndex(t) /\ c = SubSeq(t, 1, k) /\ r = SubSeq(t, k + 1, Len(t))

(* The cut: what it leaves goes on with no link. *)
LEMMA CutApart ==
  ASSUME NEW t \in Seq(Symbols), NEW k, NEW c \in Seq(Symbols), NEW r \in Seq(Symbols), IsCut(t, k, c, r)
  PROVE  /\ Scan(c).held = <<>> /\ Apart(c, r)
         /\ c = <<>> => r = t
         /\ c # <<>> => t # <<>> /\ c[1] = t[1]
<1>0. k = StreamingSafeFlushIndex(t) /\ c = SubSeq(t, 1, k) /\ r = SubSeq(t, k + 1, Len(t))
  BY DEF IsCut
<1>1. PICK n \in Nat : n = Len(t)
  OBVIOUS
<1>2. /\ k \in 0..n /\ Scan(c).held = <<>>
      /\ k < n => t[k + 1] \in {"![", "ht"}
      /\ k = n => ~EndsHalf(t) /\ ~EndsScheme(t)
  BY <1>0, <1>1, CutSettled
<1>3. Len(c) = k /\ \A i \in 1..k : c[i] = t[i]
  BY <1>0, <1>1, <1>2, Prefix
<1>4. Len(r) = n - k /\ \A i \in 1..(n - k) : r[i] = t[k + i]
  <2>1. k + 1 \in 1..(Len(t) + 1)
    BY <1>1, <1>2
  <2>2. Len(r) = Len(t) - (k + 1) + 1 /\ \A i \in 1..(Len(t) - (k + 1) + 1) : r[i] = t[(k + 1) + i - 1]
    BY <1>0, <2>1, Rest
  <2> QED
    BY <1>1, <1>2, <2>2
<1>5. CASE k = n
  <2>1. c = t
    BY <1>1, <1>3, <1>5
  <2>2. ~EndsHalf(c) /\ ~EndsScheme(c)
    BY <1>2, <1>5, <2>1
  <2>3. Apart(c, r)
    BY <2>2 DEF Apart, Joins
  <2>4. c = <<>> => r = t
    <3>1. ASSUME c = <<>> PROVE r = t
      <4>1. n = 0
        BY <1>1, <2>1, <3>1
      <4>2. Len(r) = 0
        BY <1>4, <1>5
      <4>3. r = <<>>
        BY <4>2
      <4> QED
        BY <2>1, <3>1, <4>3
    <3> QED
      BY <3>1
  <2> QED
    BY <1>2, <2>1, <2>3, <2>4
<1>6. CASE k < n
  <2>1. 1 \in 1..(n - k) /\ r # <<>> /\ r[1] = t[k + 1]
    <3>1. 1 \in 1..(n - k)
      BY <1>1, <1>2, <1>6
    <3>2. r[1] = t[k + 1]
      BY <1>4, <3>1
    <3>3. Len(r) > 0
      BY <1>1, <1>2, <1>4, <1>6
    <3>4. r # <<>>
      BY <3>3, SomeIs
    <3> QED
      BY <3>1, <3>2, <3>4
  <2>2. r[1] \in {"![", "ht"}
    BY <1>2, <1>6, <2>1
  <2>3. Apart(c, r)
    BY <2>1, <2>2 DEF Apart, Joins
  <2>4. ASSUME c = <<>> PROVE r = t
    <3>1. k = 0
      BY <1>3, <2>4
    <3> QED
      BY <1>0, <1>1, <3>1
  <2>5. ASSUME c # <<>> PROVE t # <<>> /\ c[1] = t[1]
    <3>1. k > 0
      BY <1>2, <1>3, <2>5
    <3> QED
      BY <1>1, <1>3, <1>6, <3>1
  <2> QED
    BY <1>2, <2>3, <2>4, <2>5
<1> QED
  BY <1>2, <1>5, <1>6

(* A text apart from what is pending stays so: from what the gate lets     *)
(* through, and with that from what it keeps.                              *)
StaysApart(s, gate, u, r) ==
  Apart(s, gate) => ~Joins(s, u) /\ Apart(s \o u, r)

(* Of the cut c and the rest r of gate and text, and what c is rewritten to. *)
LEMMA StaysApartIs ==
  ASSUME NEW s \in Seq(Symbols), NEW gate \in Seq(Symbols), NEW text \in Seq(Symbols),
         NEW q \in Seq(Symbols), q = gate \o text, NEW c \in Seq(Symbols), NEW r \in Seq(Symbols),
         Apart(c, r), c = <<>> => r = q, c # <<>> => q # <<>> /\ c[1] = q[1],
         NEW u \in Seq(Symbols), Alike(c, u), EndAlike(c, u)
  PROVE  StaysApart(s, gate, u, r)
<1>1. SUFFICES ASSUME Apart(s, gate) PROVE ~Joins(s, u) /\ Apart(s \o u, r)
  BY DEF StaysApart
<1>2. Apart(s, q)
  <2>1. CASE gate = <<>>
    BY <1>1, <2>1 DEF Apart, Joins
  <2>2. CASE gate # <<>>
    <3>1. q # <<>> /\ q[1] = gate[1]
      BY <2>2
    <3> QED
      BY <1>1, <2>2, <3>1 DEF Apart, Joins
  <2> QED
    BY <2>1, <2>2
<1>3. ~Joins(s, u)
  <2>1. SUFFICES ASSUME Joins(s, u) PROVE FALSE
    OBVIOUS
  <2>2. u # <<>> /\ u[1] \in {"tps://", "grok"}
    BY <2>1 DEF Joins
  <2>3. c # <<>> /\ u[1] = c[1]
    BY <2>2 DEF Alike
  <2>4. q # <<>> /\ u[1] = q[1]
    BY <2>3
  <2>5. Joins(s, q)
    BY <2>1, <2>4 DEF Joins
  <2> QED
    BY <1>2, <2>5 DEF Apart
<1>4. Apart(u, r)
  BY DEF EndAlike, Apart, Joins
<1>5. u = <<>> => Apart(s, r)
  BY <1>2 DEF Alike
<1> QED
  BY <1>3, <1>4, <1>5, ApartThen

(* What the gate lets through is settled, plain and without links once     *)
(* there is a rewriter, and it is apart from what the gate keeps.          *)
LEMMA PushGateFacts ==
  ASSUME NEW gate \in Seq(Symbols), NEW rw \in BOOLEAN, NEW works \in BOOLEAN,
         NEW text \in Seq(Symbols),
         NEW g, g = PushGate(gate, rw, works, text)
  PROVE  /\ g.out \in Seq(Symbols) /\ g.gate \in Seq(Symbols)
         /\ rw => Plain(g.out) /\ Links(g.out) = {}
         /\ Scan(g.out).held = <<>>
         /\ g.ok => \A s \in Seq(Symbols) : StaysApart(s, gate, g.out, g.gate)
<1>1. PICK q \in Seq(Symbols) : q = gate \o text
  BY CatSeq
<1>2. PICK k : k = StreamingSafeFlushIndex(q)
  OBVIOUS
<1>3. k \in 0..Len(q) /\ Scan(SubSeq(q, 1, k)).held = <<>>
  BY <1>2, CutSettled
<1>4. PICK c \in Seq(Symbols) : c = SubSeq(q, 1, k)
  BY <1>3, Prefix
<1>5. PICK w : w = RewriteContent(rw, works, c)
  OBVIOUS
<1>6. PICK r \in Seq(Symbols) : r = SubSeq(q, k + 1, Len(q))
  <2>1. k + 1 \in 1..(Len(q) + 1)
    BY <1>3
  <2> QED
    BY <2>1, Rest
<1>7. /\ Scan(c).held = <<>> /\ Apart(c, r)
      /\ c = <<>> => r = q
      /\ c # <<>> => q # <<>> /\ c[1] = q[1]
  <2>1. IsCut(q, k, c, r)
    BY <1>2, <1>4, <1>6 DEF IsCut
  <2> QED
    BY <2>1, CutApart
<1>8. /\ w.out \in Seq(Symbols)
      /\ rw => Plain(w.out) /\ Links(w.out) = {}
      /\ Scan(w.out).held = <<>>
      /\ w.ok => Alike(c, w.out) /\ EndAlike(c, w.out)
  <2>1. /\ w.out \in Seq(Symbols)
        /\ rw => Plain(w.out) /\ Links(w.out) = {}
        /\ Scan(c).held = <<>> => Scan(w.out).held = <<>>
        /\ w.ok => Alike(c, w.out) /\ (Scan(c).held = <<>> => EndAlike(c, w.out))
    BY Zenon, <1>5, RewriteFacts
  <2> QED
    BY Zenon, <1>7, <2>1
<1>9. g = CHOOSE x \in {CHOOSE y \in {CHOOSE z \in {[ok |-> w1.ok, out |-> w1.out,
                                                      gate |-> IF w1.ok THEN SubSeq(q1, k1 + 1, Len(q1)) ELSE q1]
                                         : w1 \in {RewriteContent(rw, works, SubSeq(q1, 1, k1))}} : TRUE
                          : k1 \in {StreamingSafeFlushIndex(q1)}} : TRUE
               : q1 \in {gate \o text}} : TRUE
  BY Zenon DEF PushGate, Bind
<1>10. g = [ok |-> w.ok, out |-> w.out, gate |-> IF w.ok THEN SubSeq(q, k + 1, Len(q)) ELSE q]
  BY <1>1, <1>2, <1>4, <1>5, <1>9, Only
<1>11. g.out = w.out /\ g.gate \in {q, r} /\ g.ok = w.ok /\ (w.ok => g.gate = r)
  BY <1>6, <1>10
<1>12. ASSUME g.ok, NEW s \in Seq(Symbols) PROVE StaysApart(s, gate, g.out, g.gate)
  <2>1. PICK u \in Seq(Symbols) : u = w.out /\ Alike(c, u) /\ EndAlike(c, u)
    BY <1>8, <1>11, <1>12
  <2>2. g.gate = r /\ g.out = u
    BY <1>11, <1>12, <2>1
  <2>3. StaysApart(s, gate, u, r)
    BY <1>1, <1>7, <2>1, StaysApartIs
  <2> QED
    BY <2>2, <2>3
<1>13. /\ g.out \in Seq(Symbols) /\ g.gate \in Seq(Symbols)
       /\ rw => Plain(g.out) /\ Links(g.out) = {}
       /\ Scan(g.out).held = <<>>
  BY <1>8, <1>11
<1> QED
  BY <1>12, <1>13

(* A plain text without links adds no reference to a settled one it does   *)
(* not go on from.                                                         *)
LEMMA ReferencesStay ==
  ASSUME NEW text \in Seq(Symbols), NEW u, Plain(u), Links(u) = {}
  PROVE  /\ References(text) \in Nat
         /\ Scan(text).held = <<>> /\ ~Joins(text, u) => References(text \o u) = References(text)
         /\ References(u) = 0
<1>0. "pic" \in Symbols
  BY DEF Symbols
<1>1. u \in Seq(Symbols) /\ Scan(u).images = 0
  BY PlainIs
<1>2. Scan(text).images \in Nat /\ Cardinality(Links(text)) \in Nat
  BY <1>0, ScanTypes, LinksFinite DEF ScanAcc
<1>3. \A t : References(t) = Scan(t).images + Cardinality(Links(t))
  BY DEF References
<1>4. References(text) \in Nat
  BY <1>2, <1>3
<1>5. References(u) = 0
  <2>1. Cardinality(Links(u)) = 0
    BY FS_EmptySet
  <2>2. References(u) = Scan(u).images + Cardinality(Links(u))
    BY Zenon, <1>3
  <2> QED
    BY <1>1, <2>1, <2>2
<1>6. ASSUME Scan(text).held = <<>>, ~Joins(text, u) PROVE References(text \o u) = References(text)
  <2>1. Scan(text \o u).images = Scan(text).images + Scan(u).images
    BY <1>0, <1>1, <1>6, ScanAfter
  <2>2. Links(text \o u) = Links(text)
    BY <1>1, <1>6, LinksStay
  <2> QED
    BY <1>1, <1>2, <1>3, <2>1, <2>2
<1> QED
  BY <1>4, <1>5, <1>6

(* Settled texts one after the other are settled. *)
LEMMA SettledThen ==
  ASSUME NEW text \in Seq(Symbols), NEW u \in Seq(Symbols), Scan(text).held = <<>>,
         Scan(u).held = <<>>
  PROVE  Scan(text \o u).held = <<>>
<1>1. "pic" \in Symbols
  BY DEF Symbols
<1> QED
  BY <1>1, ScanAfter

(* The think writer keeps its types. *)
LEMMA ReasoningTypes ==
  ASSUME NEW show \in BOOLEAN, NEW open \in BOOLEAN, NEW text \in Seq(Symbols)
  PROVE  /\ HandleReasoning(show, open, text).open \in BOOLEAN
         /\ HandleReasoning(show, open, text).out \in Seq(Symbols)
<1>1. <<>> \in Seq(Symbols) /\ ThinkOpen \in Seq(Symbols)
  BY DEF ThinkOpen, Symbols
<1>2. ThinkOpen \o text \in Seq(Symbols) /\ <<>> \o text \in Seq(Symbols)
  BY <1>1, CatSeq
<1> QED
  BY <1>1, <1>2 DEF HandleReasoning

(* The same for text. *)
LEMMA TextTypes ==
  ASSUME NEW open \in BOOLEAN, NEW text \in Seq(Symbols)
  PROVE  /\ HandleText(open, text).open \in BOOLEAN
         /\ HandleText(open, text).out \in Seq(Symbols)
<1>1. <<>> \in Seq(Symbols) /\ ThinkClose \in Seq(Symbols)
  BY DEF ThinkClose, Symbols
<1>2. ThinkClose \o text \in Seq(Symbols) /\ <<>> \o text \in Seq(Symbols)
  BY <1>1, CatSeq
<1> QED
  BY <1>1, <1>2 DEF HandleText

(* Adapt, step by step. *)
Spoken(tool, text) ==
  IF req.tools /\ text # <<>> THEN PushTool(tool, text) ELSE [p |-> tool, out |-> text, calls |-> <<>>]
Named(calls) == IF req.tools THEN <<>> ELSE FlattenSeq([i \in DOMAIN calls |-> CallText(calls[i])])

Adapted(open, e, p) ==
  LET r == HandleReasoning(req.think, open, e.reason)
      t == HandleText(r.open, p.out)
      c == HandleText(t.open, Named(e.calls))
  IN [tool |-> p.p, open |-> c.open, texts |-> <<r.out, t.out \o c.out>>,
      calls |-> IF req.tools THEN p.calls \o e.calls ELSE <<>>]

(* Adapt is those steps. *)
LEMMA AdaptIs ==
  ASSUME NEW tool, NEW open, NEW e, NEW p, p = Spoken(tool, e.content)
  PROVE  Adapt(tool, open, e) = Adapted(open, e, p)
<1>1. Adapt(tool, open, e) = CHOOSE x \in {Adapted(open, e, p1) : p1 \in {Spoken(tool, e.content)}} : TRUE
  BY Zenon DEF Adapt, Bind, Spoken, Named, Adapted
<1> QED
  BY <1>1, Only

(* The adapter keeps its parsers and gives two texts and calls. *)
LEMMA AdaptTypes ==
  ASSUME req \in Requests, NEW tool \in ParserOf(Symbols), NEW open \in BOOLEAN,
         NEW e \in Events,
         NEW a, a = Adapt(tool, open, e)
  PROVE  /\ a.tool \in ParserOf(Symbols) /\ a.open \in BOOLEAN
         /\ a.texts[1] \in Seq(Symbols) /\ a.texts[2] \in Seq(Symbols) /\ a.calls \in Seq(Calls)
<1>0. e.content \in Seq(Symbols) /\ e.reason \in Seq(Symbols) /\ e.calls \in Seq(Calls) /\ req.think \in BOOLEAN
  BY AnswerAssumption DEF Events
<1>1. PICK p : p = Spoken(tool, e.content)
  OBVIOUS
<1>2. p.p \in ParserOf(Symbols) /\ p.out \in Seq(Symbols) /\ p.calls \in Seq(Calls)
  <2>1. <<>> \in Seq(Calls) /\ {"<", "tool>", "/tool>"} \subseteq Symbols
    BY DEF Symbols
  <2>2. PushTool(tool, e.content) \in AccOf(Symbols)
    BY <1>0, <2>1, ToolTypes
  <2> QED
    BY <1>0, <1>1, <2>1, <2>2 DEF Spoken, AccOf
<1>3. PICK r : r = HandleReasoning(req.think, open, e.reason)
  OBVIOUS
<1>4. r.open \in BOOLEAN /\ r.out \in Seq(Symbols)
  BY <1>0, <1>3, ReasoningTypes
<1>5. PICK t : t = HandleText(r.open, p.out)
  OBVIOUS
<1>6. t.open \in BOOLEAN /\ t.out \in Seq(Symbols)
  BY <1>2, <1>4, <1>5, TextTypes
<1>7. Named(e.calls) \in Seq(Symbols)
  <2>1. <<>> \in Seq(Symbols)
    OBVIOUS
  <2>2. {"<", "tool>", "/tool>", "call", "ht", "tps://", "grok"} \subseteq Symbols
    BY DEF Symbols
  <2>3. FlattenSeq([i \in DOMAIN e.calls |-> CallText(e.calls[i])]) \in Seq(Symbols)
    BY <1>0, <2>2, CallTextsAre
  <2> QED
    BY <2>1, <2>3 DEF Named
<1>8. PICK c : c = HandleText(t.open, Named(e.calls))
  OBVIOUS
<1>9. c.open \in BOOLEAN /\ c.out \in Seq(Symbols)
  BY <1>6, <1>7, <1>8, TextTypes
<1>10. PICK s \in Seq(Symbols) : s = t.out \o c.out
  BY <1>6, <1>9, CatSeq
<1>11. PICK l \in Seq(Calls) : l = IF req.tools THEN p.calls \o e.calls ELSE <<>>
  <2>1. <<>> \in Seq(Calls) /\ p.calls \o e.calls \in Seq(Calls)
    BY <1>0, <1>2, CatSeq
  <2> QED
    BY <2>1
<1>12. a = [tool |-> p.p, open |-> c.open, texts |-> <<r.out, s>>, calls |-> l]
  <2>1. a = Adapted(open, e, p)
    BY <1>1, AdaptIs
  <2> QED
    BY <1>3, <1>5, <1>8, <1>10, <1>11, <2>1 DEF Adapted
<1> QED
  BY <1>2, <1>4, <1>9, <1>12

Part == [think : BOOLEAN, text : Seq(Symbols) \ {<<>>}]
Ends == {"none", "stop", "tool_calls", "error"}
Writers == [pc : {"read", "gone", "done"}, tool : ParserOf(Symbols), open : BOOLEAN, seen : BOOLEAN,
            gate : Seq(Symbols), rw : BOOLEAN]
Gots == [text : Seq(Symbols), calls : Seq(Calls), end : Ends]

Flows == [pc : {"receive", "send", "end", "done"}, try : 1..MaxTries, filter : FilterOf(Symbols),
          tool : ParserOf(Symbols), queue : Seq(Events)]

PipeTypes ==
  /\ req \in Requests /\ answer \in Answers
  /\ src \in [pc : {"run", "closed"}, parts : Seq(Part)]
  /\ ch \in Seq(Events) /\ Len(ch) <= ChCap
  /\ flow \in Flows
  /\ out \in Seq(Events) /\ Len(out) <= OutCap
  /\ wr \in Writers
  /\ got \in Gots

(* While the response reads, it has not ended, what a stream has sent is
   settled and apart from what the gate keeps, and the calls it has sent are
   remembered. *)
Sent ==
  wr.pc = "read" =>
    /\ got.end = "none"
    /\ req.stream =>
         /\ Scan(got.text).held = <<>> /\ Apart(got.text, wr.gate)
         /\ wr.seen <=> got.calls # <<>>

(* The first of a queue and the others. *)
LEMMA HeadTail ==
  ASSUME NEW X, NEW s \in Seq(X), s # <<>>
  PROVE  Head(s) \in X /\ Tail(s) \in Seq(X) /\ Len(Tail(s)) = Len(s) - 1
OBVIOUS

(* At the beginning. *)
LEMMA PipeInitTypes == PipeInit => PipeTypes /\ Sent /\ EndNamesCalls
<1> SUFFICES ASSUME PipeInit PROVE PipeTypes /\ Sent /\ EndNamesCalls
  OBVIOUS
<1> USE DEF PipeInit
<1>1. <<>> \in Seq(Events) /\ <<>> \in Seq(Symbols) /\ <<>> \in Seq(Calls)
      /\ Len(ch) = 0 /\ Len(out) = 0 /\ ChCap \in Nat /\ OutCap \in Nat /\ 1 \in 1..MaxTries
  BY CapAssumption
<1>2. Fresh \in ParserOf(Symbols) /\ FreshFilter \in FilterOf(Symbols)
  BY FreshIs DEF FreshFilter, FilterOf
<1>3. answer \in Seq(Part)
  BY AnswerAssumption DEF Part
<1>4. src \in [pc : {"run", "closed"}, parts : Seq(Part)]
  BY <1>3
<1>5. flow \in Flows
  BY <1>1, <1>2 DEF Flows
<1>6. wr \in Writers /\ got \in Gots
  BY <1>1, <1>2 DEF Writers, Gots, Ends
<1>7. PipeTypes
  BY <1>1, <1>4, <1>5, <1>6 DEF PipeTypes
<1>8. Sent
  <2>1. Apart(<<>>, <<>>)
    BY DEF Apart, Joins, EndsHalf, EndsScheme
  <2> QED
    BY <2>1, EmptyScan DEF Sent
<1>9. EndNamesCalls
  BY DEF EndNamesCalls, Finished
<1> QED
  BY <1>7, <1>8, <1>9

(* The reader's steps keep its types and the channel's bound. *)
LEMMA ReaderTypes ==
  ASSUME PipeTypes, Produce \/ Eof \/ Break
  PROVE  /\ src' \in [pc : {"run", "closed"}, parts : Seq(Part)]
         /\ ch' \in Seq(Events) /\ Len(ch') <= ChCap
<1>0. src \in [pc : {"run", "closed"}, parts : Seq(Part)] /\ ch \in Seq(Events) /\ Len(ch) <= ChCap
      /\ ChCap \in Nat
  BY CapAssumption DEF PipeTypes
<1>1. CASE Produce
  <2>0. PICK n \in 1..Len(Head(src.parts).text) :
          LET said == SubSeq(Head(src.parts).text, 1, n)
              rest == SubSeq(Head(src.parts).text, n + 1, Len(Head(src.parts).text))
          IN /\ ch' = Append(ch, IF Head(src.parts).think THEN Event(<<>>, said, <<>>, TRUE)
                                 ELSE Event(said, <<>>, <<>>, TRUE))
             /\ src' = [src EXCEPT !.parts =
                          IF rest = <<>> THEN Tail(@)
                          ELSE <<[Head(src.parts) EXCEPT !.text = rest]>> \o Tail(@)]
    BY <1>1 DEF Produce
  <2>1. PICK said, rest :
          /\ said = SubSeq(Head(src.parts).text, 1, n)
          /\ rest = SubSeq(Head(src.parts).text, n + 1, Len(Head(src.parts).text))
          /\ ch' = Append(ch, IF Head(src.parts).think THEN Event(<<>>, said, <<>>, TRUE)
                              ELSE Event(said, <<>>, <<>>, TRUE))
          /\ src' = [src EXCEPT !.parts =
                       IF rest = <<>> THEN Tail(@)
                       ELSE <<[Head(src.parts) EXCEPT !.text = rest]>> \o Tail(@)]
    BY <2>0
  <2>2. PICK part \in Part, tail \in Seq(Part) : part = Head(src.parts) /\ tail = Tail(src.parts)
    BY <1>0, <1>1, HeadTail DEF Produce
  <2>3. part.text \in Seq(Symbols)
    BY DEF Part
  <2>4. said \in Seq(Symbols) /\ rest \in Seq(Symbols)
    <3>1. n \in 0..Len(part.text) /\ n + 1 \in 1..(Len(part.text) + 1)
      BY <2>1, <2>2
    <3> QED
      BY <2>1, <2>2, <2>3, <3>1, Prefix, Rest
  <2>5. PICK e \in Events : ch' = Append(ch, e)
    <3>1. <<>> \in Seq(Symbols) /\ <<>> \in Seq(Calls)
      OBVIOUS
    <3>2. Event(<<>>, said, <<>>, TRUE) \in Events /\ Event(said, <<>>, <<>>, TRUE) \in Events
      BY <2>4, <3>1 DEF Event, Events, Kinds
    <3> QED
      BY <2>1, <3>2
  <2>6. PICK parts \in Seq(Part) : src' = [src EXCEPT !.parts = parts]
    <3>1. CASE rest = <<>>
      BY <2>1, <2>2, <3>1
    <3>2. CASE rest # <<>>
      <4>1. PICK p \in Part : p = [part EXCEPT !.text = rest]
        BY <2>4, <3>2 DEF Part
      <4>2. <<p>> \o tail \in Seq(Part)
        OBVIOUS
      <4> QED
        BY <2>1, <2>2, <3>2, <4>1, <4>2
    <3> QED
      BY <3>1, <3>2
  <2>7. ch' \in Seq(Events) /\ Len(ch') = Len(ch) + 1 /\ Len(ch) < ChCap
    <3>1. Len(ch) < ChCap
      BY <1>1 DEF Produce
    <3> QED
      BY <1>0, <2>5, <3>1
  <2> QED
    BY <1>0, <2>6, <2>7
<1>2. CASE Eof
  BY <1>0, <1>2 DEF Eof
<1>3. CASE Break
  <2>1. ch' \in Seq(Events) /\ Len(ch') = Len(ch) + 1 /\ Len(ch) < ChCap
    BY <1>0, <1>3, EndEvents DEF Break
  <2>2. <<>> \in Seq(Part)
    OBVIOUS
  <2> QED
    BY <1>0, <1>3, <2>1, <2>2 DEF Break
<1> QED
  BY <1>1, <1>2, <1>3

(* An update of the flow is one. *)
LEMMA FlowsIs ==
  ASSUME flow \in Flows, NEW f \in FilterOf(Symbols), NEW t \in ParserOf(Symbols),
         NEW q \in Seq(Events),
         NEW c \in {"receive", "send", "end", "done"}, NEW n \in 1..MaxTries
  PROVE  /\ [flow EXCEPT !.filter = f, !.tool = t, !.queue = q, !.pc = c] \in Flows
         /\ [flow EXCEPT !.pc = c, !.queue = q] \in Flows
         /\ [flow EXCEPT !.queue = q, !.pc = c] \in Flows
         /\ [flow EXCEPT !.try = n, !.filter = f, !.tool = t] \in Flows
         /\ [flow EXCEPT !.pc = c] \in Flows
BY DEF Flows

(* The flow's steps keep its types and the channels' bounds. *)
LEMMA ConsumerTypes ==
  ASSUME PipeTypes, Consumer
  PROVE  /\ src' \in [pc : {"run", "closed"}, parts : Seq(Part)]
         /\ ch' \in Seq(Events) /\ Len(ch') <= ChCap
         /\ flow' \in Flows
         /\ out' \in Seq(Events) /\ Len(out') <= OutCap
<1>0. /\ src \in [pc : {"run", "closed"}, parts : Seq(Part)] /\ answer \in Seq(Part)
      /\ ch \in Seq(Events) /\ Len(ch) <= ChCap /\ ChCap \in Nat /\ Len(ch) \in Nat
      /\ out \in Seq(Events) /\ Len(out) <= OutCap /\ OutCap \in Nat
      /\ flow \in Flows
  <2>1. answer \in Seq(Part)
    BY AnswerAssumption DEF PipeTypes, Part
  <2> QED
    BY <2>1, CapAssumption DEF PipeTypes
<1>1. /\ flow.filter \in FilterOf(Symbols) /\ flow.tool \in ParserOf(Symbols) /\ flow.queue \in Seq(Events)
      /\ flow.try \in 1..MaxTries /\ flow.pc \in {"receive", "send", "end", "done"}
  BY <1>0 DEF Flows
<1>2. CASE Receive
  <2>1. PICK c : /\ c = Consume(flow.filter, flow.tool, Head(ch))
                 /\ flow' = [flow EXCEPT !.filter = c.filter, !.tool = c.tool, !.queue = c.events,
                             !.pc = IF c.events = <<>> THEN "receive" ELSE "send"]
    BY <1>2 DEF Receive
  <2>2. ch # <<>> /\ ch' = Tail(ch) /\ src' = src /\ out' = out
    BY <1>2 DEF Receive
  <2>3. Head(ch) \in Events /\ Tail(ch) \in Seq(Events) /\ Len(Tail(ch)) = Len(ch) - 1
    BY <1>0, <2>2, HeadTail
  <2>4. c.filter \in FilterOf(Symbols) /\ c.tool \in ParserOf(Symbols) /\ c.events \in Seq(Events)
    BY <1>1, <2>1, <2>3, ConsumeTypes
  <2>6. PICK pc \in {"receive", "send", "end", "done"} : pc = IF c.events = <<>> THEN "receive" ELSE "send"
    OBVIOUS
  <2>5. flow' \in Flows
    <3>1. PICK f \in FilterOf(Symbols), t \in ParserOf(Symbols), q \in Seq(Events) :
            f = c.filter /\ t = c.tool /\ q = c.events
      BY <2>4
    <3>2. flow' = [flow EXCEPT !.filter = f, !.tool = t, !.queue = q, !.pc = pc]
      BY <2>1, <2>6, <3>1
    <3> QED
      BY <1>0, <1>1, <3>2, FlowsIs
  <2> QED
    BY <1>0, <2>2, <2>3, <2>5
<1>3. CASE ReceiveClosed
  <2>1. PICK q \in Seq(Events) : flow' = [flow EXCEPT !.pc = "end", !.queue = q]
    BY <1>1, <1>3, FlushedTypes DEF ReceiveClosed
  <2>2. flow' \in Flows
    BY <1>0, <1>1, <2>1, FlowsIs
  <2> QED
    BY <1>0, <1>3, <2>2 DEF ReceiveClosed
<1>4. <<ErrorEvent>> \in Seq(Events) /\ <<>> \in Seq(Events)
  BY EndEvents
<1>5. ASSUME GiveUp PROVE flow' \in Flows
  BY <1>0, <1>1, <1>4, <1>5, FlowsIs DEF GiveUp
<1>6. CASE ReceiveError
  <2>1. ch' = <<>> /\ out' = out
    BY <1>6 DEF ReceiveError
  <2>2. Len(ch') <= ChCap
    <3>1. Len(ch') = 0
      BY <2>1
    <3> QED
      BY <1>0, <3>1
  <2>3. CASE Retry
    <3>1. Fresh \in ParserOf(Symbols) /\ FreshFilter \in FilterOf(Symbols)
      BY FreshIs DEF FreshFilter, FilterOf
    <3>2. flow.try + 1 \in 1..MaxTries
      BY <1>1, <2>3, CapAssumption DEF Retry
    <3>3. flow' = [flow EXCEPT !.try = flow.try + 1, !.filter = FreshFilter, !.tool = Fresh]
      BY <1>0, <2>3 DEF Retry, Flows
    <3>4. flow' \in Flows
      BY <1>0, <1>1, <3>1, <3>2, <3>3, FlowsIs
    <3>5. src' \in [pc : {"run", "closed"}, parts : Seq(Part)]
      BY <1>0, <2>3 DEF Retry
    <3> QED
      BY <1>0, <1>4, <2>1, <2>2, <3>4, <3>5
  <2>4. CASE GiveUp /\ UNCHANGED <<src, excused>>
    BY <1>0, <1>4, <1>5, <2>1, <2>2, <2>4
  <2> QED
    BY <1>6, <2>3, <2>4 DEF ReceiveError
<1>7. CASE ReceiveCancel
  BY <1>0, <1>5, <1>7 DEF ReceiveCancel
<1>8. CASE Send
  <2>1. flow.queue # <<>> /\ Len(out) < OutCap /\ out' = Append(out, Head(flow.queue)) /\ src' = src /\ ch' = ch
    BY <1>8 DEF Send
  <2>2. PICK e \in Events, q \in Seq(Events) : e = Head(flow.queue) /\ q = Tail(flow.queue)
    BY <1>1, <2>1, HeadTail
  <2>3. out' \in Seq(Events) /\ Len(out') = Len(out) + 1 /\ Len(out) \in Nat
    BY <1>0, <2>1, <2>2
  <2>4. PICK c \in {"receive", "send", "end", "done"} : flow' = [flow EXCEPT !.queue = q, !.pc = c]
    <3>1. flow' = [flow EXCEPT !.queue = Tail(flow.queue),
                          !.pc = IF flow.pc = "send" /\ Len(flow.queue) = 1 THEN "receive" ELSE flow.pc]
      BY <1>0, <1>8 DEF Send, Flows
    <3> QED
      BY <1>1, <2>2, <3>1
  <2>5. flow' \in Flows
    BY <1>0, <1>1, <2>4, FlowsIs
  <2> QED
    BY <1>0, <2>1, <2>3, <2>5
<1>9. CASE FlowEnds
  <2>1. flow' = [flow EXCEPT !.pc = "done"]
    BY <1>9 DEF FlowEnds
  <2>2. flow' \in Flows
    BY <1>0, <1>1, <2>1, FlowsIs
  <2> QED
    BY <1>0, <1>9, <2>2 DEF FlowEnds
<1> QED
  BY <1>2, <1>3, <1>6, <1>7, <1>8, <1>9 DEF Consumer

(* What an event of a stream sends. *)
StreamSends(ok, t, c) ==
  /\ wr' \in Writers /\ wr'.pc = IF ok THEN "read" ELSE "gone"
  /\ got' = IF ok THEN [got EXCEPT !.text = t, !.calls = got.calls \o c]
            ELSE [got EXCEPT !.text = t, !.end = "error"]
  /\ ok => (wr'.seen <=> wr.seen \/ c # <<>>) /\ Apart(t, wr'.gate)

(* An event of a stream sends settled text, and no reference once there is a rewriter. *)
LEMMA StreamEventFacts ==
  ASSUME PipeTypes, Sent, wr.pc = "read", req.stream, NEW e \in Events, StreamEvent(e)
  PROVE  \E ok \in BOOLEAN, t \in Seq(Symbols), c \in Seq(Calls) :
           /\ StreamSends(ok, t, c)
           /\ Scan(t).held = <<>>
           /\ wr'.rw => References(t) = References(got.text)
<1>0. /\ wr \in Writers /\ got \in Gots /\ req \in Requests
      /\ wr.tool \in ParserOf(Symbols) /\ wr.open \in BOOLEAN /\ wr.seen \in BOOLEAN /\ wr.gate \in Seq(Symbols)
      /\ got.text \in Seq(Symbols) /\ got.calls \in Seq(Calls) /\ Scan(got.text).held = <<>>
      /\ Apart(got.text, wr.gate)
  BY DEF PipeTypes, Writers, Gots, Sent
<1>a. PICK works \in BOOLEAN, a \in {Adapt(wr.tool, wr.open, e)}, rw \in {Rewriting(e)} :
         \E g1 \in {PushGate(wr.gate, rw, works, a.texts[1])} :
         \E g2 \in {PushGate(g1.gate, rw, works, a.texts[2])} :
          /\ wr' = [wr EXCEPT !.pc = IF g1.ok /\ g2.ok THEN "read" ELSE "gone", !.tool = a.tool,
                           !.open = a.open, !.gate = g2.gate, !.rw = rw,
                           !.seen = @ \/ a.calls # <<>>]
          /\ got' = IF g1.ok /\ g2.ok
                  THEN [got EXCEPT !.text = @ \o g1.out \o g2.out, !.calls = @ \o a.calls]
                  ELSE [got EXCEPT !.text = IF g1.ok THEN @ \o g1.out ELSE @, !.end = "error"]
  BY Zenon DEF StreamEvent
<1>b. PICK g1 \in {PushGate(wr.gate, rw, works, a.texts[1])} :
         \E g2 \in {PushGate(g1.gate, rw, works, a.texts[2])} :
          /\ wr' = [wr EXCEPT !.pc = IF g1.ok /\ g2.ok THEN "read" ELSE "gone", !.tool = a.tool,
                           !.open = a.open, !.gate = g2.gate, !.rw = rw,
                           !.seen = @ \/ a.calls # <<>>]
          /\ got' = IF g1.ok /\ g2.ok
                  THEN [got EXCEPT !.text = @ \o g1.out \o g2.out, !.calls = @ \o a.calls]
                  ELSE [got EXCEPT !.text = IF g1.ok THEN @ \o g1.out ELSE @, !.end = "error"]
  BY Zenon, <1>a
<1>c. PICK g2 \in {PushGate(g1.gate, rw, works, a.texts[2])} :
          /\ wr' = [wr EXCEPT !.pc = IF g1.ok /\ g2.ok THEN "read" ELSE "gone", !.tool = a.tool,
                           !.open = a.open, !.gate = g2.gate, !.rw = rw,
                           !.seen = @ \/ a.calls # <<>>]
          /\ got' = IF g1.ok /\ g2.ok
                  THEN [got EXCEPT !.text = @ \o g1.out \o g2.out, !.calls = @ \o a.calls]
                  ELSE [got EXCEPT !.text = IF g1.ok THEN @ \o g1.out ELSE @, !.end = "error"]
  BY Zenon, <1>b
<1>1. /\ a = Adapt(wr.tool, wr.open, e) /\ rw = Rewriting(e)
      /\ g1 = PushGate(wr.gate, rw, works, a.texts[1])
      /\ g2 = PushGate(g1.gate, rw, works, a.texts[2])
  OBVIOUS
<1>2. rw \in BOOLEAN
  BY <1>1 DEF Rewriting
<1>3. /\ a.tool \in ParserOf(Symbols) /\ a.open \in BOOLEAN
      /\ a.texts[1] \in Seq(Symbols) /\ a.texts[2] \in Seq(Symbols) /\ a.calls \in Seq(Calls)
  BY <1>0, <1>1, AdaptTypes
<1>4. /\ g1.out \in Seq(Symbols) /\ g1.gate \in Seq(Symbols)
      /\ rw => Plain(g1.out) /\ Links(g1.out) = {}
      /\ Scan(g1.out).held = <<>>
      /\ g1.ok => StaysApart(got.text, wr.gate, g1.out, g1.gate)
  BY <1>0, <1>1, <1>2, <1>3, PushGateFacts
<1>5. /\ g2.out \in Seq(Symbols) /\ g2.gate \in Seq(Symbols)
      /\ rw => Plain(g2.out) /\ Links(g2.out) = {}
      /\ Scan(g2.out).held = <<>>
      /\ g2.ok => \A s \in Seq(Symbols) : StaysApart(s, g1.gate, g2.out, g2.gate)
  <2>1. PICK x \in Seq(Symbols), y \in Seq(Symbols) : x = g1.gate /\ y = a.texts[2]
    BY <1>3, <1>4
  <2>2. g2 = PushGate(x, rw, works, y)
    BY <1>1, <2>1
  <2>3. /\ g2.out \in Seq(Symbols) /\ g2.gate \in Seq(Symbols)
        /\ rw => Plain(g2.out) /\ Links(g2.out) = {}
        /\ Scan(g2.out).held = <<>>
        /\ g2.ok => \A s \in Seq(Symbols) : StaysApart(s, x, g2.out, g2.gate)
    BY <1>2, <2>2, PushGateFacts
  <2> QED
    BY Zenon, <2>1, <2>3
<1>6. PICK t1 \in Seq(Symbols) : t1 = got.text \o g1.out
  BY <1>0, <1>4, CatSeq
<1>7. PICK t2 \in Seq(Symbols) : t2 = t1 \o g2.out
  BY <1>5, CatSeq
<1>17. g1.ok => ~Joins(got.text, g1.out) /\ Apart(t1, g1.gate)
  BY <1>0, <1>4, <1>6 DEF StaysApart
<1>18. g1.ok /\ g2.ok => ~Joins(t1, g2.out) /\ Apart(t2, g2.gate)
  BY <1>5, <1>7, <1>17 DEF StaysApart
<1>8. Scan(t1).held = <<>> /\ (rw /\ g1.ok => References(t1) = References(got.text))
  BY <1>0, <1>4, <1>6, <1>17, SettledThen, ReferencesStay
<1>9. Scan(t2).held = <<>> /\ (rw /\ g1.ok /\ g2.ok => References(t2) = References(got.text))
  BY <1>5, <1>7, <1>8, <1>18, SettledThen, ReferencesStay
<1>10. PICK ok \in BOOLEAN : ok <=> g1.ok /\ g2.ok
  OBVIOUS
<1>11. PICK c \in Seq(Calls), p \in {"read", "gone", "done"}, s \in BOOLEAN :
         c = a.calls /\ p = (IF ok THEN "read" ELSE "gone") /\ s = (wr.seen \/ c # <<>>)
  BY <1>3
<1>12. wr' = [wr EXCEPT !.pc = p, !.tool = a.tool, !.open = a.open, !.gate = g2.gate, !.rw = rw, !.seen = s]
  BY <1>0, <1>c, <1>10, <1>11 DEF Writers
<1>13. wr' \in Writers
  <2>1. PICK t \in ParserOf(Symbols), o \in BOOLEAN, g \in Seq(Symbols) :
           t = a.tool /\ o = a.open /\ g = g2.gate
    BY <1>3, <1>5
  <2>2. wr' = [wr EXCEPT !.pc = p, !.tool = t, !.open = o, !.gate = g, !.rw = rw, !.seen = s]
    BY <1>12, <2>1
  <2> QED
    BY <1>0, <1>2, <2>2 DEF Writers
<1>14. wr'.pc = p /\ wr'.seen = s /\ wr'.rw = rw /\ wr'.gate = g2.gate
  BY <1>0, <1>12 DEF Writers
<1>15. CASE ok
  <2>1. got' = [got EXCEPT !.text = t2, !.calls = got.calls \o c]
    BY <1>0, <1>c, <1>6, <1>7, <1>10, <1>11, <1>15 DEF Gots
  <2>2. StreamSends(ok, t2, c)
    BY <1>10, <1>11, <1>13, <1>14, <1>15, <1>18, <2>1 DEF StreamSends
  <2> QED
    BY <1>9, <1>10, <1>14, <1>15, <2>2
<1>16. CASE ~ok
  <2>1. PICK t \in Seq(Symbols) : t = (IF g1.ok THEN t1 ELSE got.text)
    BY <1>0
  <2>2. got' = [got EXCEPT !.text = t, !.end = "error"]
    BY <1>0, <1>c, <1>6, <1>10, <1>16, <2>1 DEF Gots
  <2>3. StreamSends(ok, t, c)
    BY <1>11, <1>13, <1>16, <1>14, <2>2 DEF StreamSends
  <2>4. Scan(t).held = <<>> /\ (rw => References(t) = References(got.text))
    BY <1>0, <1>8, <2>1
  <2> QED
    BY <1>14, <2>3, <2>4
<1> QED
  BY <1>15, <1>16

Caught == wr'.rw => References(Delivered(got')) <= References(Delivered(got))

(* References are counted, and an empty text has none. *)
LEMMA NoMore ==
  ASSUME got \in Gots
  PROVE  References(got.text) \in Nat /\ References(Delivered(got)) \in Nat /\ References(<<>>) = 0
<1>1. got.text \in Seq(Symbols) /\ <<>> \in Seq(Symbols)
  BY DEF Gots
<1>2. Delivered(got) \in Seq(Symbols)
  BY <1>1 DEF Delivered
<1> QED
  BY <1>1, <1>2, EmptyScan, ReferencesStay

WriterKeeps == wr' \in Writers /\ got' \in Gots /\ Sent' /\ EndNamesCalls' /\ Caught

(* A response that sends nothing and stops. *)
LEMMA WriterStill ==
  ASSUME PipeTypes, Sent, EndNamesCalls, wr' \in Writers, wr'.pc # "read", got' = got, req' = req
  PROVE  WriterKeeps
<1>1. got \in Gots
  BY DEF PipeTypes
<1>2. Sent'
  BY DEF Sent
<1>3. EndNamesCalls'
  BY DEF EndNamesCalls, Finished
<1>4. Caught
  BY <1>1, NoMore DEF Caught
<1> QED
  BY <1>1, <1>2, <1>3, <1>4 DEF WriterKeeps

(* An event of a streaming response. *)
LEMMA StreamKeeps ==
  ASSUME PipeTypes, Sent, EndNamesCalls, wr.pc = "read", req' = req, req.stream,
         NEW e \in Events, StreamEvent(e)
  PROVE  WriterKeeps
<1>0. got \in Gots /\ got.calls \in Seq(Calls) /\ got.end = "none"
  BY DEF PipeTypes, Gots, Sent
<1>1. PICK ok \in BOOLEAN, t \in Seq(Symbols), c \in Seq(Calls) :
           /\ StreamSends(ok, t, c)
           /\ Scan(t).held = <<>>
           /\ wr'.rw => References(t) = References(got.text)
  BY StreamEventFacts
<1>2. PICK d \in Seq(Calls) : d = got.calls \o c
  BY <1>0, CatSeq
<1>3. CASE ok
  <2>1. /\ got' = [got EXCEPT !.text = t, !.calls = d] /\ wr'.pc = "read"
        /\ wr'.seen <=> wr.seen \/ c # <<>>
        /\ Apart(t, wr'.gate)
    BY <1>1, <1>2, <1>3 DEF StreamSends
  <2>2. got' \in Gots /\ got'.text = t /\ got'.calls = d /\ got'.end = "none"
    BY <1>0, <2>1 DEF Gots
  <2>3. d # <<>> <=> got.calls # <<>> \/ c # <<>>
    BY <1>0, <1>2
  <2>4. Sent'
    BY <1>1, <2>1, <2>2, <2>3 DEF Sent
  <2>5. EndNamesCalls'
    BY <2>2 DEF EndNamesCalls, Finished
  <2>6. Delivered(got') = t /\ Delivered(got) = got.text
    BY <2>2 DEF Delivered
  <2>7. Caught
    BY <1>0, <1>1, <2>6, NoMore DEF Caught
  <2> QED
    BY <1>1, <2>2, <2>4, <2>5, <2>7 DEF WriterKeeps, StreamSends
<1>4. CASE ~ok
  <2>1. got' = [got EXCEPT !.text = t, !.end = "error"] /\ wr'.pc = "gone"
    BY <1>1, <1>4 DEF StreamSends
  <2>2. got' \in Gots /\ got'.text = t /\ got'.end = "error"
    BY <1>0, <2>1 DEF Gots, Ends
  <2>4. Sent'
    BY <2>1 DEF Sent
  <2>5. EndNamesCalls'
    BY <2>2 DEF EndNamesCalls, Finished
  <2>6. Delivered(got') = t /\ Delivered(got) = got.text
    BY <2>2 DEF Delivered
  <2>7. Caught
    BY <1>0, <1>1, <2>6, NoMore DEF Caught
  <2> QED
    BY <1>1, <2>2, <2>4, <2>5, <2>7 DEF WriterKeeps, StreamSends
<1> QED
  BY <1>3, <1>4

(* An event of a collected response. *)
LEMMA CollectKeeps ==
  ASSUME PipeTypes, Sent, EndNamesCalls, wr.pc = "read", req' = req, ~req.stream,
         NEW e \in Events, CollectEvent(e)
  PROVE  WriterKeeps
<1>0. /\ wr \in Writers /\ got \in Gots /\ req \in Requests /\ got.end = "none"
      /\ wr.tool \in ParserOf(Symbols) /\ wr.open \in BOOLEAN
      /\ got.text \in Seq(Symbols) /\ got.calls \in Seq(Calls)
  BY DEF PipeTypes, Writers, Gots, Sent
<1>1. PICK a : /\ a = Adapt(wr.tool, wr.open, e)
               /\ wr' = [wr EXCEPT !.tool = a.tool, !.open = a.open, !.rw = Rewriting(e)]
               /\ got' = [got EXCEPT !.text = @ \o a.texts[1] \o a.texts[2], !.calls = @ \o a.calls]
  BY DEF CollectEvent
<1>2. /\ a.tool \in ParserOf(Symbols) /\ a.open \in BOOLEAN
      /\ a.texts[1] \in Seq(Symbols) /\ a.texts[2] \in Seq(Symbols) /\ a.calls \in Seq(Calls)
  BY <1>0, <1>1, AdaptTypes
<1>3. PICK b \in BOOLEAN, t \in ParserOf(Symbols), o \in BOOLEAN :
        b = Rewriting(e) /\ t = a.tool /\ o = a.open
  BY <1>2 DEF Rewriting
<1>4. wr' = [wr EXCEPT !.tool = t, !.open = o, !.rw = b]
  BY <1>1, <1>3
<1>5. wr' \in Writers /\ wr'.pc = "read"
  BY <1>0, <1>4 DEF Writers
<1>6. PICK x \in Seq(Symbols), y \in Seq(Symbols) : x = a.texts[1] /\ y = a.texts[2]
  BY <1>2
<1>7. PICK u \in Seq(Symbols), d \in Seq(Calls) : u = got.text \o x \o y /\ d = got.calls \o a.calls
  BY <1>0, <1>2, CatSeq
<1>8. got' = [got EXCEPT !.text = u, !.calls = d]
  BY <1>0, <1>1, <1>6, <1>7 DEF Gots
<1>9. got' \in Gots /\ got'.end = "none"
  BY <1>0, <1>8 DEF Gots
<1>10. Sent' /\ EndNamesCalls'
  BY <1>9 DEF Sent, EndNamesCalls, Finished
<1>11. Delivered(got') = <<>> /\ Delivered(got) = <<>>
  BY <1>0, <1>9 DEF Delivered
<1>12. Caught
  BY <1>0, <1>11, NoMore DEF Caught
<1> QED
  BY <1>5, <1>9, <1>10, <1>12 DEF WriterKeeps

(* An error ends the response. *)
LEMMA ErrorKeeps ==
  ASSUME PipeTypes, Sent, EndNamesCalls, WriteError
  PROVE  WriterKeeps
<1>0. /\ wr \in Writers /\ got \in Gots /\ got.end = "none" /\ wr.pc = "read" /\ req' = req
  BY DEF PipeTypes, Sent, WriteError, Take, wrRest
<1>1. wr' = [wr EXCEPT !.pc = "gone"] /\ got' = IF req.stream THEN [got EXCEPT !.end = "error"] ELSE Failed
  BY DEF WriteError
<1>2. wr' \in Writers /\ wr'.pc = "gone"
  BY <1>0, <1>1 DEF Writers
<1>3. <<>> \in Seq(Symbols) /\ <<>> \in Seq(Calls)
  OBVIOUS
<1>4. got' \in Gots /\ got'.end = "error" /\ got'.text = IF req.stream THEN got.text ELSE <<>>
  BY <1>0, <1>1, <1>3 DEF Gots, Ends, Failed
<1>5. Sent' /\ EndNamesCalls'
  BY <1>2, <1>4 DEF Sent, EndNamesCalls, Finished
<1>6. Delivered(got') = IF req.stream THEN got.text ELSE <<>>
  BY <1>4 DEF Delivered
<1>7. Delivered(got) = IF req.stream THEN got.text ELSE <<>>
  BY <1>0 DEF Delivered
<1>8. Caught
  BY <1>0, <1>6, <1>7, NoMore DEF Caught
<1> QED
  BY <1>2, <1>4, <1>5, <1>8 DEF WriterKeeps

(* What closes a think block has no image and no link. *)
LEMMA CloseIs ==
  ASSUME NEW open
  PROVE  /\ CloseThink(open) \in Seq(Symbols \ {"img)"}) /\ CloseThink(open) \in Seq(Symbols)
         /\ Links(CloseThink(open)) = {}
         /\ \A s : ~Joins(s, CloseThink(open))
<1>1. <<>> \in Seq(Symbols \ {"img)"}) /\ <<>> \in Seq(Symbols) /\ Len(<<>>) < 3
  OBVIOUS
<1>2. "[/think]" \in Symbols \ {"img)"} /\ "[/think]" \in Symbols
  BY DEF Symbols
<1>3. ThinkClose \in Seq(Symbols \ {"img)"}) /\ ThinkClose \in Seq(Symbols) /\ Len(ThinkClose) < 3
      /\ ThinkClose[1] = "[/think]"
  BY <1>2 DEF ThinkClose
<1>4. Links(<<>>) = {} /\ Links(ThinkClose) = {}
  BY <1>1, <1>3, LinksFinite
<1>5. \A s : ~Joins(s, <<>>) /\ ~Joins(s, ThinkClose)
  BY <1>3 DEF Joins
<1> QED
  BY <1>1, <1>3, <1>4, <1>5 DEF CloseThink

(* The end of a stream: the gate is let through, rewritten. *)
LEMMA FinishStreamKeeps ==
  ASSUME PipeTypes, Sent, wr.pc = "read", req.stream, req' = req, FinishStream, wr' = [wr EXCEPT !.pc = "done"]
  PROVE  WriterKeeps
<1>0. /\ wr \in Writers /\ got \in Gots /\ got.end = "none" /\ wr.rw \in BOOLEAN /\ wr.gate \in Seq(Symbols)
      /\ got.text \in Seq(Symbols) /\ Scan(got.text).held = <<>> /\ (wr.seen <=> got.calls # <<>>)
      /\ Apart(got.text, wr.gate)
  BY DEF PipeTypes, Sent, Writers, Gots
<1>a. PICK works \in BOOLEAN : \E w :
        w = RewriteContent(wr.rw, works, wr.gate) /\
        got' = IF w.ok THEN [got EXCEPT !.text = @ \o w.out \o CloseThink(wr.open), !.end = Finish(wr.seen)]
              ELSE [got EXCEPT !.end = "error"]
  BY DEF FinishStream
<1>1. PICK w :
        w = RewriteContent(wr.rw, works, wr.gate) /\
        got' = IF w.ok THEN [got EXCEPT !.text = @ \o w.out \o CloseThink(wr.open), !.end = Finish(wr.seen)]
              ELSE [got EXCEPT !.end = "error"]
  BY <1>a
<1>2. wr' \in Writers /\ wr'.pc = "done" /\ wr'.rw = wr.rw
  BY <1>0 DEF Writers
<1>3. /\ w.out \in Seq(Symbols) /\ (wr.rw => Plain(w.out) /\ Links(w.out) = {})
      /\ w.ok => Alike(wr.gate, w.out)
  BY <1>0, <1>1, RewriteFacts
<1>4. PICK z \in Seq(Symbols) :
        /\ z = CloseThink(wr.open) /\ z \in Seq(Symbols \ {"img)"}) /\ Links(z) = {}
        /\ \A s : ~Joins(s, z)
  BY CloseIs
<1>5. PICK v \in Seq(Symbols) : v = w.out \o z
  BY <1>3, CatSeq
<1>6. PICK u \in Seq(Symbols) : u = got.text \o v
  BY <1>0, CatSeq
<1>7. u = (got.text \o w.out) \o z
  <2>1. PICK a \in Seq(Symbols), b \in Seq(Symbols) : a = got.text /\ b = w.out
    BY <1>0, <1>3
  <2>2. (a \o b) \o z = a \o (b \o z)
    OBVIOUS
  <2>3. u = a \o (b \o z)
    BY <1>5, <1>6, <2>1
  <2>4. (got.text \o w.out) \o z = (a \o b) \o z
    BY <2>1
  <2> QED
    BY Zenon, <2>2, <2>3, <2>4
<1>8. ASSUME wr.rw, w.ok PROVE References(u) = References(got.text)
  <2>1. Plain(v)
    BY <1>3, <1>4, <1>5, <1>8, PlainThen
  <2>2. Links(v) = {}
    BY <1>3, <1>4, <1>5, <1>8, LinksStay
  <2>3. ~Joins(got.text, v)
    <3>1. CASE w.out = <<>>
      <4>1. v = z
        BY <1>4, <1>5, <3>1
      <4> QED
        BY <1>4, <4>1
    <3>2. CASE w.out # <<>>
      <4>3. PICK o \in Seq(Symbols) : o = w.out /\ o # <<>>
        BY <1>3, <3>2
      <4>4. v = o \o z
        BY <1>5, <4>3
      <4>5. v[1] = o[1]
        <5>1. 1 \in 1..Len(o)
          BY <4>3
        <5>2. \A i \in 1..Len(o) : v[i] = o[i]
          BY <4>4
        <5> QED
          BY <5>1, <5>2
      <4>1. v[1] = w.out[1] /\ wr.gate # <<>> /\ w.out[1] \in {wr.gate[1], "pic"}
        BY <1>3, <1>8, <4>3, <4>5 DEF Alike
      <4>2. ~Joins(got.text, wr.gate)
        BY <1>0 DEF Apart
      <4> QED
        BY <4>1, <4>2 DEF Joins
    <3> QED
      BY <3>1, <3>2
  <2> QED
    BY <1>0, <1>6, <2>1, <2>2, <2>3, ReferencesStay
<1>9. Delivered(got) = got.text
  BY DEF Delivered
<1>10. CASE w.ok
  <2>1. PICK e \in Ends : e = Finish(wr.seen) /\ e # "none"
    BY DEF Ends, Finish
  <2>2. got' = [got EXCEPT !.text = u, !.end = e]
    BY <1>0, <1>1, <1>4, <1>7, <1>10, <2>1 DEF Gots
  <2>3. got' \in Gots /\ got'.text = u /\ got'.end = e /\ got'.calls = got.calls
    BY <1>0, <2>2 DEF Gots
  <2>4. Sent' /\ EndNamesCalls'
    BY <1>0, <1>2, <2>1, <2>3 DEF Sent, EndNamesCalls, Finished, Finish
  <2>5. Delivered(got') = u
    BY <2>3 DEF Delivered
  <2>6. Caught
    BY <1>0, <1>2, <1>8, <1>9, <1>10, <2>5, NoMore DEF Caught
  <2> QED
    BY <1>2, <2>3, <2>4, <2>6 DEF WriterKeeps
<1>11. CASE ~w.ok
  <2>1. got' = [got EXCEPT !.end = "error"]
    BY <1>1, <1>11
  <2>2. got' \in Gots /\ got'.text = got.text /\ got'.end = "error"
    BY <1>0, <2>1 DEF Gots, Ends
  <2>4. Sent' /\ EndNamesCalls'
    BY <1>2, <2>2 DEF Sent, EndNamesCalls, Finished
  <2>5. Delivered(got') = got.text
    BY <2>2 DEF Delivered
  <2>6. Caught
    BY <1>0, <1>9, <2>5, NoMore DEF Caught
  <2> QED
    BY <1>2, <2>2, <2>4, <2>6 DEF WriterKeeps
<1> QED
  BY <1>10, <1>11

(* The end of a collected response: all of it is rewritten. *)
LEMMA FinishCollectedKeeps ==
  ASSUME PipeTypes, Sent, wr.pc = "read", ~req.stream, req' = req, FinishCollected, wr' = [wr EXCEPT !.pc = "done"]
  PROVE  WriterKeeps
<1>0. /\ wr \in Writers /\ got \in Gots /\ got.end = "none" /\ wr.rw \in BOOLEAN /\ wr.open \in BOOLEAN
      /\ got.text \in Seq(Symbols) /\ got.calls \in Seq(Calls) /\ wr.tool \in ParserOf(Symbols)
  BY DEF PipeTypes, Sent, Writers, Gots
<1>a. PICK works \in BOOLEAN : \E f, t, v, w :
        /\ f = (IF req.tools THEN FlushTool(wr.tool) ELSE [out |-> <<>>, calls |-> <<>>])
        /\ t = HandleText(wr.open, f.out)
        /\ v = got.text \o t.out \o CloseThink(t.open)
        /\ w = RewriteContent(wr.rw, works, v)
        /\ got' = IF w.ok THEN [text |-> w.out, calls |-> got.calls \o f.calls,
                                end |-> Finish(got.calls \o f.calls # <<>>)]
                  ELSE Failed
  BY DEF FinishCollected
<1>1. PICK f, t, v, w :
        /\ f = (IF req.tools THEN FlushTool(wr.tool) ELSE [out |-> <<>>, calls |-> <<>>])
        /\ t = HandleText(wr.open, f.out)
        /\ v = got.text \o t.out \o CloseThink(t.open)
        /\ w = RewriteContent(wr.rw, works, v)
        /\ got' = IF w.ok THEN [text |-> w.out, calls |-> got.calls \o f.calls,
                                end |-> Finish(got.calls \o f.calls # <<>>)]
                  ELSE Failed
  BY <1>a
<1>2. wr' \in Writers /\ wr'.pc = "done" /\ wr'.rw = wr.rw
  BY <1>0 DEF Writers
<1>3. f.out \in Seq(Symbols) /\ f.calls \in Seq(Calls)
  <2>1. <<>> \in Seq(Symbols) /\ <<>> \in Seq(Calls) /\ {"<", "tool>", "/tool>"} \subseteq Symbols
    BY DEF Symbols
  <2> QED
    BY <1>0, <1>1, <2>1, FlushToolTypes
<1>4. t.open \in BOOLEAN /\ t.out \in Seq(Symbols)
  BY <1>0, <1>1, <1>3, TextTypes
<1>5. v \in Seq(Symbols)
  <2>1. PICK z \in Seq(Symbols) : z = CloseThink(t.open)
    BY CloseIs
  <2>2. PICK k \in Seq(Symbols) : k = t.out
    BY <1>4
  <2>3. v = got.text \o k \o z
    BY <1>1, <2>1, <2>2
  <2> QED
    BY <1>0, <2>3
<1>6. w.out \in Seq(Symbols) /\ (wr.rw => Plain(w.out) /\ Links(w.out) = {})
  BY <1>0, <1>1, <1>5, RewriteFacts
<1>7. PICK c \in Seq(Calls) : c = got.calls \o f.calls
  BY <1>0, <1>3, CatSeq
<1>8. Delivered(got) = <<>>
  BY <1>0 DEF Delivered
<1>10. CASE w.ok
  <2>1. PICK e \in Ends : e = Finish(c # <<>>) /\ e # "none"
    BY DEF Ends, Finish
  <2>2. got' = [text |-> w.out, calls |-> c, end |-> e]
    BY <1>1, <1>7, <1>10, <2>1
  <2>3. got' \in Gots /\ got'.text = w.out /\ got'.end = e /\ got'.calls = c
    BY <1>6, <2>2 DEF Gots
  <2>4. Sent' /\ EndNamesCalls'
    BY <1>2, <2>1, <2>3 DEF Sent, EndNamesCalls, Finished, Finish
  <2>5. Delivered(got') = w.out
    BY <2>1, <2>3 DEF Delivered
  <2>6. Caught
    <3>1. wr.rw => References(w.out) = 0
      BY <1>0, <1>6, ReferencesStay
    <3> QED
      BY <1>0, <1>2, <1>8, <2>5, <3>1, NoMore DEF Caught
  <2> QED
    BY <1>2, <2>3, <2>4, <2>6 DEF WriterKeeps
<1>11. CASE ~w.ok
  <2>1. got' = Failed
    BY <1>1, <1>11
  <2>2. got' \in Gots /\ got'.text = <<>> /\ got'.end = "error"
    <3>1. <<>> \in Seq(Symbols) /\ <<>> \in Seq(Calls)
      OBVIOUS
    <3> QED
      BY <2>1, <3>1 DEF Gots, Ends, Failed
  <2>4. Sent' /\ EndNamesCalls'
    BY <1>2, <2>2 DEF Sent, EndNamesCalls, Finished
  <2>5. Delivered(got') = <<>>
    BY <2>2 DEF Delivered
  <2>6. Caught
    BY <1>0, <1>8, <2>5, NoMore DEF Caught
  <2> QED
    BY <1>2, <2>2, <2>4, <2>6 DEF WriterKeeps
<1> QED
  BY <1>10, <1>11

(* Every step of the response keeps what has been sent in order. *)
LEMMA WriterStep ==
  ASSUME PipeTypes, Sent, EndNamesCalls, Writer
  PROVE  WriterKeeps
<1>0. wr \in Writers
  BY DEF PipeTypes
<1>1. CASE WriteEvent
  <2>1. Head(out) \in Events
    BY <1>1, HeadTail DEF WriteEvent, Take, PipeTypes
  <2>2. wr.pc = "read" /\ req' = req /\ (IF req.stream THEN StreamEvent(Head(out)) ELSE CollectEvent(Head(out)))
    BY <1>1 DEF WriteEvent, Take, wrRest
  <2> QED
    BY <2>1, <2>2, StreamKeeps, CollectKeeps
<1>2. CASE WriteError
  BY <1>2, ErrorKeeps
<1>3. CASE WriteFinish
  <2>1. wr.pc = "read" /\ req' = req /\ (IF req.stream THEN FinishStream ELSE FinishCollected)
        /\ wr' = [wr EXCEPT !.pc = "done"]
    BY <1>3 DEF WriteFinish, wrRest
  <2> QED
    BY <2>1, FinishStreamKeeps, FinishCollectedKeeps
<1>4. CASE WriterLeaves
  <2>1. wr' = [wr EXCEPT !.pc = "gone"] /\ got' = got /\ req' = req
    BY <1>4 DEF WriterLeaves, wrRest
  <2>2. wr' \in Writers /\ wr'.pc = "gone"
    BY <1>0, <2>1 DEF Writers
  <2> QED
    BY <2>1, <2>2, WriterStill
<1> QED
  BY <1>1, <1>2, <1>3, <1>4 DEF Writer

(* And its types. *)
LEMMA WriterTypes ==
  ASSUME PipeTypes, Sent, EndNamesCalls, Writer
  PROVE  PipeTypes'
<1>1. out' \in Seq(Events) /\ Len(out') <= OutCap
  <2>0. out \in Seq(Events) /\ Len(out) <= OutCap /\ OutCap \in Nat
    BY CapAssumption DEF PipeTypes
  <2>1. CASE WriteEvent \/ WriteError
    <3>1. out # <<>> /\ out' = Tail(out)
      BY <2>1 DEF WriteEvent, WriteError, Take
    <3> QED
      BY <2>0, <3>1
  <2>2. CASE WriteFinish \/ WriterLeaves
    BY <2>0, <2>2 DEF WriteFinish, WriterLeaves
  <2> QED
    BY <2>1, <2>2 DEF Writer
<1>2. UNCHANGED wrRest
  BY DEF Writer, WriteEvent, WriteError, WriteFinish, WriterLeaves
<1> QED
  BY <1>1, <1>2, WriterStep DEF PipeTypes, WriterKeeps, wrRest

IInv == PipeTypes /\ Sent /\ EndNamesCalls

(* Every step keeps the invariant and catches the references. *)
LEMMA StepKeeps ==
  ASSUME IInv, [Next]_pipeVars
  PROVE  IInv' /\ Caught
<1> USE DEF IInv
<1>0. got \in Gots
  BY DEF PipeTypes
<1>1. CASE Reader \/ Break
  <2>1. UNCHANGED srcRest
    BY <1>1 DEF Reader, Produce, Eof, Break
  <2>2. PipeTypes'
    BY <1>1, <2>1, ReaderTypes DEF Reader, PipeTypes, srcRest
  <2>3. Sent' /\ EndNamesCalls'
    BY <2>1 DEF Sent, EndNamesCalls, Finished, srcRest
  <2>4. Caught
    BY <1>0, <2>1, NoMore DEF Caught, srcRest
  <2> QED
    BY <2>2, <2>3, <2>4
<1>2. CASE Consumer
  <2>1. UNCHANGED <<flowRest, answer>>
    BY <1>2 DEF Consumer, Receive, ReceiveClosed, ReceiveError, ReceiveCancel, Send, FlowEnds
  <2>2. PipeTypes'
    BY <1>2, <2>1, ConsumerTypes DEF PipeTypes, flowRest
  <2>3. Sent' /\ EndNamesCalls'
    BY <2>1 DEF Sent, EndNamesCalls, Finished, flowRest
  <2>4. Caught
    BY <1>0, <2>1, NoMore DEF Caught, flowRest
  <2> QED
    BY <2>2, <2>3, <2>4
<1>3. CASE Writer
  BY <1>3, WriterTypes, WriterStep DEF WriterKeeps
<1>4. CASE ClientLeaves \/ UNCHANGED pipeVars
  <2>1. UNCHANGED <<req, answer, src, ch, flow, out, wr, got>>
    BY <1>4 DEF ClientLeaves, pipeVars
  <2>2. PipeTypes'
    BY <2>1 DEF PipeTypes
  <2>3. Sent' /\ EndNamesCalls'
    BY <2>1 DEF Sent, EndNamesCalls, Finished
  <2>4. Caught
    BY <1>0, <2>1, NoMore DEF Caught
  <2> QED
    BY <2>2, <2>3, <2>4
<1> QED
  BY <1>1, <1>2, <1>3, <1>4 DEF Next

(* The invariant holds in every state: a stream has sent only settled text *)
(* and the calls it has sent are those its finish reason will count.       *)
THEOREM IInvHolds == Spec => []IInv
<1>1. PipeInit => IInv
  BY PipeInitTypes DEF IInv
<1>2. IInv /\ [Next]_pipeVars => IInv'
  BY StepKeeps
<1> QED
  BY <1>1, <1>2, PTL DEF Spec

(* The invariant gives the shape of the state. *)
LEMMA TypesGive ==
  ASSUME IInv
  PROVE  PipeTypeOK
<1>1. got.text \in Seq(Symbols) /\ got.calls \in Seq(Calls) /\ got.end \in Ends
  BY DEF IInv, PipeTypes, Gots
<1>2. Range(got.text) \subseteq Symbols /\ Range(got.calls) \subseteq Calls
  BY <1>1 DEF Range
<1>3. wr.pc \in {"read", "gone", "done"} /\ flow.pc \in {"receive", "send", "end", "done"}
      /\ flow.try \in 1..MaxTries
  BY DEF IInv, PipeTypes, Writers, Flows
<1> QED
  BY <1>1, <1>2, <1>3 DEF IInv, PipeTypes, PipeTypeOK, Ends

(* The shape of the state, PipeInv's first part: for every answer, request *)
(* and capacity, the parsers, the channels within their capacities and the *)
(* client's text and calls are what they are meant to be.                  *)
THEOREM PipeTypesHold == Spec => []PipeTypeOK
BY IInvHolds, TypesGive, PTL

(* The reason that ends an answer says whether the client got a call,      *)
(* streaming or not (chatStreamAdapter.toolCallsSeen and the calls the     *)
(* collector has).                                                         *)
THEOREM EndNamesCallsHolds == Spec => []EndNamesCalls
<1>1. IInv => EndNamesCalls
  BY DEF IInv
<1> QED
  BY <1>1, IInvHolds, PTL

(* Once the response has a downloader its text gets no more references to  *)
(* the upstream's images, in whatever pieces an image or a link comes, and *)
(* whether or not downloads work: the gate (streamingSafeFlushIndex) never *)
(* lets half of one through.  Of the text alone: the arguments of a call   *)
(* pass by the gate.                                                       *)
THEOREM TextAlwaysRewritten == Spec => TextIsRewritten
<1>1. IInv /\ [Next]_pipeVars =>
        [wr.rw' => References(Delivered(got')) <= References(Delivered(got))]_pipeVars
  BY StepKeeps DEF Caught
<1> QED
  BY <1>1, IInvHolds, PTL DEF Spec, TextIsRewritten

-----------------------------------------------------------------------------
(* Think blocks.  A text is read symbol by symbol; a state says whether a  *)
(* block is open.                                                          *)

Outside == {"x", "![", "img)"}
Moves(a, s, b) ==
  /\ s = "[think]" => ~a /\ b
  /\ s = "[/think]" => a /\ ~b
  /\ s \notin {"[think]", "[/think]"} => b = a
  /\ s \in Outside => ~a

(* h reads the text t from a to b. *)
Reads(h, t, a, b) ==
  /\ h \in [0..Len(t) -> BOOLEAN] /\ h[0] = a /\ h[Len(t)] = b
  /\ \A i \in 1..Len(t) : Moves(h[i - 1], t[i], h[i])

Walk(t, a, b) == \E h : Reads(h, t, a, b)

(* No text leads nowhere. *)
LEMMA WalkNothing ==
  ASSUME NEW a \in BOOLEAN, NEW b
  PROVE  Walk(<<>>, a, b) <=> b = a
<1>1. ASSUME Walk(<<>>, a, b) PROVE b = a
  BY <1>1 DEF Walk, Reads
<1>2. ASSUME b = a PROVE Walk(<<>>, a, b)
  <2>1. Reads([i \in 0..0 |-> a], <<>>, a, b)
    BY <1>2 DEF Reads
  <2> QED
    BY <2>1 DEF Walk
<1> QED
  BY <1>1, <1>2

(* Where a walk begins and ends. *)
LEMMA WalkEnds ==
  ASSUME NEW X, NEW t \in Seq(X), NEW a, NEW b, Walk(t, a, b)
  PROVE  a \in BOOLEAN /\ b \in BOOLEAN
<1>1. PICK h : Reads(h, t, a, b)
  BY DEF Walk
<1>2. Len(t) \in Nat /\ 0 \in 0..Len(t) /\ Len(t) \in 0..Len(t)
  OBVIOUS
<1> QED
  BY <1>1, <1>2 DEF Reads

(* One symbol. *)
LEMMA WalkOne ==
  ASSUME NEW s, NEW a \in BOOLEAN, NEW b \in BOOLEAN, Moves(a, s, b)
  PROVE  Walk(<<s>>, a, b)
<1>1. PICK h \in [0..1 -> BOOLEAN] : h = [i \in 0..1 |-> IF i = 0 THEN a ELSE b]
  OBVIOUS
<1>2. h[0] = a /\ h[1] = b
  BY <1>1
<1>3. Len(<<s>>) = 1 /\ <<s>>[1] = s
  OBVIOUS
<1>4. \A i \in 1..1 : i = 1 /\ i - 1 = 0
  OBVIOUS
<1>5. Reads(h, <<s>>, a, b)
  BY <1>2, <1>3, <1>4 DEF Reads
<1> QED
  BY <1>5 DEF Walk

(* One text after another. *)
LEMMA WalkCat ==
  ASSUME NEW X, NEW t \in Seq(X), NEW u \in Seq(X), NEW a, NEW m, NEW b,
         Walk(t, a, m), Walk(u, m, b)
  PROVE  Walk(t \o u, a, b)
<1>1. PICK h : Reads(h, t, a, m)
  BY DEF Walk
<1>2. PICK k : Reads(k, u, m, b)
  BY DEF Walk
<1>3. PICK p \in Nat : p = Len(t)
  OBVIOUS
<1>4. PICK q \in Nat : q = Len(u)
  OBVIOUS
<1>5. PICK v : v = t \o u
  OBVIOUS
<1>6. Len(v) = p + q /\ (\A i \in 1..p : v[i] = t[i]) /\ (\A i \in 1..q : v[p + i] = u[i])
  BY <1>3, <1>4, <1>5
<1>7. PICK g : g = [i \in 0..(p + q) |-> IF i <= p THEN h[i] ELSE k[i - p]]
  OBVIOUS
<1>8. g \in [0..(p + q) -> BOOLEAN]
  <2>1. \A i \in 0..(p + q) : (i <= p => i \in 0..p) /\ (~(i <= p) => i - p \in 0..q)
    OBVIOUS
  <2> QED
    BY <1>1, <1>2, <1>3, <1>4, <1>7, <2>1 DEF Reads
<1>9. g[0] = a
  BY <1>1, <1>3, <1>7 DEF Reads
<1>10. g[p + q] = b
  <2>1. CASE q = 0
    <3>1. p + q = p /\ p \in 0..p /\ p <= p
      BY <2>1
    <3>2. g[p + q] = h[p]
      BY <1>7, <3>1
    <3> QED
      BY <1>1, <1>2, <1>3, <1>4, <2>1, <3>2 DEF Reads
  <2>2. CASE q # 0
    <3>1. ~(p + q <= p) /\ (p + q) - p = q /\ p + q \in 0..(p + q)
      BY <2>2
    <3> QED
      BY <1>2, <1>4, <1>7, <3>1 DEF Reads
  <2> QED
    BY <2>1, <2>2
<1>11. \A i \in 1..(p + q) : Moves(g[i - 1], v[i], g[i])
  <2> TAKE i \in 1..(p + q)
  <2>1. CASE i <= p
    <3>1. i \in 1..p /\ i - 1 <= p /\ i - 1 \in 0..(p + q) /\ i \in 0..(p + q)
      BY <2>1
    <3>2. g[i - 1] = h[i - 1] /\ g[i] = h[i] /\ v[i] = t[i]
      BY <1>6, <1>7, <2>1, <3>1
    <3> QED
      BY <1>1, <1>3, <3>1, <3>2 DEF Reads
  <2>2. CASE ~(i <= p)
    <3>1. PICK j \in 1..q : i = p + j
      <4>1. i - p \in 1..q /\ i = p + (i - p)
        BY <2>2
      <4> QED
        BY <4>1
    <3>2. v[i] = u[j] /\ g[i] = k[j]
      <4>1. i \in 0..(p + q) /\ i - p = j
        BY <3>1
      <4> QED
        BY <1>6, <1>7, <2>2, <3>1, <4>1
    <3>3. g[i - 1] = k[j - 1]
      <4>1. CASE j = 1
        <5>1. i - 1 = p /\ p \in 0..(p + q) /\ j - 1 = 0 /\ p <= p
          BY <3>1, <4>1
        <5>2. g[i - 1] = h[p]
          BY <1>7, <5>1
        <5> QED
          BY <1>1, <1>2, <1>3, <5>1, <5>2 DEF Reads
      <4>2. CASE j # 1
        <5>1. ~(i - 1 <= p) /\ i - 1 \in 0..(p + q) /\ (i - 1) - p = j - 1
          BY <3>1, <4>2
        <5> QED
          BY <1>7, <5>1
      <4> QED
        BY <4>1, <4>2
    <3> QED
      BY <1>2, <1>4, <3>1, <3>2, <3>3 DEF Reads
  <2> QED
    BY <2>1, <2>2
<1>12. Reads(g, v, a, b)
  BY <1>6, <1>8, <1>9, <1>10, <1>11 DEF Reads
<1> QED
  BY <1>5, <1>12 DEF Walk

(* A walk of two texts passes between them. *)
LEMMA WalkSplit ==
  ASSUME NEW X, NEW t \in Seq(X), NEW u \in Seq(X), NEW a, NEW b, Walk(t \o u, a, b)
  PROVE  \E m \in BOOLEAN : Walk(t, a, m) /\ Walk(u, m, b)
<1>3. PICK p \in Nat : p = Len(t)
  OBVIOUS
<1>4. PICK q \in Nat : q = Len(u)
  OBVIOUS
<1>5. PICK v : v = t \o u
  OBVIOUS
<1>6. Len(v) = p + q /\ (\A i \in 1..p : v[i] = t[i]) /\ (\A i \in 1..q : v[p + i] = u[i])
  BY <1>3, <1>4, <1>5
<1>7. PICK g : Reads(g, v, a, b)
  BY <1>5 DEF Walk
<1>8. g \in [0..(p + q) -> BOOLEAN] /\ g[0] = a /\ g[p + q] = b
      /\ \A i \in 1..(p + q) : Moves(g[i - 1], v[i], g[i])
  BY <1>6, <1>7 DEF Reads
<1>9. PICK h : h = [i \in 0..p |-> g[i]]
  OBVIOUS
<1>10. PICK k : k = [i \in 0..q |-> g[p + i]]
  OBVIOUS
<1>11. Reads(h, t, a, g[p])
  <2>1. \A i \in 0..p : i \in 0..(p + q)
    OBVIOUS
  <2>2. h \in [0..p -> BOOLEAN] /\ h[0] = a /\ h[p] = g[p]
    BY <1>8, <1>9, <2>1
  <2>3. \A i \in 1..p : Moves(h[i - 1], t[i], h[i])
    <3> TAKE i \in 1..p
    <3>1. i \in 1..(p + q) /\ i - 1 \in 0..p /\ i \in 0..p
      OBVIOUS
    <3> QED
      BY <1>6, <1>8, <1>9, <3>1
  <2> QED
    BY <1>3, <2>2, <2>3 DEF Reads
<1>12. Reads(k, u, g[p], b)
  <2>1. \A i \in 0..q : p + i \in 0..(p + q)
    OBVIOUS
  <2>2. p + 0 = p /\ 0 \in 0..q /\ q \in 0..q
    OBVIOUS
  <2>3. k \in [0..q -> BOOLEAN] /\ k[0] = g[p] /\ k[q] = b
    BY <1>8, <1>10, <2>1, <2>2
  <2>4. \A i \in 1..q : Moves(k[i - 1], u[i], k[i])
    <3> TAKE i \in 1..q
    <3>1. p + i \in 1..(p + q) /\ i - 1 \in 0..q /\ i \in 0..q /\ p + (i - 1) = (p + i) - 1
      OBVIOUS
    <3>2. k[i - 1] = g[(p + i) - 1] /\ k[i] = g[p + i] /\ u[i] = v[p + i]
      BY <1>6, <1>10, <3>1
    <3> QED
      BY <1>8, <3>1, <3>2
  <2> QED
    BY <1>4, <2>3, <2>4 DEF Reads
<1>13. g[p] \in BOOLEAN
  BY <1>8
<1> QED
  BY <1>11, <1>12, <1>13 DEF Walk

(* A text whose symbols stay where they are. *)
LEMMA WalkStill ==
  ASSUME NEW X, NEW a \in BOOLEAN, \A s \in X : Moves(a, s, a), NEW t \in Seq(X)
  PROVE  Walk(t, a, a)
<1>1. PICK n \in Nat : n = Len(t)
  OBVIOUS
<1>2. PICK h : h = [i \in 0..n |-> a]
  OBVIOUS
<1>3. \A i \in 1..n : t[i] \in X /\ i - 1 \in 0..n /\ i \in 0..n
  BY <1>1
<1>4. h \in [0..n -> BOOLEAN] /\ h[0] = a /\ h[n] = a /\ \A i \in 1..n : Moves(h[i - 1], t[i], h[i])
  BY <1>2, <1>3
<1>5. Reads(h, t, a, a)
  BY <1>1, <1>4 DEF Reads
<1> QED
  BY <1>5 DEF Walk

(* Content, and reasoning, as the upstream labels them. *)
Content == Symbols \ {"[think]", "[/think]"}
Reasoning == Content \ Outside

(* Content stays outside a block, reasoning inside. *)
LEMMA WalkLabelled ==
  /\ \A t \in Seq(Content) : Walk(t, FALSE, FALSE)
  /\ \A t \in Seq(Reasoning) : Walk(t, TRUE, TRUE)
<1>1. \A s \in Content : Moves(FALSE, s, FALSE)
  BY DEF Moves, Content
<1>2. \A s \in Reasoning : Moves(TRUE, s, TRUE)
  BY DEF Moves, Reasoning, Content
<1> QED
  BY <1>1, <1>2, WalkStill

(* One more symbol. *)
LEMMA WalkAppend ==
  ASSUME NEW X, NEW t \in Seq(X), NEW s, NEW a, NEW m \in BOOLEAN, NEW b \in BOOLEAN,
         Walk(t, a, m), Moves(m, s, b)
  PROVE  Walk(Append(t, s), a, b)
<1>1. PICK Y : Y = X \cup {s}
  OBVIOUS
<1>2. t \in Seq(Y) /\ <<s>> \in Seq(Y) /\ Append(t, s) = t \o <<s>>
  BY <1>1
<1>3. Walk(<<s>>, m, b)
  BY WalkOne
<1>4. Walk(t \o <<s>>, a, b)
  BY <1>2, <1>3, WalkCat
<1> QED
  BY <1>2, <1>4

(* How far a text that is scanned has been walked: an image that has begun *)
(* began outside a block.                                                  *)
Halfway(acc, a, b) ==
  \E m \in BOOLEAN : /\ Walk(acc.done, a, m) /\ Walk(acc.held, m, b)
                     /\ acc.held # <<>> => ~m

(* A step of Scan walks on: a whole image is left out. *)
LEMMA HalfwayStep ==
  ASSUME NEW acc \in ScanAcc(Symbols), NEW s \in Symbols, NEW a \in BOOLEAN,
         NEW b \in BOOLEAN, NEW c \in BOOLEAN, Halfway(acc, a, b), Moves(b, s, c)
  PROVE  Halfway(ScanStep(acc, s), a, c)
<1>0. PICK m \in BOOLEAN : Walk(acc.done, a, m) /\ Walk(acc.held, m, b) /\ (acc.held # <<>> => ~m)
  BY DEF Halfway
<1>1. acc.done \in Seq(Symbols) /\ acc.held \in Seq(Symbols)
  BY DEF ScanAcc
<1>2. <<>> \in Seq(Symbols) /\ "pic" \in Symbols
  BY DEF Symbols
<1>3. CASE acc.held = <<>> /\ s = "!["
  <2>1. ScanStep(acc, s).done = acc.done /\ ScanStep(acc, s).held = <<s>>
    BY <1>3 DEF ScanStep, ScanAcc
  <2>2. m = b
    BY <1>0, <1>3, WalkNothing
  <2>3. ~b /\ ~c
    BY <1>3 DEF Moves, Outside
  <2>4. Walk(<<s>>, m, c)
    BY <2>2, WalkOne
  <2> QED
    BY <1>0, <2>1, <2>2, <2>3, <2>4 DEF Halfway
<1>4. CASE acc.held = <<>> /\ s # "!["
  <2>1. ScanStep(acc, s).done = Append(acc.done, s) /\ ScanStep(acc, s).held = <<>>
    BY <1>4 DEF ScanStep, ScanAcc
  <2>2. m = b
    BY <1>0, <1>4, WalkNothing
  <2>3. Walk(Append(acc.done, s), a, c)
    BY <1>0, <1>1, <2>2, WalkAppend
  <2>4. Walk(<<>>, c, c)
    BY WalkNothing
  <2> QED
    BY <2>1, <2>3, <2>4 DEF Halfway
<1>5. CASE acc.held # <<>> /\ s = "img)"
  <2>1. ScanStep(acc, s).done = Append(acc.done, "pic") /\ ScanStep(acc, s).held = <<>>
    BY <1>5 DEF ScanStep, ScanAcc
  <2>2. ~m /\ ~c
    BY <1>0, <1>5 DEF Moves, Outside
  <2>3. Moves(m, "pic", c)
    BY <2>2 DEF Moves, Outside
  <2>4. Walk(Append(acc.done, "pic"), a, c)
    BY <1>0, <1>1, <2>3, WalkAppend
  <2>5. Walk(<<>>, c, c)
    BY WalkNothing
  <2> QED
    BY <2>1, <2>4, <2>5 DEF Halfway
<1>6. CASE acc.held # <<>> /\ s # "img)"
  <2>1. ScanStep(acc, s).done = acc.done /\ ScanStep(acc, s).held = Append(acc.held, s)
    BY <1>6 DEF ScanStep, ScanAcc
  <2>2. Walk(Append(acc.held, s), m, c)
    BY <1>0, <1>1, WalkAppend
  <2>3. ~m
    BY <1>0, <1>6
  <2> QED
    BY <1>0, <2>1, <2>2, <2>3 DEF Halfway
<1> QED
  BY <1>3, <1>4, <1>5, <1>6

(* A text whose images are replaced is walked as it was. *)
LEMMA WalkRewritten ==
  ASSUME NEW text \in Seq(Symbols), NEW a \in BOOLEAN, NEW b \in BOOLEAN, Walk(text, a, b)
  PROVE  Walk(Rewritten(text), a, b)
<1>0. "pic" \in Symbols
  BY DEF Symbols
<1>1. PICK f \in [0..Len(text) -> ScanAcc(Symbols)] : Scans(f, text, Len(text)) /\ Scan(text) = f[Len(text)]
  BY <1>0, ScanIs
<1>2. PICK h : Reads(h, text, a, b)
  BY DEF Walk
<1>3. PICK n \in Nat : n = Len(text)
  OBVIOUS
<1>4. \A i \in 1..n : text[i] \in Symbols
  BY <1>3
<1>5. /\ h \in [0..n -> BOOLEAN] /\ h[0] = a /\ h[n] = b
      /\ \A i \in 1..n : Moves(h[i - 1], text[i], h[i])
  BY <1>2, <1>3 DEF Reads
<1>6. /\ f \in [0..n -> ScanAcc(Symbols)] /\ f[0] = Nothing
      /\ \A i \in 1..n : f[i] = ScanStep(f[i - 1], text[i])
  BY <1>1, <1>3 DEF Scans
<1> DEFINE N == {i \in 0..n : Halfway(f[i], a, h[i])}
<1>7. 0 \in N
  <2>1. f[0].done = <<>> /\ f[0].held = <<>>
    BY <1>6 DEF Nothing
  <2>2. Walk(<<>>, a, a)
    BY WalkNothing
  <2>3. Halfway(f[0], a, a)
    BY <2>1, <2>2 DEF Halfway
  <2> QED
    BY <1>5, <2>3
<1>8. ASSUME NEW i \in 1..n, i - 1 \in N PROVE i \in N
  <2>1. i - 1 \in 0..n /\ i \in 0..n
    OBVIOUS
  <2>2. Halfway(f[i - 1], a, h[i - 1])
    BY <1>8
  <2>3. f[i - 1] \in ScanAcc(Symbols) /\ h[i - 1] \in BOOLEAN /\ h[i] \in BOOLEAN
        /\ Moves(h[i - 1], text[i], h[i]) /\ text[i] \in Symbols
    BY <1>4, <1>5, <1>6, <2>1
  <2>4. Halfway(ScanStep(f[i - 1], text[i]), a, h[i])
    BY <2>2, <2>3, HalfwayStep
  <2> QED
    BY <1>6, <2>1, <2>4
<1>9. N = 0..n
  <2>1. N \in SUBSET (0..n)
    OBVIOUS
  <2> HIDE DEF N
  <2> QED
    BY <1>7, <1>8, <2>1, UpTo
<1>10. Halfway(f[n], a, b)
  <2>1. n \in N
    BY <1>9
  <2> QED
    BY <1>5, <2>1
<1>11. PICK m \in BOOLEAN : Walk(Scan(text).done, a, m) /\ Walk(Scan(text).held, m, b)
  BY <1>1, <1>3, <1>10 DEF Halfway
<1>12. Scan(text).done \in Seq(Symbols) /\ Scan(text).held \in Seq(Symbols)
  BY <1>0, ScanTypes DEF ScanAcc
<1> QED
  BY <1>11, <1>12, WalkCat DEF Rewritten

(* So is what rewriteContent lets through. *)
LEMMA WalkRewrite ==
  ASSUME NEW on \in BOOLEAN, NEW works \in BOOLEAN, NEW t \in Seq(Symbols), NEW w,
         w = RewriteContent(on, works, t), w.ok,
         NEW a \in BOOLEAN, NEW b \in BOOLEAN, Walk(t, a, b)
  PROVE  Walk(w.out, a, b)
<1>1. CASE w = [ok |-> TRUE, out |-> t]
  BY <1>1
<1>2. CASE w = [ok |-> TRUE, out |-> Rewritten(t)]
  <2>1. w.out = Rewritten(t)
    BY <1>2
  <2> QED
    BY <2>1, WalkRewritten
<1>3. CASE w = [ok |-> FALSE, out |-> <<>>]
  BY <1>3
<1> QED
  BY <1>1, <1>2, <1>3, RewriteIs

(* The gate, step by step. *)
Gated(gate, rw, works, text, g) ==
  \E c \in Seq(Symbols), r \in Seq(Symbols) : \E w :
    /\ gate \o text = c \o r /\ w = RewriteContent(rw, works, c)
    /\ g.ok = w.ok /\ g.out = w.out /\ (w.ok => g.gate = r)

(* PushGate is those steps. *)
LEMMA PushGateIs ==
  ASSUME NEW gate \in Seq(Symbols), NEW rw \in BOOLEAN, NEW works \in BOOLEAN,
         NEW text \in Seq(Symbols), NEW g, g = PushGate(gate, rw, works, text)
  PROVE  Gated(gate, rw, works, text, g)
<1>1. PICK q \in Seq(Symbols) : q = gate \o text
  BY CatSeq
<1>2. PICK k : k = StreamingSafeFlushIndex(q)
  OBVIOUS
<1>3. k \in 0..Len(q)
  BY <1>2, CutSettled
<1>4. PICK c \in Seq(Symbols) : c = SubSeq(q, 1, k)
  BY <1>3, Prefix
<1>5. PICK w : w = RewriteContent(rw, works, c)
  OBVIOUS
<1>6. PICK r \in Seq(Symbols) : r = SubSeq(q, k + 1, Len(q))
  <2>1. k + 1 \in 1..(Len(q) + 1)
    BY <1>3
  <2> QED
    BY <2>1, Rest
<1>7. q = c \o r
  <2>1. PICK n \in Nat : n = Len(q)
    OBVIOUS
  <2>2. k \in 0..n /\ k + 1 \in 1..(n + 1)
    BY <1>3, <2>1
  <2>3. Len(c) = k /\ \A i \in 1..k : c[i] = q[i]
    BY <1>3, <1>4, Prefix
  <2>4. Len(r) = n - k /\ \A i \in 1..(n - k) : r[i] = q[k + i]
    BY <1>6, <2>1, <2>2
  <2>5. Len(c \o r) = n /\ c \o r \in Seq(Symbols)
    BY <2>2, <2>3, <2>4
  <2>6. ASSUME NEW i \in 1..n PROVE (c \o r)[i] = q[i]
    <3>1. CASE i <= k
      BY <2>2, <2>3, <3>1
    <3>2. CASE ~(i <= k)
      <4>1. i - k \in 1..(n - k) /\ k + (i - k) = i
        BY <2>2, <3>2
      <4>2. (c \o r)[i] = r[i - k]
        BY <2>3, <2>4, <3>2, <4>1
      <4> QED
        BY <2>4, <4>1, <4>2
    <3> QED
      BY <3>1, <3>2
  <2> QED
    BY <2>1, <2>5, <2>6
<1>8. g = CHOOSE x \in {CHOOSE y \in {CHOOSE z \in {[ok |-> w1.ok, out |-> w1.out,
                                                      gate |-> IF w1.ok THEN SubSeq(q1, k1 + 1, Len(q1)) ELSE q1]
                                         : w1 \in {RewriteContent(rw, works, SubSeq(q1, 1, k1))}} : TRUE
                          : k1 \in {StreamingSafeFlushIndex(q1)}} : TRUE
               : q1 \in {gate \o text}} : TRUE
  BY Zenon DEF PushGate, Bind
<1>9. g = [ok |-> w.ok, out |-> w.out, gate |-> IF w.ok THEN SubSeq(q, k + 1, Len(q)) ELSE q]
  BY <1>1, <1>2, <1>4, <1>5, <1>8, Only
<1>10. g.ok = w.ok /\ g.out = w.out /\ (w.ok => g.gate = r)
  BY <1>6, <1>9
<1> QED
  BY <1>1, <1>5, <1>7, <1>10 DEF Gated

(* What the gate lets through and what it keeps are walked like what came. *)
LEMMA WalkGate ==
  ASSUME NEW gate \in Seq(Symbols), NEW rw \in BOOLEAN, NEW works \in BOOLEAN,
         NEW text \in Seq(Symbols), NEW g, g = PushGate(gate, rw, works, text), g.ok,
         NEW a \in BOOLEAN, NEW m \in BOOLEAN, NEW b \in BOOLEAN,
         Walk(gate, a, m), Walk(text, m, b)
  PROVE  \E n \in BOOLEAN : Walk(g.out, a, n) /\ Walk(g.gate, n, b)
<1>0. Gated(gate, rw, works, text, g)
  BY PushGateIs
<1>a. PICK c \in Seq(Symbols), r \in Seq(Symbols) : \E w :
        /\ gate \o text = c \o r /\ w = RewriteContent(rw, works, c)
        /\ g.ok = w.ok /\ g.out = w.out /\ (w.ok => g.gate = r)
  BY <1>0 DEF Gated
<1>1. PICK w :
        /\ gate \o text = c \o r /\ w = RewriteContent(rw, works, c)
        /\ g.ok = w.ok /\ g.out = w.out /\ (w.ok => g.gate = r)
  BY <1>a
<1>2. Walk(c \o r, a, b)
  BY <1>1, WalkCat
<1>3. PICK n \in BOOLEAN : Walk(c, a, n) /\ Walk(r, n, b)
  BY <1>2, WalkSplit
<1>4. w.ok
  BY <1>1
<1>5. Walk(w.out, a, n)
  BY <1>1, <1>3, <1>4, WalkRewrite
<1> QED
  BY <1>1, <1>3, <1>4, <1>5

(* The tags of the think writer open a block and close it. *)
LEMMA WalkTags ==
  /\ Walk(ThinkOpen, FALSE, TRUE) /\ ThinkOpen \in Seq(Symbols)
  /\ Walk(ThinkClose, TRUE, FALSE) /\ ThinkClose \in Seq(Symbols)
<1>1. Walk(ThinkOpen, FALSE, TRUE) /\ ThinkOpen \in Seq(Symbols)
  <2>1. Moves(FALSE, "[think]", TRUE)
    BY DEF Moves, Outside
  <2>2. Walk(<<"[think]">>, FALSE, TRUE)
    BY <2>1, WalkOne
  <2>3. <<"[think]">> \in Seq(Symbols)
    BY DEF Symbols
  <2> QED
    BY <2>2, <2>3 DEF ThinkOpen
<1>2. Walk(ThinkClose, TRUE, FALSE) /\ ThinkClose \in Seq(Symbols)
  <2>1. Moves(TRUE, "[/think]", FALSE)
    BY DEF Moves, Outside
  <2>2. Walk(<<"[/think]">>, TRUE, FALSE)
    BY <2>1, WalkOne
  <2>3. <<"[/think]">> \in Seq(Symbols)
    BY DEF Symbols
  <2> QED
    BY <2>2, <2>3 DEF ThinkClose
<1> QED
  BY <1>1, <1>2

(* Reasoning is written inside a block. *)
LEMMA WalkReasoning ==
  ASSUME NEW open \in BOOLEAN, NEW show \in BOOLEAN, NEW t \in Seq(Reasoning),
         NEW r, r = HandleReasoning(show, open, t)
  PROVE  r.open \in BOOLEAN /\ r.out \in Seq(Symbols) /\ Walk(r.out, open, r.open)
<1>n. Walk(<<>>, open, open) /\ <<>> \in Seq(Symbols)
  BY WalkNothing
<1>s. Content \subseteq Symbols /\ Reasoning \subseteq Symbols
  BY DEF Content, Reasoning
<1>a. t \in Seq(Symbols)
  BY <1>s
<1>b. Walk(t, TRUE, TRUE)
  BY Zenon, WalkLabelled
<1>0. t \in Seq(Symbols) /\ Walk(t, TRUE, TRUE)
  BY <1>a, <1>b
<1>1. CASE ~show \/ t = <<>>
  <2>1. r.open = open /\ r.out = <<>>
    BY <1>1 DEF HandleReasoning
  <2> QED
    BY <1>n, <2>1
<1>2. CASE ~(~show \/ t = <<>>) /\ open
  <2>1. r.open = TRUE /\ r.out = <<>> \o t
    BY <1>2 DEF HandleReasoning
  <2>2. <<>> \o t = t
    BY <1>0
  <2> QED
    BY <1>0, <1>2, <2>1, <2>2
<1>3. CASE ~(~show \/ t = <<>>) /\ ~open
  <2>1. r.open = TRUE /\ r.out = ThinkOpen \o t
    BY <1>3 DEF HandleReasoning
  <2>2. Walk(ThinkOpen \o t, FALSE, TRUE)
    BY WalkTags, <1>0, WalkCat
  <2> QED
    BY WalkTags, <1>0, <1>3, <2>1, <2>2, CatSeq
<1> QED
  BY <1>1, <1>2, <1>3

(* Text is written outside. *)
LEMMA WalkText ==
  ASSUME NEW open \in BOOLEAN, NEW t \in Seq(Content), NEW r, r = HandleText(open, t)
  PROVE  r.open \in BOOLEAN /\ r.out \in Seq(Symbols) /\ Walk(r.out, open, r.open)
<1>n. Walk(<<>>, open, open) /\ <<>> \in Seq(Symbols)
  BY WalkNothing
<1>s. Content \subseteq Symbols /\ Reasoning \subseteq Symbols
  BY DEF Content, Reasoning
<1>a. t \in Seq(Symbols)
  BY <1>s
<1>b. Walk(t, FALSE, FALSE)
  BY Zenon, WalkLabelled
<1>0. t \in Seq(Symbols) /\ Walk(t, FALSE, FALSE)
  BY <1>a, <1>b
<1>1. CASE t = <<>>
  <2>1. r.open = open /\ r.out = <<>>
    BY <1>1 DEF HandleText
  <2> QED
    BY <1>n, <2>1
<1>2. CASE t # <<>> /\ ~open
  <2>1. r.open = FALSE /\ r.out = <<>> \o t
    BY <1>2 DEF HandleText
  <2>2. <<>> \o t = t
    BY <1>0
  <2> QED
    BY <1>0, <1>2, <2>1, <2>2
<1>3. CASE t # <<>> /\ open
  <2>1. r.open = FALSE /\ r.out = ThinkClose \o t
    BY <1>3 DEF HandleText
  <2>2. Walk(ThinkClose \o t, TRUE, FALSE)
    BY WalkTags, <1>0, WalkCat
  <2> QED
    BY WalkTags, <1>0, <1>3, <2>1, <2>2, CatSeq
<1> QED
  BY <1>1, <1>2, <1>3

(* The end closes the block that is open. *)
LEMMA WalkClose ==
  ASSUME NEW open \in BOOLEAN
  PROVE  CloseThink(open) \in Seq(Symbols) /\ Walk(CloseThink(open), open, FALSE)
<1>1. Walk(<<>>, open, open) /\ <<>> \in Seq(Symbols)
  BY WalkNothing
<1>2. CASE open
  BY <1>2, WalkTags DEF CloseThink
<1>3. CASE ~open
  <2>1. open = FALSE
    BY <1>3
  <2> QED
    BY <1>1, <1>3, <2>1 DEF CloseThink
<1> QED
  BY <1>2, <1>3

-----------------------------------------------------------------------------
(* The tag filter is shared: what it holds of the content must not come    *)
(* out as reasoning.  All it holds outside a block is the beginning of a   *)
(* start tag, and that is dropped once the tag ends.                       *)

Begun(t) == Len(t) >= 2 /\ t[1] = "<" /\ t[2] = "drop" /\ \A i \in 1..Len(t) : t[i] # ">"
Tame(p) ==
  \/ p.part \in {<<>>, <<"<">>}
  \/ ~p.in /\ Begun(p.part)

(* Text over A, perhaps behind a start tag that has begun. *)
Behindhand(A, d, k) ==
  /\ d[1] = "<" /\ d[2] = "drop" /\ \A i \in 1..k : d[i] # ">"
  /\ \A i \in (k + 1)..Len(d) : d[i] \in A
Mixed(A, in, d) == d \in Seq(A) \/ (~in /\ \E k \in 2..Len(d) : Behindhand(A, d, k))

TameAcc(A) ==
  {a \in AccOf(Content) : /\ a.out \in Seq(A) /\ Mixed(A, a.p.in, a.data)
                          /\ IF a.data = <<>> THEN Tame(a.p) ELSE a.p.part = <<>>}

(* A chunk that is used up. *)
LEMMA TameDone ==
  ASSUME NEW A, NEW r \in AccOf(Content), r.out \in Seq(A), r.data = <<>>, Tame(r.p)
  PROVE  r \in TameAcc(A)
<1>1. r.data \in Seq(A)
  OBVIOUS
<1>2. Mixed(A, r.p.in, r.data)
  BY Zenon, <1>1 DEF Mixed
<1> QED
  BY <1>2 DEF TameAcc

(* A chunk that goes on. *)
LEMMA TameOn ==
  ASSUME NEW A, NEW r \in AccOf(Content), r.out \in Seq(A), r.p.part = <<>>,
         Mixed(A, r.p.in, r.data)
  PROVE  r \in TameAcc(A)
<1>1. Tame(r.p)
  BY DEF Tame
<1> QED
  BY <1>1 DEF TameAcc

(* Where the filter's loop begins. *)
LEMMA TameBegins ==
  ASSUME NEW A, "<" \in A, A \subseteq Content, NEW p \in ParserOf(Content), Tame(p),
         NEW chunk \in Seq(A)
  PROVE  Began(p, chunk) \in TameAcc(A)
<1>0. chunk \in Seq(Content) /\ <<>> \in Seq(A)
  OBVIOUS
<1>1. PICK b : b = Began(p, chunk)
  OBVIOUS
<1>2. b \in AccOf(Content) /\ b.p = [p EXCEPT !.part = <<>>] /\ b.data = p.part \o chunk /\ b.out = <<>>
  BY <1>0, <1>1, BeganIs
<1>3. b.p.part = <<>> /\ b.p.in = p.in
  BY <1>2 DEF ParserOf
<1>4. Mixed(A, p.in, p.part \o chunk)
  <2>1. CASE p.part \in {<<>>, <<"<">>}
    <3>0. <<>> \in Seq(A) /\ <<"<">> \in Seq(A)
      OBVIOUS
    <3>1. p.part \in Seq(A)
      BY <2>1, <3>0
    <3>2. p.part \o chunk \in Seq(A)
      BY <3>1, CatSeq
    <3> QED
      BY Zenon, <3>2 DEF Mixed
  <2>2. CASE ~p.in /\ Begun(p.part)
    <3>1. PICK t \in Seq(Content) : t = p.part
      BY DEF ParserOf
    <3>2. PICK k \in Nat : k = Len(t)
      BY <3>1
    <3>3. PICK m \in Nat : m = Len(chunk)
      OBVIOUS
    <3>4. PICK d \in Seq(Content) : d = t \o chunk
      BY <1>0, CatSeq
    <3>5. Len(d) = k + m /\ (\A i \in 1..k : d[i] = t[i]) /\ (\A i \in 1..m : d[k + i] = chunk[i])
      BY <1>0, <3>2, <3>3, <3>4
    <3>6. k >= 2 /\ t[1] = "<" /\ t[2] = "drop" /\ \A i \in 1..k : t[i] # ">"
      BY <2>2, <3>1, <3>2 DEF Begun
    <3>7. \A i \in (k + 1)..(k + m) : d[i] \in A
      <4> TAKE i \in (k + 1)..(k + m)
      <4>1. i - k \in 1..m /\ k + (i - k) = i
        OBVIOUS
      <4>2. chunk[i - k] \in A
        BY <3>3, <4>1
      <4> QED
        BY <3>5, <4>1, <4>2
    <3>8. Behindhand(A, d, k) /\ k \in 2..Len(d)
      BY <3>5, <3>6, <3>7 DEF Behindhand
    <3> QED
      BY <2>2, <3>1, <3>4, <3>8 DEF Mixed
  <2> QED
    BY <2>1, <2>2 DEF Tame
<1>5. b.out \in Seq(A) /\ Mixed(A, b.p.in, b.data)
  BY <1>0, <1>2, <1>3, <1>4
<1> QED
  BY <1>1, <1>2, <1>3, <1>5, TameOn

(* What is before a place. *)
LEMMA BeforeIn ==
  ASSUME NEW X, NEW d \in Seq(X), NEW i \in 1..Len(d)
  PROVE  Before(d, i) \in Seq(X) /\ Len(Before(d, i)) = i - 1
<1>1. i - 1 \in 0..Len(d)
  OBVIOUS
<1> QED
  BY <1>1, Prefix DEF Before

(* A round of the filter lets only symbols of the chunk through. *)
LEMMA TameRound ==
  ASSUME NEW A, "<" \in A, A \subseteq Content, NEW a \in TameAcc(A), a.data # <<>>
  PROVE  DropRound(a) \in TameAcc(A) /\ Len(DropRound(a).data) < Len(a.data)
<1>0. a \in AccOf(Content) /\ a.out \in Seq(A) /\ Mixed(A, a.p.in, a.data) /\ a.p.part = <<>>
  BY DEF TameAcc
<1>1. /\ a.p \in ParserOf(Content) /\ a.data \in Seq(Content) /\ a.p.in \in BOOLEAN
      /\ Len(a.data) \in Nat /\ Len(a.data) > 0 /\ "<" \in Content
  BY <1>0 DEF AccOf, ParserOf
<1>2. PICK r : r = DropRound(a)
  OBVIOUS
<1>3. r \in AccOf(Content) /\ Len(r.data) < Len(a.data)
  BY <1>0, <1>1, <1>2, DropRoundTypes
<1> DEFINE i == Index(a.data, IF a.p.in THEN DropEnd ELSE DropStart)
           tag == SubSeq(a.data, i, Len(a.data))
           j == Index(tag, <<">">>)
<1>e. <<>> \in Seq(A)
  OBVIOUS
<1>4. CASE ~a.p.in
  <2>1. i \in Nat /\ (i = 0 => \A k : ~TagAt(a.data, k, "drop"))
        /\ (i # 0 => TagAt(a.data, i, "drop") /\ \A k : TagAt(a.data, k, "drop") => i <= k)
    BY <1>1, <1>4, IndexFacts DEF DropStart
  <2>2. a.data \in Seq(A) \/ (i = 1 /\ \E k \in 2..Len(a.data) : Behindhand(A, a.data, k))
    <3>1. CASE \E k \in 2..Len(a.data) : Behindhand(A, a.data, k)
      <4>1. TagAt(a.data, 1, "drop")
        BY <1>1, <3>1 DEF Behindhand, TagAt
      <4>2. i # 0
        BY <2>1, <4>1
      <4>3. i <= 1
        BY <2>1, <4>1, <4>2
      <4> QED
        BY <2>1, <3>1, <4>2, <4>3
    <3> QED
      BY <1>0, <3>1 DEF Mixed
  <2> HIDE DEF i
  <2>3. CASE i = 0
    <3>1. r = [p |-> [a.p EXCEPT !.part = Carry(a.data, DropStart)], data |-> <<>>,
                              out |-> a.out \o Clean(a.data, DropStart), calls |-> a.calls]
      BY <1>0, <1>1, <1>2, <1>4, <2>3, DropRoundIs DEF i
    <3>2. a.data \in Seq(A)
      BY <2>2, <2>3
    <3>3. Clean(a.data, DropStart) \in Seq(A) /\ Carry(a.data, DropStart) \in {<<>>, <<"<">>}
      BY <3>2, CleanFacts DEF DropStart
    <3>4. r.out \in Seq(A) /\ r.data = <<>>
      BY <1>0, <3>1, <3>3, CatSeq
    <3>5. r.p.part \in {<<>>, <<"<">>}
      BY <1>1, <3>1, <3>3 DEF ParserOf
    <3>6. Tame(r.p)
      BY <3>5 DEF Tame
    <3> QED
      BY <1>2, <1>3, <3>4, <3>6, TameDone
  <2>4. CASE i # 0
    <3>1. i \in 1..Len(a.data) /\ i + 1 \in 1..Len(a.data) /\ a.data[i] = "<" /\ a.data[i + 1] = "drop"
      BY <1>1, <2>1, <2>4 DEF TagAt
    <3>2. tag \in Seq(Content) /\ Len(tag) = Len(a.data) - i + 1
          /\ \A k \in 1..(Len(a.data) - i + 1) : tag[k] = a.data[i + k - 1]
      BY <1>1, <3>1, Rest
    <3>3. Before(a.data, i) \in Seq(A)
      <4>1. CASE a.data \in Seq(A)
        <5>1. PICK X : X = A
          OBVIOUS
        <5>2. a.data \in Seq(X) /\ i \in 1..Len(a.data)
          BY <3>1, <4>1, <5>1
        <5>3. Before(a.data, i) \in Seq(X)
          BY <5>2, BeforeIn
        <5> QED
          BY <5>1, <5>3
      <4>2. CASE i = 1
        <5>1. Before(a.data, i) \in Seq(Content) /\ Len(Before(a.data, i)) = 0
          <6>1. PICK d \in Seq(Content) : d = a.data
            BY <1>1
          <6>2. i \in 1..Len(d)
            BY <3>1, <6>1
          <6>3. Before(d, i) \in Seq(Content) /\ Len(Before(d, i)) = i - 1
            BY <6>2, BeforeIn
          <6> QED
            BY <4>2, <6>1, <6>3
        <5>2. Before(a.data, i) = <<>>
          BY <5>1
        <5> QED
          BY <1>e, <5>2
      <4> QED
        BY <2>2, <4>1, <4>2
    <3>4. a.out \o Before(a.data, i) \in Seq(A)
      BY <1>0, <3>3, CatSeq
    <3> HIDE DEF tag
    <3>5. j \in Nat /\ (j = 0 => \A k \in 1..Len(tag) : tag[k] # ">")
          /\ (j # 0 => j \in 1..Len(tag) /\ tag[j] = ">" /\ \A k \in 1..(j - 1) : tag[k] # ">")
      BY <3>2, IndexOne
    <3> HIDE DEF j
    <3>6. CASE j = 0
      <4>1. r = [p |-> [a.p EXCEPT !.part = tag], data |-> <<>>,
                              out |-> a.out \o Before(a.data, i), calls |-> a.calls]
        BY <1>0, <1>1, <1>2, <1>4, <2>4, <3>6, DropRoundIs DEF i, j, tag
      <4>2. Begun(tag)
        <5>1. Len(tag) >= 2 /\ 1 \in 1..(Len(a.data) - i + 1) /\ 2 \in 1..(Len(a.data) - i + 1)
              /\ i + 1 - 1 = i /\ i + 2 - 1 = i + 1
          BY <1>1, <3>1, <3>2
        <5>2. tag[1] = "<" /\ tag[2] = "drop"
          BY <3>1, <3>2, <5>1
        <5> QED
          BY <3>5, <3>6, <5>1, <5>2 DEF Begun
      <4>3. r.p.part = tag /\ r.p.in = a.p.in /\ r.data = <<>> /\ r.out = a.out \o Before(a.data, i)
        BY <1>1, <4>1 DEF ParserOf
      <4>4. Tame(r.p)
        BY <1>4, <4>2, <4>3 DEF Tame
      <4> QED
        BY <1>2, <1>3, <3>4, <4>3, <4>4, TameDone
    <3>7. CASE j # 0
      <4>1. r = [p |-> [a.p EXCEPT !.in = TRUE], data |-> After(tag, j, <<">">>),
                              out |-> a.out \o Before(a.data, i), calls |-> a.calls]
        BY <1>0, <1>1, <1>2, <1>4, <2>4, <3>7, DropRoundIs DEF i, j, tag
      <4>2. After(tag, j, <<">">>) \in Seq(Content) /\ Len(After(tag, j, <<">">>)) = Len(tag) - j
            /\ \A k \in 1..(Len(tag) - j) : After(tag, j, <<">">>)[k] = tag[j + k]
        <5>1. PICK X : X = Content
          OBVIOUS
        <5>2. tag \in Seq(X) /\ j \in 1..Len(tag)
          BY <3>2, <3>5, <3>7, <5>1
        <5> QED
          BY <5>1, <5>2, AfterGt
      <4>3. PICK d \in Seq(Content) : d = After(tag, j, <<">">>)
        BY <4>2
      <4>4. PICK n \in Nat : n = Len(tag)
        BY <3>2
      <4>5. Len(d) = n - j /\ \A k \in 1..(n - j) : d[k] = tag[j + k]
        BY <4>2, <4>3, <4>4
      <4>6. \A k \in 1..(n - j) : d[k] \in A
        <5> TAKE k \in 1..(n - j)
        <5>0. j \in 1..n /\ j + k \in 1..n /\ n = Len(a.data) - i + 1
          BY <3>2, <3>5, <3>7, <4>4
        <5>1. d[k] = a.data[i + (j + k) - 1] /\ i + (j + k) - 1 \in 1..Len(a.data)
          <6>1. PICK q : q = j + k
            OBVIOUS
          <6>2. q \in 1..(Len(a.data) - i + 1) /\ i \in 1..Len(a.data) /\ Len(a.data) \in Nat
            BY <1>1, <3>1, <5>0, <6>1
          <6>3. tag[q] = a.data[i + q - 1]
            BY <3>2, <6>2
          <6>4. i + q - 1 \in 1..Len(a.data)
            BY <6>2
          <6>5. d[k] = tag[q]
            BY <4>5, <6>1
          <6> QED
            BY <6>1, <6>3, <6>4, <6>5
        <5>2. CASE a.data \in Seq(A)
          BY <5>1, <5>2
        <5>3. CASE i = 1 /\ \E l \in 2..Len(a.data) : Behindhand(A, a.data, l)
          <6>1. PICK l \in 2..Len(a.data) : Behindhand(A, a.data, l)
            BY <5>3
          <6>2. j \in 1..Len(a.data) /\ a.data[j] = ">"
            <7>1. j \in 1..(Len(a.data) - i + 1) /\ i + j - 1 = j
              BY <3>2, <3>5, <3>7, <5>3
            <7> QED
              BY <3>2, <3>5, <3>7, <5>3, <7>1
          <6>3. j > l
            BY <6>1, <6>2 DEF Behindhand
          <6>4. i + (j + k) - 1 \in (l + 1)..Len(a.data)
            BY <1>1, <5>0, <5>1, <5>3, <6>3
          <6> QED
            BY <5>1, <6>1, <6>4 DEF Behindhand
        <5> QED
          BY <2>2, <5>2, <5>3
      <4>7. d \in Seq(A)
        BY <4>5, <4>6
      <4>8. r.p.part = <<>> /\ r.data = d /\ r.out = a.out \o Before(a.data, i)
        BY <1>0, <1>1, <4>1, <4>3 DEF ParserOf
      <4>9. r.out \in Seq(A) /\ Mixed(A, r.p.in, r.data)
        BY Zenon, <3>4, <4>7, <4>8 DEF Mixed
      <4> QED
        BY <1>2, <1>3, <4>8, <4>9, TameOn
    <3> QED
      BY <3>6, <3>7
  <2> QED
    BY <2>3, <2>4
<1>5. CASE a.p.in
  <2>1. /\ i \in Nat /\ (i # 0 => TagAt(a.data, i, "/drop>"))
    BY <1>1, <1>5, IndexFacts DEF DropEnd
  <2> HIDE DEF i
  <2>a. a.data \in Seq(A)
    BY <1>0, <1>5 DEF Mixed
  <2>2. CASE i = 0
    <3>1. r = [p |-> [a.p EXCEPT !.part = Carry(a.data, DropEnd)],
                              data |-> <<>>, out |-> a.out, calls |-> a.calls]
      BY <1>0, <1>1, <1>2, <1>5, <2>2, DropRoundIs DEF i
    <3>2. Carry(a.data, DropEnd) \in {<<>>, <<"<">>}
      BY <1>1, CleanFacts DEF DropEnd
    <3>3. r.p.part \in {<<>>, <<"<">>} /\ r.data = <<>> /\ r.out = a.out
      BY <1>1, <3>1, <3>2 DEF ParserOf
    <3>4. Tame(r.p)
      BY <3>3 DEF Tame
    <3> QED
      BY <1>0, <1>2, <1>3, <3>3, <3>4, TameDone
  <2>3. CASE i # 0
    <3>1. r = [p |-> [a.p EXCEPT !.in = FALSE],
                              data |-> After(a.data, i, DropEnd), out |-> a.out, calls |-> a.calls]
      BY <1>0, <1>1, <1>2, <1>5, <2>3, DropRoundIs DEF i
    <3>2. After(a.data, i, DropEnd) \in Seq(A)
      BY <2>1, <2>3, <2>a, CutFacts DEF DropEnd
    <3>3. r.p.part = <<>> /\ r.data \in Seq(A) /\ r.out = a.out
      BY <1>0, <1>1, <3>1, <3>2 DEF ParserOf
    <3>4. r.out \in Seq(A) /\ Mixed(A, r.p.in, r.data)
      BY Zenon, <1>0, <3>3 DEF Mixed
    <3> QED
      BY <1>2, <1>3, <3>3, <3>4, TameOn
  <2> QED
    BY <2>2, <2>3
<1> QED
  BY <1>1, <1>4, <1>5

(* The filter lets only symbols of the chunk through, whatever it holds. *)
LEMMA DropTame ==
  ASSUME NEW A, "<" \in A, A \subseteq Content, NEW p \in ParserOf(Content), Tame(p),
         NEW chunk \in Seq(A)
  PROVE  /\ PushDrop(p, chunk).p \in ParserOf(Content) /\ Tame(PushDrop(p, chunk).p)
         /\ PushDrop(p, chunk).out \in Seq(A)
<1> DEFINE S == TameAcc(A)
           R == [a \in S |-> IF a.data = <<>> THEN a ELSE DropRound(a)]
<1>1. \A a \in S : R[a] = IF a.data = <<>> THEN a ELSE DropRound(a)
  OBVIOUS
<1>2. Rounds(S, R)
  <2>1. \A a \in S : a.data \in Seq(Symbols)
    BY DEF TameAcc, AccOf, Content
  <2>2. \A a \in S : R[a] \in S
    BY <1>1, TameRound
  <2>3. \A a \in S : a.data # <<>> => Len(R[a].data) < Len(a.data)
    BY <1>1, TameRound
  <2>4. R \in [S -> S]
    BY <2>2
  <2> HIDE DEF S, R
  <2> QED
    BY <2>1, <2>3, <2>4 DEF Rounds
<1>3. Began(p, chunk) \in S
  BY TameBegins
<1> HIDE DEF S, R
<1>4. PushDrop(p, chunk) \in S /\ PushDrop(p, chunk).data = <<>>
  BY <1>1, <1>2, <1>3, DropLoop
<1> QED
  BY <1>4 DEF S, TameAcc, AccOf

-----------------------------------------------------------------------------
(* Labels.  What was said as content stays content on its way to the       *)
(* response, and what was said as reasoning stays reasoning.               *)

Parts == {p \in Part : p.text \in Seq(IF p.think THEN Reasoning ELSE Content)}
Said == {e \in Events : e.content \in Seq(Content) /\ e.reason \in Seq(Reasoning)}
TameFilters == {f \in FilterOf(Content) : Tame(f.drop)}

FlowLabels ==
  /\ src.parts \in Seq(Parts) /\ ch \in Seq(Said) /\ out \in Seq(Said) /\ flow.queue \in Seq(Said)
  /\ flow.filter \in TameFilters /\ flow.tool \in ParserOf(Content)

(* Every tag is content, and the tags the parsers hold back are reasoning too. *)
LEMMA TagsAre ==
  /\ Reasoning \subseteq Content /\ Content \subseteq Symbols
  /\ {"<", "line"} \subseteq Reasoning /\ {"<", "line"} \subseteq Content
  /\ {"<", "tool>", "/tool>"} \subseteq Content /\ "call" \in Content /\ {"call", "ht", "tps://", "grok"} \subseteq Content
BY DEF Reasoning, Content, Outside, Symbols

(* A parser over fewer symbols is one over more. *)
LEMMA ParserMono ==
  ASSUME NEW A, NEW B, A \subseteq B
  PROVE  ParserOf(A) \subseteq ParserOf(B)
<1>1. Seq(A) \subseteq Seq(B)
  OBVIOUS
<1> QED
  BY <1>1 DEF ParserOf

(* The ends say nothing. *)
LEMMA EndSaid == ErrorEvent \in Said /\ FinishEvent \in Said
<1>1. <<>> \in Seq(Content) /\ <<>> \in Seq(Reasoning)
  OBVIOUS
<1>2. ErrorEvent.content = <<>> /\ ErrorEvent.reason = <<>> /\ FinishEvent.content = <<>> /\ FinishEvent.reason = <<>>
  BY DEF ErrorEvent, FinishEvent, Event
<1> QED
  BY <1>1, <1>2, EndEvents DEF Said

(* What a parser gave back late is content. *)
LEMMA LateSaid ==
  ASSUME NEW t, t.out \in Seq(Content), t.calls \in Seq(Calls)
  PROVE  IfWorth(Late(t)) \in Seq(Said)
<1>1. t.out \in Seq(Symbols) /\ <<>> \in Seq(Reasoning)
  BY TagsAre
<1>2. Late(t) \in Events
  BY <1>1, LateIs
<1>3. Late(t).content = t.out /\ Late(t).reason = <<>>
  BY DEF Late, Event
<1>4. Late(t) \in Said
  BY <1>1, <1>2, <1>3 DEF Said
<1> QED
  BY <1>4 DEF IfWorth

(* A labelled answer is a sequence of labelled parts. *)
LEMMA LabelledParts ==
  ASSUME Labelled, NEW a \in Answers
  PROVE  a \in Seq(Parts)
<1>1. a \in Seq(Part)
  BY AnswerAssumption DEF Part
<1>2. ASSUME NEW i \in 1..Len(a) PROVE a[i] \in Parts
  <2>1. PICK p \in Part : p = a[i]
    BY <1>1, <1>2
  <2>2. Range(p.text) \cap
      (IF p.think THEN {"x", "![", "img)", "[think]", "[/think]"} ELSE {"[think]", "[/think]"})
      = {}
    <3>1. i \in DOMAIN a
      BY <1>1, <1>2
    <3>2. Range(a[i].text) \cap
      (IF a[i].think THEN {"x", "![", "img)", "[think]", "[/think]"} ELSE {"[think]", "[/think]"})
      = {}
      BY Zenon, <3>1 DEF Labelled
    <3> QED
      BY <2>1, <3>2
  <2>3. p.text \in Seq(Symbols) /\ p.think \in BOOLEAN
    BY DEF Part
  <2>4. \A j \in 1..Len(p.text) : p.text[j] \in Symbols /\ p.text[j] \in Range(p.text)
    BY <2>3 DEF Range
  <2>5. \A j \in 1..Len(p.text) : p.text[j] \in IF p.think THEN Reasoning ELSE Content
    BY <2>2, <2>4 DEF Reasoning, Content, Outside
  <2>6. p.text \in Seq(IF p.think THEN Reasoning ELSE Content)
    <3>1. PICK X : X = IF p.think THEN Reasoning ELSE Content
      OBVIOUS
    <3>2. p.text \in Seq(X)
      BY <2>3, <2>5, <3>1
    <3> QED
      BY <3>1, <3>2
  <2> QED
    BY <2>1, <2>6 DEF Parts
<1> QED
  BY <1>1, <1>2

(* The card filter gives c, and the tag filter d of what it gives. *)
Passes(f, text, c, d) ==
  /\ c = IF "card" \in Filters THEN PushCard(f.card, text) ELSE [p |-> f.card, out |-> text]
  /\ d = IF "drop" \in Filters THEN PushDrop(f.drop, c.out) ELSE [p |-> f.drop, out |-> c.out]
  /\ Filtered(f, text) = [f |-> [card |-> c.p, drop |-> d.p], out |-> d.out]

(* The two filters give some two results. *)
LEMMA PassesIs ==
  ASSUME NEW f, NEW text
  PROVE  \E c, d : Passes(f, text, c, d)
<1>1. PICK c : c = IF "card" \in Filters THEN PushCard(f.card, text) ELSE [p |-> f.card, out |-> text]
  OBVIOUS
<1>2. PICK d : d = IF "drop" \in Filters THEN PushDrop(f.drop, c.out) ELSE [p |-> f.drop, out |-> c.out]
  OBVIOUS
<1>3. Filtered(f, text) = [f |-> [card |-> c.p, drop |-> d.p], out |-> d.out]
  BY <1>1, <1>2, FilteredIs
<1> QED
  BY <1>1, <1>2, <1>3 DEF Passes

(* The filters let only symbols of the text through. *)
LEMMA FilteredTame ==
  ASSUME NEW A, {"<", "line"} \subseteq A, A \subseteq Content, NEW f \in TameFilters, NEW text \in Seq(A)
  PROVE  Filtered(f, text).f \in TameFilters /\ Filtered(f, text).out \in Seq(A)
<1>0. A \subseteq Symbols
  BY TagsAre
<1>1. f.card \in CardOf /\ f.drop \in ParserOf(Content) /\ Tame(f.drop)
  BY DEF TameFilters, FilterOf
<1>a. \E c, d : Passes(f, text, c, d)
  BY PassesIs
<1>b. PICK c : \E d : Passes(f, text, c, d)
  BY <1>a
<1>c. PICK d : Passes(f, text, c, d)
  BY <1>b
<1>2. c.p \in CardOf /\ c.out \in Seq(A)
  <2>1. CASE "card" \in Filters
    <3>1. PushCard(f.card, text) \in CardAcc(A)
      BY <1>0, <1>1, CardTypes
    <3> QED
      BY <1>c, <2>1, <3>1 DEF CardAcc, Passes
  <2> QED
    BY <1>1, <1>c, <2>1 DEF Passes
<1>3. d.p \in ParserOf(Content) /\ Tame(d.p) /\ d.out \in Seq(A)
  <2>1. CASE "drop" \in Filters
    <3>1. PICK q \in Seq(A) : q = c.out
      BY <1>2
    <3>2. /\ PushDrop(f.drop, q).p \in ParserOf(Content) /\ Tame(PushDrop(f.drop, q).p)
          /\ PushDrop(f.drop, q).out \in Seq(A)
      BY <1>1, DropTame
    <3>3. d = PushDrop(f.drop, q)
      BY <1>c, <2>1, <3>1 DEF Passes
    <3> QED
      BY <3>2, <3>3
  <2>2. CASE "drop" \notin Filters
    BY <1>1, <1>2, <1>c, <2>2 DEF Passes
  <2> QED
    BY <2>1, <2>2
<1>4. Filtered(f, text).f = [card |-> c.p, drop |-> d.p] /\ Filtered(f, text).out = d.out
  BY <1>c DEF Passes
<1> QED
  BY <1>2, <1>3, <1>4 DEF TameFilters, FilterOf

(* A text that may be empty. *)
LEMMA StageTame ==
  ASSUME NEW A, {"<", "line"} \subseteq A, A \subseteq Content, NEW f \in TameFilters, NEW text \in Seq(A)
  PROVE  Stage(f, text).f \in TameFilters /\ Stage(f, text).out \in Seq(A)
<1>1. <<>> \in Seq(A)
  OBVIOUS
<1>2. Filtered(f, text).f \in TameFilters /\ Filtered(f, text).out \in Seq(A)
  BY FilteredTame
<1> QED
  BY <1>1, <1>2 DEF Stage

(* The tool-call parser gives content back as content. *)
LEMMA FoundContent ==
  ASSUME NEW p \in ParserOf(Content), NEW text \in Seq(Content)
  PROVE  Found(p, text).p \in ParserOf(Content) /\ Found(p, text).out \in Seq(Content)
<1>1. <<>> \in Seq(Content)
  OBVIOUS
<1>2. PushTool(p, text) \in AccOf(Content)
  BY TagsAre, ToolTypes
<1> QED
  BY <1>1, <1>2 DEF Found, AccOf

(* What has been said stays said as it was through the flow. *)
LEMMA ConsumeSaid ==
  ASSUME NEW filter \in TameFilters, NEW tool \in ParserOf(Content), NEW e \in Said
  PROVE  /\ Consume(filter, tool, e).filter \in TameFilters
         /\ Consume(filter, tool, e).tool \in ParserOf(Content)
         /\ Consume(filter, tool, e).events \in Seq(Said)
<1> DEFINE c == Stage(filter, e.content)
           r == Stage(c.f, e.reason)
           t == Found(tool, c.out)
           ev == Given(e, t, r)
<1>1. e.content \in Seq(Content) /\ e.reason \in Seq(Reasoning) /\ e \in Events
  BY DEF Said
<1>2. c.f \in TameFilters /\ c.out \in Seq(Content)
  BY <1>1, TagsAre, StageTame
<1> HIDE DEF c
<1>3. r.f \in TameFilters /\ r.out \in Seq(Reasoning)
  <2>1. Reasoning \subseteq Content /\ {"<", "line"} \subseteq Reasoning
    BY TagsAre
  <2>2. PICK f \in TameFilters : f = c.f
    BY <1>2
  <2> QED
    BY <1>1, <2>1, <2>2, StageTame
<1>4. t.p \in ParserOf(Content) /\ t.out \in Seq(Content)
  BY <1>2, FoundContent
<1> HIDE DEF r, t
<1>5. Consume(filter, tool, e) =
           [filter |-> r.f, tool |-> t.p, events |-> IfWorth(ev)]
  BY ConsumeIs DEF c, r, t, ev
<1>6. filter \in FilterOf(Symbols) /\ tool \in ParserOf(Symbols)
  <2>1. Content \subseteq Symbols
    BY TagsAre
  <2>2. ParserOf(Content) \subseteq ParserOf(Symbols)
    BY <2>1, ParserMono
  <2>3. filter \in FilterOf(Content)
    BY DEF TameFilters
  <2> QED
    BY <2>2, <2>3 DEF FilterOf
<1>7. Given(e, t, r).content = t.out /\ Given(e, t, r).reason = r.out
  BY <1>1 DEF Given, Events
<1>8. ASSUME Worth(ev) PROVE ev \in Events
  <2>1. Consume(filter, tool, e).events \in Seq(Events)
    BY <1>1, <1>6, ConsumeTypes
  <2>2. Consume(filter, tool, e).events = <<ev>>
    BY <1>5, <1>8 DEF IfWorth
  <2>3. <<ev>> \in Seq(Events)
    BY <2>1, <2>2
  <2> HIDE DEF ev
  <2> QED
    BY <2>3
<1>9. IfWorth(ev) \in Seq(Said)
  <2>1. CASE Worth(ev)
    <3>1. ev \in Said
      BY <1>3, <1>4, <1>7, <1>8, <2>1 DEF Said
    <3> HIDE DEF ev
    <3> QED
      BY <2>1, <3>1 DEF IfWorth
  <2>2. CASE ~Worth(ev)
    <3> HIDE DEF ev
    <3> QED
      BY <2>2 DEF IfWorth
  <2> QED
    BY <2>1, <2>2
<1> QED
  BY <1>3, <1>4, <1>5, <1>9

(* So does what the parsers give back late. *)
LEMMA FlushedSaid ==
  ASSUME NEW filter \in TameFilters, NEW tool \in ParserOf(Content)
  PROVE  Flushed(filter, tool) \in Seq(Said)
<1>1. PICK t : t = PushTool(tool, FlushFilter(filter))
  OBVIOUS
<1>2. PICK u : u = FlushTool(t.p)
  OBVIOUS
<1>4. t \in AccOf(Content)
  <2>0. filter \in FilterOf(Content)
    BY DEF TameFilters
  <2>1. FlushFilter(filter) \in Seq(Content)
    BY <2>0, TagsAre, FlushFilterTypes
  <2> QED
    BY <1>1, <2>1, TagsAre, ToolTypes
<1>5. t.p \in ParserOf(Content) /\ t.out \in Seq(Content) /\ t.calls \in Seq(Calls)
  BY <1>4 DEF AccOf
<1>6. u.out \in Seq(Content) /\ u.calls \in Seq(Calls)
  BY <1>2, <1>5, TagsAre, FlushToolTypes
<1>7. PICK a \in Seq(Said), b \in Seq(Said) : a = IfWorth(Late(t)) /\ b = IfWorth(Late(u))
  BY <1>5, <1>6, LateSaid
<1>8. FinishEvent \in Said
  BY EndSaid
<1>9. Flushed(filter, tool) = a \o b \o <<FinishEvent>>
  BY Zenon, <1>1, <1>2, <1>7, FlushedIs
<1>10. a \o b \o <<FinishEvent>> \in Seq(Said)
  BY <1>8
<1> QED
  BY <1>9, <1>10

(* A piece of a labelled part, and the rest of it. *)
LEMMA PartSaid ==
  ASSUME NEW part \in Parts, NEW n \in 1..Len(part.text), NEW said, NEW rest,
         said = SubSeq(part.text, 1, n), rest = SubSeq(part.text, n + 1, Len(part.text))
  PROVE  /\ (IF part.think THEN Event(<<>>, said, <<>>, TRUE) ELSE Event(said, <<>>, <<>>, TRUE)) \in Said
         /\ rest # <<>> => [part EXCEPT !.text = rest] \in Parts
<1>1. PICK X : X = IF part.think THEN Reasoning ELSE Content
  BY Zenon
<1>2. PICK text \in Seq(X) : text = part.text
  BY <1>1 DEF Parts
<1>3. said \in Seq(X) /\ rest \in Seq(X)
  <2>1. n \in 0..Len(text) /\ n + 1 \in 1..(Len(text) + 1)
    BY <1>2
  <2> QED
    BY <1>2, <2>1, Prefix, Rest
<1>4. X \subseteq Symbols
  BY <1>1, TagsAre
<1>5. said \in Seq(Symbols) /\ rest \in Seq(Symbols)
  BY <1>3, <1>4
<1>6. <<>> \in Seq(Symbols) /\ <<>> \in Seq(Calls) /\ <<>> \in Seq(Content) /\ <<>> \in Seq(Reasoning)
  OBVIOUS
<1>7. (IF part.think THEN Event(<<>>, said, <<>>, TRUE) ELSE Event(said, <<>>, <<>>, TRUE)) \in Said
  <2>1. CASE part.think
    <3>1. Event(<<>>, said, <<>>, TRUE) \in Events
      BY <1>5, <1>6 DEF Event, Events, Kinds
    <3>2. Event(<<>>, said, <<>>, TRUE).content = <<>> /\ Event(<<>>, said, <<>>, TRUE).reason = said
      BY DEF Event
    <3>3. said \in Seq(Reasoning)
      BY <1>1, <1>3, <2>1
    <3> QED
      BY <1>6, <2>1, <3>1, <3>2, <3>3 DEF Said
  <2>2. CASE ~part.think
    <3>1. Event(said, <<>>, <<>>, TRUE) \in Events
      BY <1>5, <1>6 DEF Event, Events, Kinds
    <3>2. Event(said, <<>>, <<>>, TRUE).content = said /\ Event(said, <<>>, <<>>, TRUE).reason = <<>>
      BY DEF Event
    <3>3. said \in Seq(Content)
      BY <1>1, <1>3, <2>2
    <3> QED
      BY <1>6, <2>2, <3>1, <3>2, <3>3 DEF Said
  <2> QED
    BY <2>1, <2>2
<1>8. ASSUME rest # <<>> PROVE [part EXCEPT !.text = rest] \in Parts
  <2>1. part \in Part
    BY DEF Parts
  <2>2. PICK p : p = [part EXCEPT !.text = rest]
    OBVIOUS
  <2>3. p \in Part /\ p.text = rest /\ p.think = part.think
    BY <1>5, <1>8, <2>1, <2>2 DEF Part
  <2>4. p.text \in Seq(IF p.think THEN Reasoning ELSE Content)
    BY <1>1, <1>3, <2>3
  <2> QED
    BY <2>2, <2>3, <2>4 DEF Parts
<1> QED
  BY <1>7, <1>8

(* The reader labels what it gives. *)
LEMMA ReaderLabels ==
  ASSUME PipeTypes, FlowLabels, Produce \/ Eof \/ Break
  PROVE  src'.parts \in Seq(Parts) /\ ch' \in Seq(Said)
<1>0. src.parts \in Seq(Parts) /\ ch \in Seq(Said) /\ src \in [pc : {"run", "closed"}, parts : Seq(Part)]
  BY DEF FlowLabels, PipeTypes
<1>1. CASE Produce
  <2>0. PICK n \in 1..Len(Head(src.parts).text) :
          LET said == SubSeq(Head(src.parts).text, 1, n)
              rest == SubSeq(Head(src.parts).text, n + 1, Len(Head(src.parts).text))
          IN /\ ch' = Append(ch, IF Head(src.parts).think THEN Event(<<>>, said, <<>>, TRUE)
                                 ELSE Event(said, <<>>, <<>>, TRUE))
             /\ src' = [src EXCEPT !.parts =
                          IF rest = <<>> THEN Tail(@)
                          ELSE <<[Head(src.parts) EXCEPT !.text = rest]>> \o Tail(@)]
    BY <1>1 DEF Produce
  <2>1. PICK said, rest :
          /\ said = SubSeq(Head(src.parts).text, 1, n)
          /\ rest = SubSeq(Head(src.parts).text, n + 1, Len(Head(src.parts).text))
          /\ ch' = Append(ch, IF Head(src.parts).think THEN Event(<<>>, said, <<>>, TRUE)
                              ELSE Event(said, <<>>, <<>>, TRUE))
          /\ src' = [src EXCEPT !.parts =
                       IF rest = <<>> THEN Tail(@)
                       ELSE <<[Head(src.parts) EXCEPT !.text = rest]>> \o Tail(@)]
    BY <2>0
  <2>2. PICK part \in Parts, tail \in Seq(Parts) : part = Head(src.parts) /\ tail = Tail(src.parts)
    BY <1>0, <1>1, HeadTail DEF Produce
  <2>3. /\ (IF part.think THEN Event(<<>>, said, <<>>, TRUE) ELSE Event(said, <<>>, <<>>, TRUE)) \in Said
        /\ rest # <<>> => [part EXCEPT !.text = rest] \in Parts
    <3>1. n \in 1..Len(part.text)
      BY <2>2
    <3>2. said = SubSeq(part.text, 1, n) /\ rest = SubSeq(part.text, n + 1, Len(part.text))
      BY <2>1, <2>2
    <3>3. \A s, r : s = SubSeq(part.text, 1, n) /\ r = SubSeq(part.text, n + 1, Len(part.text)) =>
             /\ (IF part.think THEN Event(<<>>, s, <<>>, TRUE) ELSE Event(s, <<>>, <<>>, TRUE)) \in Said
             /\ r # <<>> => [part EXCEPT !.text = r] \in Parts
      BY Zenon, <3>1, PartSaid
    <3> QED
      BY Zenon, <3>2, <3>3
  <2>4. PICK e \in Said : ch' = Append(ch, e)
    BY <2>1, <2>2, <2>3
  <2>5. PICK parts \in Seq(Parts) : src' = [src EXCEPT !.parts = parts]
    <3>1. CASE rest = <<>>
      BY <2>1, <2>2, <3>1
    <3>2. CASE rest # <<>>
      <4>1. PICK p \in Parts : p = [part EXCEPT !.text = rest]
        BY <2>3, <3>2
      <4>2. <<p>> \o tail \in Seq(Parts)
        OBVIOUS
      <4> QED
        BY <2>1, <2>2, <3>2, <4>1, <4>2
    <3> QED
      BY <3>1, <3>2
  <2>6. ch' \in Seq(Said)
    BY <1>0, <2>4
  <2>7. src'.parts = parts
    BY <1>0, <2>5
  <2> QED
    BY <2>6, <2>7
<1>2. CASE Eof
  BY <1>0, <1>2 DEF Eof
<1>3. CASE Break
  <2>1. <<>> \in Seq(Parts)
    OBVIOUS
  <2>2. PICK e \in Said : ch' = Append(ch, e)
    BY <1>3, EndSaid DEF Break
  <2>3. ch' \in Seq(Said)
    BY <1>0, <2>2
  <2> QED
    BY <1>0, <1>3, <2>1, <2>3 DEF Break
<1> QED
  BY <1>1, <1>2, <1>3

(* A fresh filter holds nothing. *)
LEMMA FreshTame == FreshFilter \in TameFilters /\ Fresh \in ParserOf(Content)
<1>1. Fresh \in ParserOf(Content) /\ Fresh \in CardOf
  BY FreshIs
<1>2. Tame(Fresh)
  BY DEF Fresh, Tame
<1>3. FreshFilter = [card |-> Fresh, drop |-> Fresh]
  BY DEF FreshFilter
<1> QED
  BY <1>1, <1>2, <1>3 DEF TameFilters, FilterOf

(* The flow keeps the labels. *)
LEMMA ConsumerLabels ==
  ASSUME Labelled, PipeTypes, FlowLabels, Consumer
  PROVE  FlowLabels'
<1>0. /\ src.parts \in Seq(Parts) /\ ch \in Seq(Said) /\ out \in Seq(Said) /\ flow.queue \in Seq(Said)
      /\ flow.filter \in TameFilters /\ flow.tool \in ParserOf(Content) /\ flow \in Flows
      /\ answer \in Answers
  BY DEF PipeTypes, FlowLabels
<1>2. CASE Receive
  <2>1. PICK c : /\ c = Consume(flow.filter, flow.tool, Head(ch))
                 /\ flow' = [flow EXCEPT !.filter = c.filter, !.tool = c.tool, !.queue = c.events,
                             !.pc = IF c.events = <<>> THEN "receive" ELSE "send"]
    BY <1>2 DEF Receive
  <2>2. ch # <<>> /\ ch' = Tail(ch) /\ src' = src /\ out' = out
    BY <1>2 DEF Receive
  <2>3. Head(ch) \in Said /\ Tail(ch) \in Seq(Said)
    BY <1>0, <2>2, HeadTail
  <2>4. c.filter \in TameFilters /\ c.tool \in ParserOf(Content) /\ c.events \in Seq(Said)
    BY <1>0, <2>1, <2>3, ConsumeSaid
  <2>5. flow'.filter = c.filter /\ flow'.tool = c.tool /\ flow'.queue = c.events
    BY <1>0, <2>1 DEF Flows
  <2> QED
    BY <1>0, <2>2, <2>3, <2>4, <2>5 DEF FlowLabels
<1>3. CASE ReceiveClosed
  <2>1. PICK q \in Seq(Said) : flow' = [flow EXCEPT !.pc = "end", !.queue = q]
    BY <1>0, <1>3, FlushedSaid DEF ReceiveClosed
  <2>2. flow'.filter = flow.filter /\ flow'.tool = flow.tool /\ flow'.queue = q
    BY <1>0, <2>1 DEF Flows
  <2>3. src' = src /\ ch' = ch /\ out' = out
    BY <1>3 DEF ReceiveClosed
  <2> QED
    BY <1>0, <2>2, <2>3 DEF FlowLabels
<1>4. <<ErrorEvent>> \in Seq(Said) /\ <<>> \in Seq(Said)
  BY EndSaid
<1>5. ASSUME GiveUp PROVE flow'.filter = flow.filter /\ flow'.tool = flow.tool /\ flow'.queue \in Seq(Said)
  BY <1>0, <1>4, <1>5 DEF GiveUp, Flows
<1>6. CASE ReceiveError
  <2>1. ch' = <<>> /\ out' = out
    BY <1>6 DEF ReceiveError
  <2>3. CASE Retry
    <3>1. flow'.filter = FreshFilter /\ flow'.tool = Fresh /\ flow'.queue = flow.queue
      BY <1>0, <2>3 DEF Retry, Flows
    <3>2. src'.parts = answer
      BY <2>3 DEF Retry
    <3>3. src'.parts \in Seq(Parts)
      BY <1>0, <3>2, LabelledParts
    <3> QED
      BY <1>0, <1>4, <2>1, <3>1, <3>3, FreshTame DEF FlowLabels
  <2>4. CASE GiveUp /\ UNCHANGED <<src, excused>>
    <3>1. src' = src
      BY <2>4
    <3> QED
      BY <1>0, <1>4, <1>5, <2>1, <2>4, <3>1 DEF FlowLabels
  <2> QED
    BY <1>6, <2>3, <2>4 DEF ReceiveError
<1>7. CASE ReceiveCancel
  <2>1. src' = src /\ ch' = ch /\ out' = out /\ GiveUp
    BY <1>7 DEF ReceiveCancel
  <2> QED
    BY <1>0, <1>5, <2>1 DEF FlowLabels
<1>8. CASE Send
  <2>1. flow.queue # <<>> /\ out' = Append(out, Head(flow.queue)) /\ src' = src /\ ch' = ch
    BY <1>8 DEF Send
  <2>2. PICK e \in Said, q \in Seq(Said) : e = Head(flow.queue) /\ q = Tail(flow.queue)
    BY <1>0, <2>1, HeadTail
  <2>3. out' \in Seq(Said)
    BY <1>0, <2>1, <2>2
  <2>4. flow'.filter = flow.filter /\ flow'.tool = flow.tool /\ flow'.queue = q
    BY <1>0, <1>8, <2>2 DEF Send, Flows
  <2> QED
    BY <1>0, <2>1, <2>3, <2>4 DEF FlowLabels
<1>9. CASE FlowEnds
  <2>1. flow'.filter = flow.filter /\ flow'.tool = flow.tool /\ flow'.queue = flow.queue
    BY <1>0, <1>9 DEF FlowEnds, Flows
  <2>2. src' = src /\ ch' = ch /\ out' = out
    BY <1>9 DEF FlowEnds
  <2> QED
    BY <1>0, <2>1, <2>2 DEF FlowLabels
<1> QED
  BY <1>2, <1>3, <1>6, <1>7, <1>8, <1>9 DEF Consumer

(* At the beginning. *)
LEMMA InitLabels == ASSUME Labelled, PipeInit PROVE FlowLabels
<1>1. <<>> \in Seq(Said)
  OBVIOUS
<1>2. answer \in Seq(Parts)
  BY LabelledParts DEF PipeInit
<1>3. src.parts = answer /\ ch = <<>> /\ out = <<>> /\ flow.queue = <<>>
      /\ flow.filter = FreshFilter /\ flow.tool = Fresh
  BY DEF PipeInit
<1> QED
  BY <1>1, <1>2, <1>3, FreshTame DEF FlowLabels

-----------------------------------------------------------------------------
(* The blocks of what the client got, and of what the gate still holds.    *)

(* What has been sent, and what the gate holds behind it. *)
Passing(text, gate, open) == \E n \in BOOLEAN : Walk(text, FALSE, n) /\ Walk(gate, n, open)

Marked ==
  /\ \E m \in BOOLEAN : Walk(got.text, FALSE, m)
  /\ Finished => Walk(got.text, FALSE, FALSE)
  /\ wr.pc = "read" => IF req.stream THEN Passing(got.text, wr.gate, wr.open)
                       ELSE Walk(got.text, FALSE, wr.open)

Labels == FlowLabels /\ wr.tool \in ParserOf(Content)
WriterMarks == wr'.tool \in ParserOf(Content) /\ Marked'

AdaptedWalks(a, open) ==
  /\ a.tool \in ParserOf(Content)
  /\ \E o \in BOOLEAN : Walk(a.texts[1], open, o) /\ Walk(a.texts[2], o, a.open)

(* The adapter's texts open and close blocks. *)
LEMMA AdaptWalks ==
  ASSUME req \in Requests, NEW tool \in ParserOf(Content), NEW open \in BOOLEAN,
         NEW e \in Said, NEW a, a = Adapt(tool, open, e)
  PROVE  AdaptedWalks(a, open)
<1>0. e.content \in Seq(Content) /\ e.reason \in Seq(Reasoning) /\ e.calls \in Seq(Calls) /\ req.think \in BOOLEAN
  BY AnswerAssumption DEF Said, Events
<1>1. PICK p : p = Spoken(tool, e.content)
  OBVIOUS
<1>2. p.p \in ParserOf(Content) /\ p.out \in Seq(Content)
  <2>1. PushTool(tool, e.content) \in AccOf(Content)
    BY <1>0, TagsAre, ToolTypes
  <2> QED
    BY <1>0, <1>1, <2>1 DEF Spoken, AccOf
<1>3. PICK r : r = HandleReasoning(req.think, open, e.reason)
  OBVIOUS
<1>4. r.open \in BOOLEAN /\ r.out \in Seq(Symbols) /\ Walk(r.out, open, r.open)
  BY <1>0, <1>3, WalkReasoning
<1>5. PICK t : t = HandleText(r.open, p.out)
  OBVIOUS
<1>6. t.open \in BOOLEAN /\ t.out \in Seq(Symbols) /\ Walk(t.out, r.open, t.open)
  BY <1>2, <1>4, <1>5, WalkText
<1>7. Named(e.calls) \in Seq(Content)
  <2>1. <<>> \in Seq(Content)
    OBVIOUS
  <2>2. {"<", "tool>", "/tool>", "call", "ht", "tps://", "grok"} \subseteq Content
    BY TagsAre
  <2>3. FlattenSeq([i \in DOMAIN e.calls |-> CallText(e.calls[i])]) \in Seq(Content)
    BY <1>0, <2>2, CallTextsAre
  <2> QED
    BY <2>1, <2>3 DEF Named
<1>8. PICK c : c = HandleText(t.open, Named(e.calls))
  OBVIOUS
<1>9. c.open \in BOOLEAN /\ c.out \in Seq(Symbols) /\ Walk(c.out, t.open, c.open)
  BY <1>6, <1>7, <1>8, WalkText
<1>10. Walk(t.out \o c.out, r.open, c.open)
  BY <1>4, <1>6, <1>9, WalkCat
<1>11. a.tool = p.p /\ a.open = c.open /\ a.texts[1] = r.out /\ a.texts[2] = t.out \o c.out
  <2>1. a = Adapted(open, e, p)
    BY <1>1, AdaptIs
  <2>2. PICK s : s = t.out \o c.out
    OBVIOUS
  <2>3. PICK l : l = IF req.tools THEN p.calls \o e.calls ELSE <<>>
    OBVIOUS
  <2>4. a = [tool |-> p.p, open |-> c.open, texts |-> <<r.out, s>>, calls |-> l]
    BY <1>3, <1>5, <1>8, <2>1, <2>2, <2>3 DEF Adapted
  <2>5. a.tool = p.p /\ a.open = c.open /\ a.texts = <<r.out, s>>
    BY <2>4
  <2>6. PICK q : q = r.out
    OBVIOUS
  <2>7. a.texts = <<q, s>>
    BY <2>5, <2>6
  <2>8. a.texts[1] = q /\ a.texts[2] = s
    BY <2>7
  <2> QED
    BY <2>2, <2>5, <2>6, <2>8
<1> QED
  BY <1>2, <1>4, <1>10, <1>11 DEF AdaptedWalks

(* A text through the gate. *)
LEMMA OneGate ==
  ASSUME NEW gate \in Seq(Symbols), NEW rw \in BOOLEAN, NEW works \in BOOLEAN,
         NEW x \in Seq(Symbols), NEW g, g = PushGate(gate, rw, works, x), g.ok,
         NEW text \in Seq(Symbols), NEW open \in BOOLEAN, NEW o \in BOOLEAN,
         Passing(text, gate, open), Walk(x, open, o)
  PROVE  Passing(text \o g.out, g.gate, o)
<1>0. g.out \in Seq(Symbols)
  BY PushGateFacts
<1>1. PICK m \in BOOLEAN : Walk(text, FALSE, m) /\ Walk(gate, m, open)
  BY DEF Passing
<1>2. PICK n \in BOOLEAN : Walk(g.out, m, n) /\ Walk(g.gate, n, o)
  BY <1>1, WalkGate
<1>3. Walk(text \o g.out, FALSE, n)
  BY <1>0, <1>1, <1>2, WalkCat
<1> QED
  BY <1>2, <1>3 DEF Passing

(* Nothing more is sent, or part of what the gate let through, and the response stops. *)
LEMMA StopMarks ==
  ASSUME wr'.pc # "read", wr'.tool \in ParserOf(Content), got'.end \notin {"stop", "tool_calls"},
         NEW m \in BOOLEAN, Walk(got'.text, FALSE, m)
  PROVE  WriterMarks
<1>1. ~Finished'
  BY DEF Finished
<1> QED
  BY <1>1 DEF WriterMarks, Marked

(* An event of a streaming response. *)
LEMMA StreamMarks ==
  ASSUME PipeTypes, Sent, Labels, Marked, wr.pc = "read", req.stream, req' = req,
         NEW e \in Said, StreamEvent(e)
  PROVE  WriterMarks
<1>0. /\ wr \in Writers /\ got \in Gots /\ req \in Requests /\ got.end = "none" /\ e \in Events
      /\ wr.tool \in ParserOf(Symbols) /\ wr.open \in BOOLEAN /\ wr.seen \in BOOLEAN /\ wr.gate \in Seq(Symbols)
      /\ got.text \in Seq(Symbols) /\ got.calls \in Seq(Calls) /\ wr.tool \in ParserOf(Content)
      /\ Passing(got.text, wr.gate, wr.open)
  BY DEF PipeTypes, Writers, Gots, Sent, Labels, Marked, Said
<1>a. PICK works \in BOOLEAN, a \in {Adapt(wr.tool, wr.open, e)}, rw \in {Rewriting(e)} :
         \E g1 \in {PushGate(wr.gate, rw, works, a.texts[1])} :
         \E g2 \in {PushGate(g1.gate, rw, works, a.texts[2])} :
          /\ wr' = [wr EXCEPT !.pc = IF g1.ok /\ g2.ok THEN "read" ELSE "gone", !.tool = a.tool,
                           !.open = a.open, !.gate = g2.gate, !.rw = rw,
                           !.seen = @ \/ a.calls # <<>>]
          /\ got' = IF g1.ok /\ g2.ok
                  THEN [got EXCEPT !.text = @ \o g1.out \o g2.out, !.calls = @ \o a.calls]
                  ELSE [got EXCEPT !.text = IF g1.ok THEN @ \o g1.out ELSE @, !.end = "error"]
  BY Zenon DEF StreamEvent
<1>b. PICK g1 \in {PushGate(wr.gate, rw, works, a.texts[1])} :
         \E g2 \in {PushGate(g1.gate, rw, works, a.texts[2])} :
          /\ wr' = [wr EXCEPT !.pc = IF g1.ok /\ g2.ok THEN "read" ELSE "gone", !.tool = a.tool,
                           !.open = a.open, !.gate = g2.gate, !.rw = rw,
                           !.seen = @ \/ a.calls # <<>>]
          /\ got' = IF g1.ok /\ g2.ok
                  THEN [got EXCEPT !.text = @ \o g1.out \o g2.out, !.calls = @ \o a.calls]
                  ELSE [got EXCEPT !.text = IF g1.ok THEN @ \o g1.out ELSE @, !.end = "error"]
  BY Zenon, <1>a
<1>c. PICK g2 \in {PushGate(g1.gate, rw, works, a.texts[2])} :
          /\ wr' = [wr EXCEPT !.pc = IF g1.ok /\ g2.ok THEN "read" ELSE "gone", !.tool = a.tool,
                           !.open = a.open, !.gate = g2.gate, !.rw = rw,
                           !.seen = @ \/ a.calls # <<>>]
          /\ got' = IF g1.ok /\ g2.ok
                  THEN [got EXCEPT !.text = @ \o g1.out \o g2.out, !.calls = @ \o a.calls]
                  ELSE [got EXCEPT !.text = IF g1.ok THEN @ \o g1.out ELSE @, !.end = "error"]
  BY Zenon, <1>b
<1>1. /\ a = Adapt(wr.tool, wr.open, e) /\ rw = Rewriting(e)
      /\ g1 = PushGate(wr.gate, rw, works, a.texts[1])
      /\ g2 = PushGate(g1.gate, rw, works, a.texts[2])
  OBVIOUS
<1>2. rw \in BOOLEAN
  BY <1>1 DEF Rewriting
<1>3. /\ a.open \in BOOLEAN
      /\ a.texts[1] \in Seq(Symbols) /\ a.texts[2] \in Seq(Symbols)
  BY <1>0, <1>1, AdaptTypes
<1>4. a.tool \in ParserOf(Content)
      /\ \E o \in BOOLEAN : Walk(a.texts[1], wr.open, o) /\ Walk(a.texts[2], o, a.open)
  <2>1. PICK t \in ParserOf(Content), q \in BOOLEAN : t = wr.tool /\ q = wr.open
    BY <1>0
  <2>2. a = Adapt(t, q, e)
    BY <1>1, <2>1
  <2>3. AdaptedWalks(a, q)
    BY <1>0, <2>2, AdaptWalks
  <2> QED
    BY <2>1, <2>3 DEF AdaptedWalks
<1>5. PICK o \in BOOLEAN : Walk(a.texts[1], wr.open, o) /\ Walk(a.texts[2], o, a.open)
  BY <1>4
<1>6. g1.out \in Seq(Symbols) /\ g1.gate \in Seq(Symbols)
  BY <1>0, <1>1, <1>2, <1>3, PushGateFacts
<1>7. PICK t1 \in Seq(Symbols) : t1 = got.text \o g1.out
  BY <1>0, <1>6, CatSeq
<1>8. ASSUME g1.ok PROVE Passing(t1, g1.gate, o)
  <2>1. PICK x \in Seq(Symbols) : x = a.texts[1]
    BY <1>3
  <2>2. g1 = PushGate(wr.gate, rw, works, x) /\ Walk(x, wr.open, o)
    BY <1>1, <1>5, <2>1
  <2>3. Passing(got.text \o g1.out, g1.gate, o)
    BY <1>0, <1>2, <1>8, <2>2, OneGate
  <2> QED
    BY <1>7, <2>3
<1>9. ASSUME g1.ok, g2.ok PROVE Passing(t1 \o g2.out, g2.gate, a.open)
  <2>0. PICK g : g = g2
    OBVIOUS
  <2>1. PICK x \in Seq(Symbols), h \in Seq(Symbols), c \in BOOLEAN :
          x = a.texts[2] /\ h = g1.gate /\ c = a.open
    BY <1>3, <1>6
  <2>2. g = PushGate(h, rw, works, x) /\ g.ok /\ Walk(x, o, c) /\ Passing(t1, h, o)
    BY <1>1, <1>5, <1>8, <1>9, <2>0, <2>1
  <2>3. Passing(t1 \o g.out, g.gate, c)
    BY <1>2, <2>2, OneGate
  <2> QED
    BY <2>0, <2>1, <2>3
<1>10. wr'.tool = a.tool /\ wr'.open = a.open /\ wr'.gate = g2.gate
       /\ wr'.pc = IF g1.ok /\ g2.ok THEN "read" ELSE "gone"
  BY <1>0, <1>c DEF Writers
<1>11. CASE g1.ok /\ g2.ok
  <2>1. got'.text = t1 \o g2.out /\ got'.end = "none"
    BY <1>0, <1>c, <1>7, <1>11 DEF Gots
  <2>2. Passing(got'.text, wr'.gate, wr'.open)
    BY <1>9, <1>10, <1>11, <2>1
  <2>3. \E m \in BOOLEAN : Walk(got'.text, FALSE, m)
    BY <2>2 DEF Passing
  <2>4. ~Finished'
    BY <2>1 DEF Finished
  <2> QED
    BY <1>4, <1>10, <2>2, <2>3, <2>4 DEF WriterMarks, Marked
<1>12. CASE ~(g1.ok /\ g2.ok)
  <2>1. got'.text = (IF g1.ok THEN t1 ELSE got.text) /\ got'.end = "error"
    BY <1>0, <1>c, <1>7, <1>12 DEF Gots
  <2>2. PICK m \in BOOLEAN : Walk(got'.text, FALSE, m)
    <3>1. CASE g1.ok
      BY <1>8, <2>1, <3>1 DEF Passing
    <3>2. CASE ~g1.ok
      BY <2>1, <3>2 DEF Marked
    <3> QED
      BY <3>1, <3>2
  <2>3. wr'.pc # "read" /\ wr'.tool \in ParserOf(Content)
    BY <1>4, <1>10, <1>12
  <2> QED
    BY <2>1, <2>2, <2>3, StopMarks
<1> QED
  BY <1>11, <1>12

(* An event of a collected response. *)
LEMMA CollectMarks ==
  ASSUME PipeTypes, Sent, Labels, Marked, wr.pc = "read", req' = req, ~req.stream,
         NEW e \in Said, CollectEvent(e)
  PROVE  WriterMarks
<1>0. /\ wr \in Writers /\ got \in Gots /\ req \in Requests /\ got.end = "none" /\ e \in Events
      /\ wr.tool \in ParserOf(Symbols) /\ wr.open \in BOOLEAN /\ wr.tool \in ParserOf(Content)
      /\ got.text \in Seq(Symbols) /\ Walk(got.text, FALSE, wr.open)
  BY DEF PipeTypes, Writers, Gots, Sent, Labels, Marked, Said
<1>1. PICK a : /\ a = Adapt(wr.tool, wr.open, e)
               /\ wr' = [wr EXCEPT !.tool = a.tool, !.open = a.open, !.rw = Rewriting(e)]
               /\ got' = [got EXCEPT !.text = @ \o a.texts[1] \o a.texts[2], !.calls = @ \o a.calls]
  BY DEF CollectEvent
<1>2. /\ a.open \in BOOLEAN
      /\ a.texts[1] \in Seq(Symbols) /\ a.texts[2] \in Seq(Symbols)
  BY <1>0, <1>1, AdaptTypes
<1>3. a.tool \in ParserOf(Content)
      /\ \E o \in BOOLEAN : Walk(a.texts[1], wr.open, o) /\ Walk(a.texts[2], o, a.open)
  <2>1. AdaptedWalks(a, wr.open)
    BY <1>0, <1>1, AdaptWalks
  <2> QED
    BY <2>1 DEF AdaptedWalks
<1>4. PICK o \in BOOLEAN : Walk(a.texts[1], wr.open, o) /\ Walk(a.texts[2], o, a.open)
  BY <1>3
<1>5. PICK x \in Seq(Symbols), y \in Seq(Symbols), t \in Seq(Symbols) :
        x = a.texts[1] /\ y = a.texts[2] /\ t = got.text
  BY <1>0, <1>2
<1>6. PICK u \in Seq(Symbols) : u = t \o x
  BY CatSeq
<1>7. Walk(u, FALSE, o)
  BY <1>0, <1>4, <1>5, <1>6, WalkCat
<1>8. Walk(u \o y, FALSE, a.open)
  BY <1>4, <1>5, <1>7, WalkCat
<1>9. got'.text = u \o y /\ got'.end = "none"
  BY <1>0, <1>1, <1>5, <1>6 DEF Gots
<1>10. wr'.tool = a.tool /\ wr'.open = a.open
  BY <1>0, <1>1 DEF Writers
<1>11. ~Finished'
  BY <1>9 DEF Finished
<1>12. Walk(got'.text, FALSE, wr'.open) /\ wr'.open \in BOOLEAN
  BY <1>2, <1>8, <1>9, <1>10
<1> QED
  BY <1>3, <1>10, <1>11, <1>12 DEF WriterMarks, Marked

(* The end of a stream. *)
LEMMA FinishStreamMarks ==
  ASSUME PipeTypes, Sent, Labels, Marked, wr.pc = "read", req.stream, req' = req, FinishStream,
         wr' = [wr EXCEPT !.pc = "done"]
  PROVE  WriterMarks
<1>0. /\ wr \in Writers /\ got \in Gots /\ wr.rw \in BOOLEAN /\ wr.gate \in Seq(Symbols) /\ wr.open \in BOOLEAN
      /\ got.text \in Seq(Symbols) /\ Passing(got.text, wr.gate, wr.open) /\ wr.tool \in ParserOf(Content)
  BY DEF PipeTypes, Writers, Gots, Labels, Marked
<1>a. PICK works \in BOOLEAN : \E w :
        w = RewriteContent(wr.rw, works, wr.gate) /\
        got' = IF w.ok THEN [got EXCEPT !.text = @ \o w.out \o CloseThink(wr.open), !.end = Finish(wr.seen)]
              ELSE [got EXCEPT !.end = "error"]
  BY DEF FinishStream
<1>1. PICK w :
        w = RewriteContent(wr.rw, works, wr.gate) /\
        got' = IF w.ok THEN [got EXCEPT !.text = @ \o w.out \o CloseThink(wr.open), !.end = Finish(wr.seen)]
              ELSE [got EXCEPT !.end = "error"]
  BY <1>a
<1>2. wr'.pc = "done" /\ wr'.tool \in ParserOf(Content)
  BY <1>0 DEF Writers
<1>3. PICK m \in BOOLEAN : Walk(got.text, FALSE, m) /\ Walk(wr.gate, m, wr.open)
  BY <1>0 DEF Passing
<1>4. CASE w.ok
  <2>1. w.out \in Seq(Symbols)
    BY <1>0, <1>1, RewriteFacts
  <2>2. Walk(w.out, m, wr.open)
    BY <1>0, <1>1, <1>3, <1>4, WalkRewrite
  <2>3. PICK z \in Seq(Symbols) : z = CloseThink(wr.open) /\ Walk(z, wr.open, FALSE)
    BY <1>0, WalkClose
  <2>4. PICK u \in Seq(Symbols) : u = got.text \o w.out
    BY <1>0, <2>1, CatSeq
  <2>5. Walk(u, FALSE, wr.open)
    BY <1>0, <1>3, <2>1, <2>2, <2>4, WalkCat
  <2>6. Walk(u \o z, FALSE, FALSE)
    BY <2>3, <2>5, WalkCat
  <2>7. got'.text = u \o z
    BY <1>0, <1>1, <1>4, <2>3, <2>4 DEF Gots
  <2> QED
    BY <1>2, <2>6, <2>7 DEF WriterMarks, Marked
<1>5. CASE ~w.ok
  <2>1. got'.text = got.text /\ got'.end = "error"
    BY <1>0, <1>1, <1>5 DEF Gots
  <2> QED
    BY <1>2, <1>3, <2>1, StopMarks
<1> QED
  BY <1>4, <1>5

(* The end of a collected response. *)
LEMMA FinishCollectedMarks ==
  ASSUME PipeTypes, Sent, Labels, Marked, wr.pc = "read", ~req.stream, req' = req, FinishCollected,
         wr' = [wr EXCEPT !.pc = "done"]
  PROVE  WriterMarks
<1>0. /\ wr \in Writers /\ got \in Gots /\ wr.rw \in BOOLEAN /\ wr.open \in BOOLEAN
      /\ got.text \in Seq(Symbols) /\ wr.tool \in ParserOf(Content) /\ Walk(got.text, FALSE, wr.open)
  BY DEF PipeTypes, Writers, Gots, Labels, Marked
<1>a. PICK works \in BOOLEAN : \E f, t, v, w :
        /\ f = (IF req.tools THEN FlushTool(wr.tool) ELSE [out |-> <<>>, calls |-> <<>>])
        /\ t = HandleText(wr.open, f.out)
        /\ v = got.text \o t.out \o CloseThink(t.open)
        /\ w = RewriteContent(wr.rw, works, v)
        /\ got' = IF w.ok THEN [text |-> w.out, calls |-> got.calls \o f.calls,
                                end |-> Finish(got.calls \o f.calls # <<>>)]
                  ELSE Failed
  BY DEF FinishCollected
<1>1. PICK f, t, v, w :
        /\ f = (IF req.tools THEN FlushTool(wr.tool) ELSE [out |-> <<>>, calls |-> <<>>])
        /\ t = HandleText(wr.open, f.out)
        /\ v = got.text \o t.out \o CloseThink(t.open)
        /\ w = RewriteContent(wr.rw, works, v)
        /\ got' = IF w.ok THEN [text |-> w.out, calls |-> got.calls \o f.calls,
                                end |-> Finish(got.calls \o f.calls # <<>>)]
                  ELSE Failed
  BY <1>a
<1>2. wr'.pc = "done" /\ wr'.tool \in ParserOf(Content)
  BY <1>0 DEF Writers
<1>3. f.out \in Seq(Content)
  <2>1. <<>> \in Seq(Content)
    OBVIOUS
  <2> QED
    BY <1>0, <1>1, <2>1, TagsAre, FlushToolTypes
<1>4. t.open \in BOOLEAN /\ t.out \in Seq(Symbols) /\ Walk(t.out, wr.open, t.open)
  BY <1>0, <1>1, <1>3, WalkText
<1>5. PICK z \in Seq(Symbols) : z = CloseThink(t.open) /\ Walk(z, t.open, FALSE)
  BY <1>4, WalkClose
<1>6. PICK u \in Seq(Symbols) : u = got.text \o t.out
  BY <1>0, <1>4, CatSeq
<1>7. Walk(u, FALSE, t.open)
  BY <1>0, <1>4, <1>6, WalkCat
<1>8. Walk(u \o z, FALSE, FALSE) /\ u \o z \in Seq(Symbols)
  BY <1>5, <1>7, WalkCat, CatSeq
<1>9. v = u \o z
  BY <1>1, <1>5, <1>6
<1>10. CASE w.ok
  <2>1. PICK b \in BOOLEAN : b = FALSE
    OBVIOUS
  <2>2. Walk(v, b, b) /\ v \in Seq(Symbols)
    BY <1>8, <1>9, <2>1
  <2>3. Walk(w.out, b, b)
    <3>1. PICK on \in BOOLEAN, k \in Seq(Symbols) : on = wr.rw /\ k = v
      BY <1>0, <2>2
    <3>2. w = RewriteContent(on, works, k) /\ w.ok /\ Walk(k, b, b)
      BY <1>1, <1>10, <2>2, <3>1
    <3> QED
      BY <3>2, WalkRewrite
  <2>4. got'.text = w.out
    BY <1>1, <1>10
  <2>5. Walk(got'.text, FALSE, FALSE)
    BY <2>1, <2>3, <2>4
  <2> QED
    BY <1>2, <2>5 DEF WriterMarks, Marked
<1>11. CASE ~w.ok
  <2>1. got'.text = <<>> /\ got'.end = "error"
    BY <1>1, <1>11 DEF Failed
  <2>2. PICK b \in BOOLEAN : b = FALSE
    OBVIOUS
  <2>3. Walk(<<>>, b, b)
    BY WalkNothing
  <2>4. Walk(got'.text, FALSE, b)
    BY <2>1, <2>2, <2>3
  <2> QED
    BY <1>2, <2>1, <2>4, StopMarks
<1> QED
  BY <1>10, <1>11

(* An error ends the response. *)
LEMMA ErrorMarks ==
  ASSUME PipeTypes, Sent, Labels, Marked, WriteError
  PROVE  WriterMarks
<1>0. /\ wr \in Writers /\ got \in Gots /\ wr.tool \in ParserOf(Content)
  BY DEF PipeTypes, Labels
<1>1. wr' = [wr EXCEPT !.pc = "gone"] /\ got' = IF req.stream THEN [got EXCEPT !.end = "error"] ELSE Failed
  BY DEF WriteError
<1>2. wr'.pc = "gone" /\ wr'.tool \in ParserOf(Content)
  BY <1>0, <1>1 DEF Writers
<1>3. got'.end = "error" /\ got'.text = IF req.stream THEN got.text ELSE <<>>
  BY <1>0, <1>1 DEF Gots, Failed
<1>4. PICK m \in BOOLEAN : Walk(got'.text, FALSE, m)
  <2>1. PICK b \in BOOLEAN : b = FALSE
    OBVIOUS
  <2>2. Walk(<<>>, b, b)
    BY WalkNothing
  <2>3. Walk(<<>>, FALSE, b)
    BY <2>1, <2>2
  <2> QED
    BY <1>3, <2>3 DEF Marked
<1> QED
  BY <1>2, <1>3, <1>4, StopMarks

-----------------------------------------------------------------------------
(* A text that is walked through nests no blocks.                          *)

Tags(text, i, s) == {j \in 1..i : text[j] = s}

(* The tags of one kind up to a place. *)
LEMMA TagsCount ==
  ASSUME NEW text, NEW s, NEW i \in Nat
  PROVE  IsFiniteSet(Tags(text, i, s)) /\ Cardinality(Tags(text, i, s)) \in Nat
<1>1. IsFiniteSet(1..i)
  BY FS_Interval
<1>2. Tags(text, i, s) \subseteq 1..i
  BY DEF Tags
<1>3. IsFiniteSet(Tags(text, i, s))
  BY <1>1, <1>2, FS_Subset
<1> QED
  BY <1>3, FS_CardinalityType

(* One symbol more. *)
LEMMA TagsStep ==
  ASSUME NEW text, NEW s, NEW i \in Nat \ {0}
  PROVE  Cardinality(Tags(text, i, s)) =
           Cardinality(Tags(text, i - 1, s)) + (IF text[i] = s THEN 1 ELSE 0)
<1>1. i - 1 \in Nat /\ 1..i = (1..(i - 1)) \cup {i} /\ i \notin 1..(i - 1)
  OBVIOUS
<1>2. PICK T : T = Tags(text, i - 1, s)
  OBVIOUS
<1>3. IsFiniteSet(T) /\ Cardinality(T) \in Nat
  BY <1>1, <1>2, TagsCount
<1>4. CASE text[i] = s
  <2>1. Tags(text, i, s) = T \cup {i} /\ i \notin T
    BY <1>1, <1>2, <1>4 DEF Tags
  <2>2. Cardinality(T \cup {i}) = Cardinality(T) + 1
    BY <1>3, <2>1, FS_AddElement
  <2> QED
    BY <1>2, <1>4, <2>1, <2>2
<1>5. CASE text[i] # s
  <2>1. Tags(text, i, s) = T
    BY <1>1, <1>2, <1>5 DEF Tags
  <2> QED
    BY <1>2, <1>3, <1>5, <2>1
<1> QED
  BY <1>4, <1>5

(* The depth moves with the walk. *)
LEMMA DepthMoves ==
  ASSUME NEW text, NEW i \in Nat \ {0}, NEW a \in BOOLEAN, NEW b \in BOOLEAN,
         Moves(a, text[i], b), Depth(text, i - 1) = IF a THEN 1 ELSE 0
  PROVE  Depth(text, i) = IF b THEN 1 ELSE 0
<1>1. i - 1 \in Nat
  OBVIOUS
<1>2. \A k \in Nat : Depth(text, k) = Cardinality(Tags(text, k, "[think]")) - Cardinality(Tags(text, k, "[/think]"))
  BY DEF Depth, Tags
<1>3. PICK p \in Nat, q \in Nat : p = Cardinality(Tags(text, i - 1, "[think]"))
                               /\ q = Cardinality(Tags(text, i - 1, "[/think]"))
  BY <1>1, TagsCount
<1>4. Cardinality(Tags(text, i, "[think]")) = p + (IF text[i] = "[think]" THEN 1 ELSE 0)
  BY <1>3, TagsStep
<1>5. Cardinality(Tags(text, i, "[/think]")) = q + (IF text[i] = "[/think]" THEN 1 ELSE 0)
  BY <1>3, TagsStep
<1>6. p - q = IF a THEN 1 ELSE 0
  BY <1>1, <1>2, <1>3
<1>7. Depth(text, i) = (p + (IF text[i] = "[think]" THEN 1 ELSE 0)) - (q + (IF text[i] = "[/think]" THEN 1 ELSE 0))
  BY <1>2, <1>4, <1>5
<1>8. CASE text[i] = "[think]"
  <2>1. ~a /\ b
    BY <1>8 DEF Moves
  <2> QED
    BY <1>6, <1>7, <1>8, <2>1
<1>9. CASE text[i] = "[/think]"
  <2>1. a /\ ~b
    BY <1>9 DEF Moves
  <2> QED
    BY <1>6, <1>7, <1>9, <2>1
<1>10. CASE text[i] \notin {"[think]", "[/think]"}
  <2>1. b = a
    BY <1>10 DEF Moves
  <2> QED
    BY <1>6, <1>7, <1>10, <2>1
<1> QED
  BY <1>8, <1>9, <1>10

(* The depth is the state of the walk. *)
LEMMA DepthIs ==
  ASSUME NEW text \in Seq(Symbols), NEW h, NEW b, Reads(h, text, FALSE, b)
  PROVE  \A i \in 0..Len(text) : Depth(text, i) = IF h[i] THEN 1 ELSE 0
<1>1. PICK n \in Nat : n = Len(text)
  OBVIOUS
<1>2. h \in [0..n -> BOOLEAN] /\ h[0] = FALSE /\ \A i \in 1..n : Moves(h[i - 1], text[i], h[i])
  BY <1>1 DEF Reads
<1> DEFINE N == {i \in 0..n : Depth(text, i) = IF h[i] THEN 1 ELSE 0}
<1>3. 0 \in N
  <2>1. {j \in 1..0 : text[j] = "[think]"} = {} /\ {j \in 1..0 : text[j] = "[/think]"} = {}
    OBVIOUS
  <2>2. Depth(text, 0) = 0
    BY <2>1, FS_EmptySet DEF Depth
  <2> QED
    BY <1>2, <2>2
<1>4. ASSUME NEW i \in 1..n, i - 1 \in N PROVE i \in N
  <2>1. i \in Nat \ {0} /\ i \in 0..n /\ i - 1 \in 0..n
    OBVIOUS
  <2>2. PICK a \in BOOLEAN, c \in BOOLEAN : a = h[i - 1] /\ c = h[i]
    BY <1>2, <2>1
  <2>3. Moves(a, text[i], c) /\ Depth(text, i - 1) = IF a THEN 1 ELSE 0
    BY <1>2, <1>4, <2>2
  <2>4. Depth(text, i) = IF c THEN 1 ELSE 0
    BY <2>1, <2>3, DepthMoves
  <2> QED
    BY <2>1, <2>2, <2>4
<1>5. N = 0..n
  <2>1. N \in SUBSET (0..n)
    OBVIOUS
  <2> HIDE DEF N
  <2> QED
    BY <1>3, <1>4, <2>1, UpTo
<1> QED
  BY <1>1, <1>5

(* Blocks do not nest and no content is inside one; a walk that ends outside leaves none open. *)
LEMMA WalkBlocks ==
  ASSUME NEW text \in Seq(Symbols), NEW b, Walk(text, FALSE, b)
  PROVE  /\ \A i \in DOMAIN text : Depth(text, i) \in {0, 1} /\ (text[i] = "x" => Depth(text, i) = 0)
         /\ ~b => Depth(text, Len(text)) = 0
<1>1. PICK h : Reads(h, text, FALSE, b)
  BY DEF Walk
<1>2. PICK n \in Nat : n = Len(text) /\ DOMAIN text = 1..n
  OBVIOUS
<1>3. h \in [0..n -> BOOLEAN] /\ h[n] = b /\ \A i \in 1..n : Moves(h[i - 1], text[i], h[i])
  BY <1>1, <1>2 DEF Reads
<1>4. \A i \in 0..n : Depth(text, i) = IF h[i] THEN 1 ELSE 0
  BY <1>1, <1>2, DepthIs
<1>5. ASSUME NEW i \in 1..n, text[i] = "x" PROVE ~h[i]
  <2>1. i - 1 \in 0..n /\ i \in 0..n
    OBVIOUS
  <2>2. Moves(h[i - 1], "x", h[i]) /\ h[i - 1] \in BOOLEAN /\ h[i] \in BOOLEAN
    BY <1>3, <1>5, <2>1
  <2> QED
    BY <2>2 DEF Moves, Outside
<1>6. \A i \in 1..n : i \in 0..n
  OBVIOUS
<1>7. n \in 0..n
  OBVIOUS
<1> QED
  BY <1>2, <1>3, <1>4, <1>5, <1>6, <1>7

-----------------------------------------------------------------------------

(* The inductive invariant of the think blocks. *)
BInv == IInv /\ Labels /\ Marked

(* At the beginning. *)
LEMMA InitMarks == ASSUME Labelled, PipeInit PROVE BInv
<1>1. IInv
  BY PipeInitTypes DEF IInv
<1>2. Labels
  BY InitLabels, FreshTame DEF Labels, PipeInit
<1>3. PICK b \in BOOLEAN : b = FALSE
  OBVIOUS
<1>4. Walk(<<>>, b, b)
  BY WalkNothing
<1>5. Walk(<<>>, FALSE, FALSE)
  BY <1>3, <1>4
<1>6. got.text = <<>> /\ got.end = "none" /\ wr.gate = <<>> /\ wr.open = FALSE
  BY DEF PipeInit
<1>7. Passing(got.text, wr.gate, wr.open)
  BY <1>5, <1>6 DEF Passing
<1>8. Marked
  BY <1>5, <1>6, <1>7 DEF Marked, Finished
<1> QED
  BY <1>1, <1>2, <1>8 DEF BInv

(* The response's steps keep the blocks and what labels its parser has. *)
LEMMA WriterMarked ==
  ASSUME BInv, Writer
  PROVE  Labels' /\ Marked'
<1>0. PipeTypes /\ Sent /\ EndNamesCalls /\ Labels /\ Marked /\ FlowLabels
  BY DEF BInv, IInv, Labels
<1>1. UNCHANGED wrRest /\ out' \in Seq(Said)
  <2>0. out \in Seq(Said)
    BY <1>0 DEF FlowLabels
  <2>1. CASE WriteEvent \/ WriteError
    <3>1. out # <<>> /\ out' = Tail(out)
      BY <2>1 DEF WriteEvent, WriteError, Take
    <3> QED
      BY <2>0, <2>1, <3>1 DEF WriteEvent, WriteError
  <2>2. CASE WriteFinish \/ WriterLeaves
    BY <2>0, <2>2 DEF WriteFinish, WriterLeaves
  <2> QED
    BY <2>1, <2>2 DEF Writer
<1>2. FlowLabels'
  BY <1>0, <1>1 DEF FlowLabels, wrRest
<1>3. CASE WriteEvent
  <2>1. Head(out) \in Said
    BY <1>0, <1>3, HeadTail DEF WriteEvent, Take, FlowLabels
  <2>2. wr.pc = "read" /\ req' = req /\ (IF req.stream THEN StreamEvent(Head(out)) ELSE CollectEvent(Head(out)))
    BY <1>3 DEF WriteEvent, Take, wrRest
  <2> QED
    BY <1>0, <1>2, <2>1, <2>2, StreamMarks, CollectMarks DEF WriterMarks, Labels
<1>4. CASE WriteError
  BY <1>0, <1>2, <1>4, ErrorMarks DEF WriterMarks, Labels
<1>5. CASE WriteFinish
  <2>1. wr.pc = "read" /\ req' = req /\ (IF req.stream THEN FinishStream ELSE FinishCollected)
        /\ wr' = [wr EXCEPT !.pc = "done"]
    BY <1>5 DEF WriteFinish, wrRest
  <2> QED
    BY <1>0, <1>2, <2>1, FinishStreamMarks, FinishCollectedMarks DEF WriterMarks, Labels
<1>6. CASE WriterLeaves
  <2>1. wr' = [wr EXCEPT !.pc = "gone"] /\ got' = got /\ req' = req
    BY <1>6 DEF WriterLeaves, wrRest
  <2>2. wr'.pc = "gone" /\ wr'.tool = wr.tool
    BY <1>0, <2>1 DEF PipeTypes, Writers
  <2> QED
    BY <1>0, <1>2, <2>1, <2>2 DEF Labels, Marked, Finished
<1> QED
  BY <1>3, <1>4, <1>5, <1>6 DEF Writer

(* Every step keeps the labels and the blocks. *)
LEMMA StepMarked ==
  ASSUME Labelled, BInv, [Next]_pipeVars
  PROVE  BInv'
<1>0. IInv /\ PipeTypes /\ Labels /\ Marked /\ FlowLabels
  BY DEF BInv, IInv, Labels
<1>1. IInv'
  BY <1>0, StepKeeps
<1>2. CASE Reader \/ Break
  <2>1. UNCHANGED srcRest /\ (Produce \/ Eof \/ Break)
    BY <1>2 DEF Reader, Produce, Eof, Break
  <2>2. FlowLabels'
    BY <1>0, <2>1, ReaderLabels DEF FlowLabels, srcRest
  <2>3. Labels' /\ Marked'
    BY <1>0, <2>1, <2>2 DEF Labels, Marked, Finished, srcRest
  <2> QED
    BY <1>1, <2>3 DEF BInv
<1>3. CASE Consumer
  <2>1. UNCHANGED flowRest
    BY <1>3 DEF Consumer, Receive, ReceiveClosed, ReceiveError, ReceiveCancel, Send, FlowEnds
  <2>2. FlowLabels'
    BY <1>0, <1>3, ConsumerLabels
  <2>3. Labels' /\ Marked'
    BY <1>0, <2>1, <2>2 DEF Labels, Marked, Finished, flowRest
  <2> QED
    BY <1>1, <2>3 DEF BInv
<1>4. CASE Writer
  BY <1>1, <1>4, WriterMarked DEF BInv
<1>5. CASE ClientLeaves \/ UNCHANGED pipeVars
  <2>1. UNCHANGED <<req, answer, src, ch, flow, out, wr, got>>
    BY <1>5 DEF ClientLeaves, pipeVars
  <2>2. Labels' /\ Marked'
    BY <1>0, <2>1 DEF Labels, FlowLabels, Marked, Finished
  <2> QED
    BY <1>1, <2>2 DEF BInv
<1> QED
  BY <1>2, <1>3, <1>4, <1>5 DEF Next

(* The invariant holds of labelled answers. *)
LEMMA BInvGives ==
  ASSUME BInv
  PROVE  PipeInv
<1>1. IInv /\ EndNamesCalls /\ Marked /\ got.text \in Seq(Symbols)
  BY DEF BInv, IInv, PipeTypes, Gots
<1>2. PICK m \in BOOLEAN : Walk(got.text, FALSE, m)
  BY <1>1 DEF Marked
<1>3. \A i \in DOMAIN got.text :
        Depth(got.text, i) \in {0, 1} /\ (got.text[i] = "x" => Depth(got.text, i) = 0)
  BY <1>1, <1>2, WalkBlocks
<1>4. ASSUME Finished PROVE Depth(got.text, Len(got.text)) = 0
  <2>1. PICK b \in BOOLEAN : b = FALSE /\ Walk(got.text, FALSE, b)
    BY <1>1, <1>4 DEF Marked
  <2> QED
    BY <1>1, <2>1, WalkBlocks
<1>5. ThinkBlocks
  BY <1>3, <1>4 DEF ThinkBlocks
<1> QED
  BY <1>1, <1>5, TypesGive DEF PipeInv

(* Think blocks do not nest, no content is inside one and a finished       *)
(* answer leaves none open, and the reason that ends it says whether it    *)
(* has calls: for every answer whose text writes no think tag itself and   *)
(* whose reasoning has no content in it, in whatever chunks it comes, for  *)
(* every request, capacity and number of attempts.                         *)
THEOREM PipeInvHolds ==
  ASSUME Labelled
  PROVE  Spec => []PipeInv
<1>1. PipeInit => BInv
  BY InitMarks
<1>2. BInv /\ [Next]_pipeVars => BInv'
  BY StepMarked
<1>3. BInv => PipeInv
  BY BInvGives
<1> QED
  BY <1>1, <1>2, <1>3, PTL DEF Spec

=============================================================================
