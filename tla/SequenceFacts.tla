---------------------------- MODULE SequenceFacts ----------------------------
(***************************************************************************)
(* What the steps over Go slices compute, for every sequence: Flatten,     *)
(* the first element with a name, and what is left without one.            *)
(***************************************************************************)
EXTENDS SchemaTypes, Integers, WellFoundedInduction, SequenceTheorems, TLAPS

LEMMA NatLess == IsWellFoundedOn({ss \in Nat \X Nat : ss[1] < ss[2]}, Nat)
  BY NatLessThanWellFounded DEF OpToRel

\* Induction for a set of numbers.
LEMMA Induction ==
    ASSUME NEW T, 0 \in T, \A n \in Nat : n \in T => n + 1 \in T
    PROVE  \A n \in Nat : n \in T
  <1> DEFINE U == {n \in Nat : n \notin T}
  <1> SUFFICES ASSUME U # {} PROVE FALSE
    OBVIOUS
  <1>1. U \subseteq Nat
    OBVIOUS
  <1>2. PICK x \in U : \A y \in U : ~(<<y, x>> \in {ss \in Nat \X Nat : ss[1] < ss[2]})
    <2> HIDE DEF U
    <2> QED
      BY <1>1, NatLess, WFMin
  <1>3. x \in Nat /\ x # 0
    OBVIOUS
  <1>4. x - 1 \in Nat /\ x - 1 < x
    BY <1>3
  <1>5. x - 1 \notin U
    BY <1>2, <1>3, <1>4
  <1> QED
    BY <1>3, <1>4, <1>5

\* What Flatten computes step by step.
Flattens(f, seqs, n) ==
    f = [i \in 0..n |-> IF i = 0 THEN <<>> ELSE f[i - 1] \o seqs[i]]

LEMMA FlattenExists ==
    ASSUME NEW seqs, Len(seqs) \in Nat
    PROVE  \E f : Flattens(f, seqs, Len(seqs))
  <1> DEFINE T == {n \in Nat : \E f : Flattens(f, seqs, n)}
  <1>1. 0 \in T
    <2> DEFINE g == [i \in 0..0 |-> <<>>]
    <2>1. g = [i \in 0..0 |-> IF i = 0 THEN <<>> ELSE g[i - 1] \o seqs[i]]
      OBVIOUS
    <2> HIDE DEF g
    <2>2. Flattens(g, seqs, 0)
      BY <2>1 DEF Flattens
    <2> QED
      BY <2>2
  <1>2. ASSUME NEW n \in Nat, n \in T PROVE n + 1 \in T
    <2>1. PICK f : f = [i \in 0..n |-> IF i = 0 THEN <<>> ELSE f[i - 1] \o seqs[i]]
      BY <1>2 DEF Flattens
    <2> DEFINE g == [i \in 0..(n + 1) |-> IF i = n + 1 THEN f[n] \o seqs[n + 1] ELSE f[i]]
    <2>2. \A i \in 0..(n + 1) : g[i] = IF i = 0 THEN <<>> ELSE g[i - 1] \o seqs[i]
      <3> SUFFICES ASSUME NEW i \in 0..(n + 1) PROVE g[i] = IF i = 0 THEN <<>> ELSE g[i - 1] \o seqs[i]
        OBVIOUS
      <3>1. CASE i = n + 1
        BY <3>1
      <3>2. CASE i # n + 1
        <4>1. i \in 0..n /\ g[i] = f[i]
          BY <3>2
        <4>2. f[i] = IF i = 0 THEN <<>> ELSE f[i - 1] \o seqs[i]
          BY <2>1, <4>1
        <4>3. i # 0 => g[i - 1] = f[i - 1]
          BY <4>1
        <4> QED
          BY <4>1, <4>2, <4>3
      <3> QED
        BY <3>1, <3>2
    <2>3. g = [i \in 0..(n + 1) |-> IF i = 0 THEN <<>> ELSE g[i - 1] \o seqs[i]]
      BY <2>2
    <2> HIDE DEF g
    <2>4. Flattens(g, seqs, n + 1)
      BY <2>3 DEF Flattens
    <2>5. n + 1 \in Nat
      OBVIOUS
    <2> QED
      BY <2>4, <2>5
  <1>3. \A n \in Nat : n \in T
    <2> HIDE DEF T
    <2> QED
      BY <1>1, <1>2, Induction
  <1> QED
    BY <1>3

LEMMA FlattenIs ==
    ASSUME NEW seqs, Len(seqs) \in Nat
    PROVE  \E f : Flattens(f, seqs, Len(seqs)) /\ Flatten(seqs) = f[Len(seqs)]
  <1> DEFINE f == CHOOSE f : f = [i \in 0..Len(seqs) |-> IF i = 0 THEN <<>> ELSE f[i - 1] \o seqs[i]]
  <1>1. Flatten(seqs) = f[Len(seqs)]
    BY DEF Flatten
  <1>2. f = [i \in 0..Len(seqs) |-> IF i = 0 THEN <<>> ELSE f[i - 1] \o seqs[i]]
    BY FlattenExists DEF Flattens
  <1> HIDE DEF f
  <1> QED
    BY <1>1, <1>2 DEF Flattens

LEMMA ConcatFacts ==
    ASSUME NEW S, NEW s \in Seq(S), NEW t \in Seq(S)
    PROVE  s \o t \in Seq(S) /\ Range(s \o t) = Range(s) \cup Range(t)
  <1>1. s \o t \in Seq(S) /\ Len(s \o t) = Len(s) + Len(t) /\ Len(s) \in Nat /\ Len(t) \in Nat
    OBVIOUS
  <1>2. DOMAIN s = 1..Len(s) /\ DOMAIN t = 1..Len(t) /\ DOMAIN (s \o t) = 1..(Len(s) + Len(t))
    BY <1>1
  <1>3. \A i \in 1..Len(s) : (s \o t)[i] = s[i]
    BY <1>1
  <1>4. \A i \in 1..Len(t) : (s \o t)[Len(s) + i] = t[i]
    BY <1>1
  <1>5. \A i \in 1..(Len(s) + Len(t)) :
           (s \o t)[i] = IF i <= Len(s) THEN s[i] ELSE t[i - Len(s)]
    BY <1>1
  <1> DEFINE u == s \o t
  <1> HIDE DEF u
  <1>6. \A i \in 1..(Len(s) + Len(t)) : u[i] \in Range(s) \cup Range(t)
    <2> SUFFICES ASSUME NEW i \in 1..(Len(s) + Len(t)) PROVE u[i] \in Range(s) \cup Range(t)
      OBVIOUS
    <2>1. CASE i <= Len(s)
      BY <1>1, <1>2, <1>5, <2>1 DEF Range, u
    <2>2. CASE ~(i <= Len(s))
      <3>1. i - Len(s) \in 1..Len(t)
        BY <1>1, <2>2
      <3> QED
        BY <1>2, <1>5, <2>2, <3>1 DEF Range, u
    <2> QED
      BY <2>1, <2>2
  <1>7. Range(s) \cup Range(t) \subseteq Range(u)
    <2>1. \A i \in DOMAIN s : i \in DOMAIN u /\ u[i] = s[i]
      BY <1>1, <1>2, <1>3 DEF u
    <2>2. \A i \in DOMAIN t : Len(s) + i \in DOMAIN u /\ u[Len(s) + i] = t[i]
      BY <1>1, <1>2, <1>4 DEF u
    <2> QED
      BY <2>1, <2>2 DEF Range
  <1>8. Range(u) \subseteq Range(s) \cup Range(t)
    BY <1>2, <1>6 DEF Range, u
  <1> QED
    BY <1>1, <1>7, <1>8 DEF u

\* The elements of the result are those of the sequences.
LEMMA FlattenFacts ==
    ASSUME NEW S, NEW seqs \in Seq(Seq(S))
    PROVE  /\ Flatten(seqs) \in Seq(S)
           /\ Range(Flatten(seqs)) = UNION {Range(seqs[i]) : i \in DOMAIN seqs}
  <1>0. Len(seqs) \in Nat /\ DOMAIN seqs = 1..Len(seqs) /\ \A i \in 1..Len(seqs) : seqs[i] \in Seq(S)
    OBVIOUS
  <1>1. PICK f : Flattens(f, seqs, Len(seqs)) /\ Flatten(seqs) = f[Len(seqs)]
    BY <1>0, FlattenIs
  <1>2. \A i \in 0..Len(seqs) : f[i] = IF i = 0 THEN <<>> ELSE f[i - 1] \o seqs[i]
    BY <1>1 DEF Flattens
  <1> DEFINE Good(n) == f[n] \in Seq(S) /\ Range(f[n]) = UNION {Range(seqs[i]) : i \in 1..n}
             T == {n \in Nat : n \in 0..Len(seqs) => Good(n)}
  <1>3. 0 \in T
    <2>1. f[0] = <<>>
      BY <1>0, <1>2
    <2>2. <<>> \in Seq(S) /\ Range(<<>>) = {} /\ 1..0 = {}
      BY DEF Range
    <2> QED
      BY <2>1, <2>2
  <1>4. ASSUME NEW n \in Nat, n \in T PROVE n + 1 \in T
    <2> SUFFICES ASSUME n + 1 \in 0..Len(seqs) PROVE Good(n + 1)
      OBVIOUS
    <2>1. f[n + 1] = f[n] \o seqs[n + 1]
      <3>1. f[n + 1] = IF n + 1 = 0 THEN <<>> ELSE f[n + 1 - 1] \o seqs[n + 1]
        BY <1>2
      <3>2. n + 1 # 0 /\ n + 1 - 1 = n
        OBVIOUS
      <3> QED
        BY <3>1, <3>2, Zenon
    <2>2. n \in 0..Len(seqs) /\ n + 1 \in 1..Len(seqs)
      BY <1>0
    <2>3. Good(n)
      <3> HIDE DEF Good
      <3> QED
        BY <1>4, <2>2
    <2>4. seqs[n + 1] \in Seq(S)
      BY <1>0, <2>2
    <2>5. f[n + 1] \in Seq(S) /\ Range(f[n + 1]) = Range(f[n]) \cup Range(seqs[n + 1])
      BY <2>1, <2>3, <2>4, ConcatFacts
    <2>6. 1..(n + 1) = (1..n) \cup {n + 1}
      OBVIOUS
    <2> QED
      BY <2>3, <2>5, <2>6
  <1>5. \A n \in Nat : n \in T
    <2> HIDE DEF T
    <2> QED
      BY <1>3, <1>4, Induction
  <1>6. Good(Len(seqs))
    <2> HIDE DEF Good
    <2> QED
      BY <1>0, <1>5
  <1> QED
    BY <1>0, <1>1, <1>6

LEMMA SequenceDomain ==
    ASSUME NEW s, IsSequence(s)
    PROVE  /\ Len(s) \in Nat /\ DOMAIN s = 1..Len(s) /\ s = [i \in 1..Len(s) |-> s[i]]
           /\ \A i \in DOMAIN s : s[i] \in Range(s)
  BY DEF IsSequence

\* A function from 1..n is a sequence.
LEMMA FunctionSequence ==
    ASSUME NEW n \in Nat, NEW f, f = [i \in 1..n |-> f[i]]
    PROVE  IsSequence(f) /\ Len(f) = n
  <1>1. \A i \in 1..n : f[i] \in Range(f)
    BY DEF Range
  <1>2. f \in [1..n -> Range(f)]
    BY <1>1
  <1> HIDE DEF Range
  <1> QED
    BY <1>2 DEF IsSequence

LEMMA LargerSequence ==
    ASSUME NEW s, IsSequence(s), NEW S, Range(s) \subseteq S
    PROVE  s \in Seq(S)
  <1>1. \A i \in 1..Len(s) : s[i] \in S
    BY SequenceDomain
  <1> QED
    BY <1>1, SequenceDomain

LEMMA SmallerSequence ==
    ASSUME NEW S, NEW s \in Seq(S)
    PROVE  IsSequence(s)
  <1>1. Len(s) \in Nat /\ s = [i \in 1..Len(s) |-> s[i]]
    OBVIOUS
  <1> QED
    BY <1>1, FunctionSequence

LEMMA Concatenated ==
    ASSUME NEW s, IsSequence(s), NEW t, IsSequence(t)
    PROVE  IsSequence(s \o t) /\ Range(s \o t) = Range(s) \cup Range(t)
  <1> DEFINE S == Range(s) \cup Range(t)
  <1>1. s \in Seq(S) /\ t \in Seq(S)
    BY LargerSequence
  <1> HIDE DEF S
  <1>2. s \o t \in Seq(S) /\ Range(s \o t) = Range(s) \cup Range(t)
    BY <1>1, ConcatFacts
  <1> QED
    BY <1>2, SmallerSequence

LEMMA ConcatenatedAt ==
    ASSUME NEW s, IsSequence(s), NEW t, IsSequence(t)
    PROVE  /\ Len(s) \in Nat /\ Len(t) \in Nat /\ Len(s \o t) = Len(s) + Len(t)
           /\ DOMAIN s = 1..Len(s) /\ DOMAIN t = 1..Len(t) /\ DOMAIN (s \o t) = 1..(Len(s) + Len(t))
           /\ \A i \in 1..(Len(s) + Len(t)) : (s \o t)[i] = IF i <= Len(s) THEN s[i] ELSE t[i - Len(s)]
  <1> DEFINE S == Range(s) \cup Range(t)
  <1>1. s \in Seq(S) /\ t \in Seq(S)
    BY LargerSequence
  <1> HIDE DEF S
  <1>2. s \o t \in Seq(S) /\ Len(s \o t) = Len(s) + Len(t)
    BY <1>1
  <1> QED
    BY <1>1, <1>2

LEMMA Flattened ==
    ASSUME NEW f, IsSequence(f), \A i \in DOMAIN f : IsSequence(f[i])
    PROVE  IsSequence(Flatten(f)) /\ Range(Flatten(f)) = UNION {Range(f[i]) : i \in DOMAIN f}
  <1> DEFINE S == UNION {Range(f[i]) : i \in DOMAIN f}
  <1>1. \A i \in DOMAIN f : f[i] \in Seq(S)
    <2> SUFFICES ASSUME NEW i \in DOMAIN f PROVE f[i] \in Seq(S)
      OBVIOUS
    <2>1. Range(f[i]) \subseteq S
      OBVIOUS
    <2> HIDE DEF S
    <2> QED
      BY <2>1, LargerSequence
  <1> HIDE DEF S
  <1>2. f \in Seq(Seq(S))
    BY <1>1, SequenceDomain
  <1>3. Flatten(f) \in Seq(S) /\ Range(Flatten(f)) = UNION {Range(f[i]) : i \in DOMAIN f}
    BY <1>2, FlattenFacts
  <1> QED
    BY <1>3, SmallerSequence

\* Literal sequences, appending, and what is left of a sequence.
LEMMA Literals ==
    /\ IsSequence(<<>>) /\ Range(<<>>) = {}
    /\ \A a : IsSequence(<<a>>) /\ Range(<<a>>) = {a}
    /\ \A a, b : IsSequence(<<a, b>>) /\ Range(<<a, b>>) = {a, b}
  <1>1. IsSequence(<<>>) /\ Range(<<>>) = {}
    BY DEF IsSequence, Range
  <1>2. ASSUME NEW a PROVE IsSequence(<<a>>) /\ Range(<<a>>) = {a}
    <2>1. Range(<<a>>) = {a}
      BY DEF Range
    <2>2. <<a>> \in Seq({a})
      OBVIOUS
    <2> QED
      BY <2>1, <2>2 DEF IsSequence
  <1>3. ASSUME NEW a, NEW b PROVE IsSequence(<<a, b>>) /\ Range(<<a, b>>) = {a, b}
    <2>1. Range(<<a, b>>) = {a, b}
      BY DEF Range
    <2>2. <<a, b>> \in Seq({a, b})
      OBVIOUS
    <2> QED
      BY <2>1, <2>2 DEF IsSequence
  <1> QED
    BY <1>1, <1>2, <1>3

LEMMA Appended ==
    ASSUME NEW s, IsSequence(s), NEW a
    PROVE  IsSequence(Append(s, a)) /\ Range(Append(s, a)) = Range(s) \cup {a}
  <1>1. s \in Seq(Range(s) \cup {a})
    BY LargerSequence
  <1>2. Append(s, a) = s \o <<a>>
    BY <1>1
  <1> QED
    BY <1>2, Concatenated, Literals

LEMMA Tailed ==
    ASSUME NEW s, IsSequence(s), s # <<>>
    PROVE  /\ IsSequence(Tail(s)) /\ Len(s) \in Nat /\ Len(s) > 0 /\ Len(Tail(s)) = Len(s) - 1
           /\ DOMAIN Tail(s) = 1..(Len(s) - 1) /\ DOMAIN s = 1..Len(s)
           /\ Head(s) = s[1] /\ \A i \in 1..(Len(s) - 1) : Tail(s)[i] = s[i + 1]
  <1>1. s \in Seq(Range(s)) /\ Len(s) \in Nat /\ DOMAIN s = 1..Len(s)
    BY DEF IsSequence
  <1>2. Len(s) > 0
    BY <1>1, EmptySeq
  <1> DEFINE S == Range(s)
  <1> HIDE DEF S
  <1>3. Tail(s) \in Seq(S) /\ Len(Tail(s)) = Len(s) - 1 /\ Head(s) = s[1]
    BY <1>1, <1>2 DEF S
  <1>4. DOMAIN Tail(s) = 1..(Len(s) - 1)
    BY <1>3
  <1>5. \A i \in 1..(Len(s) - 1) : Tail(s)[i] = s[i + 1]
    BY <1>1, <1>2 DEF S
  <1>6. IsSequence(Tail(s))
    BY <1>3, SmallerSequence
  <1> QED
    BY <1>1, <1>2, <1>3, <1>4, <1>5, <1>6

\* The first element with a name is one of them and has the name.
LEMMA Found ==
    ASSUME NEW s, IsSequence(s), NEW n, HasName(s, n)
    PROVE  /\ ByName(s, n) \in Range(s) /\ ByName(s, n).name = n
           /\ \E i \in DOMAIN s : ByName(s, n) = s[i]
  <1> DEFINE I == {i \in 1..Len(s) : s[i].name = n}
  <1>1. I # {} /\ I \subseteq Nat
    BY SequenceDomain DEF HasName, NamesOf
  <1>2. PICK x \in I : \A y \in I : ~(<<y, x>> \in {ss \in Nat \X Nat : ss[1] < ss[2]})
    <2> HIDE DEF I
    <2> QED
      BY <1>1, NatLess, WFMin
  <1> DEFINE First(i) == s[i].name = n /\ \A j \in 1..(i - 1) : s[j].name # n
  <1>3. x \in DOMAIN s /\ First(x)
    <2>1. x \in 1..Len(s) /\ s[x].name = n /\ DOMAIN s = 1..Len(s) /\ Len(s) \in Nat
      BY SequenceDomain
    <2> SUFFICES ASSUME NEW j \in 1..(x - 1), s[j].name = n PROVE FALSE
      BY <2>1
    <2>2. j \in I /\ j \in Nat /\ x \in Nat /\ j < x
      BY <2>1
    <2> HIDE DEF I
    <2> QED
      BY <1>2, <2>2
  <1>4. ByName(s, n) = s[CHOOSE i \in DOMAIN s : First(i)]
    BY DEF ByName
  <1>5. (CHOOSE i \in DOMAIN s : First(i)) \in DOMAIN s /\ First(CHOOSE i \in DOMAIN s : First(i))
    <2> HIDE DEF First
    <2> QED
      BY <1>3
  <1> QED
    BY <1>4, <1>5 DEF Range

\* What is left of a sequence without a name.
LEMMA Without ==
    ASSUME NEW s, IsSequence(s), NEW n
    PROVE  /\ IsSequence(WithoutName(s, n))
           /\ Range(WithoutName(s, n)) = {x \in Range(s) : x.name # n}
  <1> DEFINE f == [i \in DOMAIN s |-> IF s[i].name # n THEN <<s[i]>> ELSE <<>>]
  <1>1. WithoutName(s, n) = Flatten(f)
    BY DEF WithoutName, Where, FlatMap
  <1>2. IsSequence(f) /\ DOMAIN f = DOMAIN s
    BY SequenceDomain, FunctionSequence
  <1>3. \A i \in DOMAIN s : IsSequence(f[i]) /\ Range(f[i]) = IF s[i].name # n THEN {s[i]} ELSE {}
    BY Literals
  <1> HIDE DEF f
  <1>4. IsSequence(Flatten(f)) /\ Range(Flatten(f)) = UNION {Range(f[i]) : i \in DOMAIN f}
    BY <1>2, <1>3, Flattened
  <1>5. UNION {Range(f[i]) : i \in DOMAIN f} = {x \in {s[i] : i \in DOMAIN s} : x.name # n}
    BY <1>2, <1>3
  <1>6. Range(s) = {s[i] : i \in DOMAIN s}
    BY DEF Range
  <1> QED
    BY <1>1, <1>4, <1>5, <1>6
=============================================================================
