---------------------------- MODULE PyProgramProofs ----------------------------
(***************************************************************************)
(* Proofs about the Python program, for every set of command lines, files  *)
(* and utterances: it sends legal audio only, it prints what the service   *)
(* gave, with the times of the words they stand beside, and                *)
(* its requests, its responses and its state are of their types.           *)
(***************************************************************************)
EXTENDS PyProgram, FiniteSetTheorems, SequenceTheorems, TLAPS

-----------------------------------------------------------------------------
(***************************************************************************)
(* Sequences.  The provers have no induction over an operator; with a set  *)
(* of the values that have a property it is a fact about sets.             *)
(***************************************************************************)
\* A set of natural numbers has a least one: among the intervals that end in it
\* there is a smallest.
LEMMA Least ==
    ASSUME NEW T, T \subseteq Nat, T # {}
    PROVE  \E n \in T : \A k \in T : n <= k
<1> DEFINE Heads == {0 .. n : n \in T}
<1>1. Heads \subseteq FiniteSubsetsOf(Nat) /\ Heads # {}
  <2> SUFFICES ASSUME NEW n \in T PROVE 0 .. n \in FiniteSubsetsOf(Nat)
    OBVIOUS
  <2>1. IsFiniteSet(0 .. n) BY FS_Interval
  <2> QED BY <2>1 DEF FiniteSubsetsOf
<1>2. PICK x \in Heads : \A y \in Heads : <<y, x>> \notin StrictSubsetOrdering(Nat)
  <2> HIDE DEF Heads
  <2> QED BY <1>1, WFMin, FS_StrictSubsetOrderingWellFounded
<1>3. PICK n \in T : x = 0 .. n BY <1>2
<1>4. ASSUME NEW k \in T, k < n PROVE FALSE
  <2>1. 0 .. k \in Heads OBVIOUS
  <2>2. 0 .. k \subseteq 0 .. n /\ n \in 0 .. n /\ n \notin 0 .. k BY <1>4
  <2>3. <<0 .. k, 0 .. n>> \in StrictSubsetOrdering(Nat)
    BY <2>2 DEF StrictSubsetOrdering
  <2> QED BY <1>2, <1>3, <2>1, <2>3
<1> QED BY <1>4

\* Induction, with the set of the numbers that have the property.
LEMMA Induction ==
    ASSUME NEW P, 0 \in P, \A n \in Nat : n \in P => n + 1 \in P
    PROVE  \A n \in Nat : n \in P
<1> SUFFICES ASSUME NEW m \in Nat, m \notin P PROVE FALSE
  OBVIOUS
<1> DEFINE T == {n \in Nat : n \notin P}
<1>1. PICK n \in T : \A k \in T : n <= k
  <2>1. T \subseteq Nat /\ T # {} OBVIOUS
  <2> HIDE DEF T
  <2> QED BY <2>1, Least
<1>2. n \in Nat \ {0} /\ n \notin P OBVIOUS
<1>3. n - 1 \in Nat /\ n - 1 \in P BY <1>1, <1>2
<1>4. (n - 1) + 1 = n BY <1>2
<1> QED BY <1>2, <1>3, <1>4

\* The same for sequences, that grow at their ends.
LEMMA Growing ==
    ASSUME NEW S, NEW P, <<>> \in P, \A s \in Seq(S) : \A e \in S : s \in P => Append(s, e) \in P
    PROVE  \A s \in Seq(S) : s \in P
<1> DEFINE N == {n \in Nat : \A s \in Seq(S) : Len(s) = n => s \in P}
<1>1. 0 \in N
  <2>1. \A s \in Seq(S) : Len(s) = 0 => s = <<>> OBVIOUS
  <2> QED BY <2>1
<1>2. ASSUME NEW n \in Nat, n \in N PROVE n + 1 \in N
  <2> SUFFICES ASSUME NEW s \in Seq(S), Len(s) = n + 1 PROVE s \in P
    OBVIOUS
  <2> DEFINE f == SubSeq(s, 1, n)
  <2>1. f \in Seq(S) /\ Len(f) = n /\ s[n + 1] \in S OBVIOUS
  <2>2. s = Append(f, s[n + 1]) OBVIOUS
  <2>3. f \in P BY <1>2, <2>1
  <2> HIDE DEF f
  <2> QED BY <2>1, <2>2, <2>3
<1>3. \A n \in Nat : n \in N
  <2> HIDE DEF N
  <2> QED BY <1>1, <1>2, Induction
<1> QED BY <1>3

\* What the recursive function of Without is at n, given what it is before.
RestAt(f, s, X, n) ==
    IF n = 0 THEN <<>>
    ELSE IF s[n] \in X THEN f[n - 1]
    ELSE Append(f[n - 1], s[n])

\* The recursion of Without has a solution.
LEMMA RestExists ==
    ASSUME NEW s, NEW X
    PROVE  \A m \in Nat : \E f : f = [n \in 0 .. m |-> RestAt(f, s, X, n)]
<1> DEFINE P == {m \in Nat : \E f : f = [n \in 0 .. m |-> RestAt(f, s, X, n)]}
<1>1. 0 \in P
  <2> DEFINE f == [n \in 0 .. 0 |-> <<>>]
  <2>1. f = [n \in 0 .. 0 |-> RestAt(f, s, X, n)] BY DEF RestAt
  <2> QED BY <2>1
<1>2. ASSUME NEW m \in Nat, m \in P PROVE m + 1 \in P
  <2>1. PICK f : f = [n \in 0 .. m |-> RestAt(f, s, X, n)] BY <1>2
  <2> DEFINE g == [n \in 0 .. m + 1 |-> IF n = m + 1 THEN RestAt(f, s, X, m + 1) ELSE f[n]]
  <2>2. \A n \in 0 .. m : f[n] = RestAt(f, s, X, n) BY <2>1
  <2>3. \A n \in 0 .. m : g[n] = f[n] OBVIOUS
  <2>4. \A n \in 0 .. m + 1 : RestAt(f, s, X, n) = RestAt(g, s, X, n)
    <3> SUFFICES ASSUME NEW n \in 0 .. m + 1, n # 0 PROVE g[n - 1] = f[n - 1]
      BY DEF RestAt
    <3> QED BY <2>3
  <2>5. \A n \in 0 .. m + 1 : g[n] = RestAt(g, s, X, n)
    <3> SUFFICES ASSUME NEW n \in 0 .. m + 1 PROVE g[n] = RestAt(f, s, X, n)
      BY <2>4
    <3>1. CASE n = m + 1 BY <3>1
    <3>2. CASE n # m + 1
      <4>1. n \in 0 .. m BY <3>2
      <4> QED BY <4>1, <2>2, <2>3
    <3> QED BY <3>1, <3>2
  <2>6. g = [n \in 0 .. m + 1 |-> RestAt(g, s, X, n)]
    <3>1. g = [n \in 0 .. m + 1 |-> g[n]] OBVIOUS
    <3> HIDE DEF g
    <3> QED BY <2>5, <3>1
  <2> HIDE DEF g
  <2>7. \E h : h = [n \in 0 .. m + 1 |-> RestAt(h, s, X, n)] BY <2>6
  <2> QED BY <2>7
<1> HIDE DEF P
<1>3. \A m \in Nat : m \in P BY <1>1, <1>2, Induction
<1> QED BY <1>3 DEF P

Rest(s, X) == CHOOSE f : f = [n \in 0 .. Len(s) |-> RestAt(f, s, X, n)]

\* Without is that solution, taken at the length of the sequence.
LEMMA RestIs ==
    ASSUME NEW S, NEW s \in Seq(S), NEW X
    PROVE  /\ Without(s, X) = Rest(s, X)[Len(s)]
           /\ \A n \in 0 .. Len(s) : Rest(s, X)[n] = RestAt(Rest(s, X), s, X, n)
<1>1. Len(s) \in Nat OBVIOUS
<1>2. Rest(s, X) = [n \in 0 .. Len(s) |-> RestAt(Rest(s, X), s, X, n)]
  BY <1>1, RestExists DEF Rest
<1>3. Without(s, X) = Rest(s, X)[Len(s)] BY DEF Without, Rest, RestAt
<1> QED BY <1>2, <1>3

\* Nothing is left of nothing.
LEMMA WithoutEmpty == ASSUME NEW X PROVE Without(<<>>, X) = <<>>
<1>1. ASSUME NEW s \in Seq({}), Len(s) = 0 PROVE Without(s, X) = <<>>
  <2>1. 0 \in 0 .. Len(s) BY <1>1
  <2>2. Rest(s, X)[0] = RestAt(Rest(s, X), s, X, 0) BY <2>1, RestIs
  <2> QED BY <1>1, <2>2, RestIs DEF RestAt
<1>2. <<>> \in Seq({}) /\ Len(<<>>) = 0 OBVIOUS
<1> QED BY <1>1, <1>2, Zenon

\* An element that is put behind a sequence is left behind what is left of it,
\* or unwanted.
LEMMA WithoutAppend ==
    ASSUME NEW S, NEW s \in Seq(S), NEW e \in S, NEW X
    PROVE  Without(Append(s, e), X) =
              IF e \in X THEN Without(s, X) ELSE Append(Without(s, X), e)
<1> DEFINE t == Append(s, e)
           f == Rest(s, X)
           g == Rest(t, X)
           P == {n \in Nat : n <= Len(s) => g[n] = f[n]}
<1>1. t \in Seq(S) /\ Len(t) = Len(s) + 1 /\ Len(s) \in Nat OBVIOUS
<1>2. t[Len(s) + 1] = e /\ \A n \in 1 .. Len(s) : t[n] = s[n] OBVIOUS
<1> HIDE DEF t
<1>3. /\ Without(s, X) = f[Len(s)]
      /\ \A n \in 0 .. Len(s) : f[n] = RestAt(f, s, X, n)
  BY RestIs
<1>4. /\ Without(t, X) = g[Len(s) + 1]
      /\ \A n \in 0 .. Len(s) + 1 : g[n] = RestAt(g, t, X, n)
  BY <1>1, RestIs
<1> HIDE DEF f, g
<1>5. 0 \in P BY <1>1, <1>3, <1>4 DEF RestAt
<1>6. ASSUME NEW n \in Nat, n \in P PROVE n + 1 \in P
  <2> SUFFICES ASSUME n + 1 <= Len(s) PROVE g[n + 1] = f[n + 1]
    OBVIOUS
  <2>1. n + 1 \in 1 .. Len(s) /\ g[n] = f[n] /\ n + 1 # 0 /\ (n + 1) - 1 = n BY <1>1, <1>6
  <2>2. g[n + 1] = RestAt(g, t, X, n + 1) /\ f[n + 1] = RestAt(f, s, X, n + 1)
    BY <1>1, <1>3, <1>4, <2>1
  <2>3. t[n + 1] = s[n + 1] BY <1>2, <2>1
  <2> QED BY <2>1, <2>2, <2>3 DEF RestAt
<1>7. g[Len(s)] = f[Len(s)]
  <2>1. \A n \in Nat : n \in P
    <3> HIDE DEF P
    <3> QED BY <1>5, <1>6, Induction
  <2> QED BY <1>1, <2>1
<1>8. g[Len(s) + 1] = RestAt(g, t, X, Len(s) + 1) /\ (Len(s) + 1) - 1 = Len(s)
      /\ Len(s) + 1 # 0
  BY <1>1, <1>4
<1> QED BY <1>2, <1>3, <1>4, <1>7, <1>8 DEF RestAt, t

\* What the recursive function of FlattenSeq is at n, given what it is before.
FlatAt(f, ss, n) == IF n = 1 THEN ss[n] ELSE f[n - 1] \o ss[n]

\* The recursion of FlattenSeq has a solution.
LEMMA FlatExists ==
    ASSUME NEW ss
    PROVE  \A m \in Nat : \E f : f = [n \in 1 .. m |-> FlatAt(f, ss, n)]
<1> DEFINE P == {m \in Nat : \E f : f = [n \in 1 .. m |-> FlatAt(f, ss, n)]}
<1>1. 0 \in P
  <2> DEFINE f == [n \in 1 .. 0 |-> <<>>]
  <2>1. f = [n \in 1 .. 0 |-> FlatAt(f, ss, n)] OBVIOUS
  <2> HIDE DEF f
  <2>2. \E h : h = [n \in 1 .. 0 |-> FlatAt(h, ss, n)] BY <2>1
  <2> QED BY <2>2
<1>2. ASSUME NEW m \in Nat, m \in P PROVE m + 1 \in P
  <2>1. PICK f : f = [n \in 1 .. m |-> FlatAt(f, ss, n)] BY <1>2
  <2> DEFINE g == [n \in 1 .. m + 1 |-> IF n = m + 1 THEN FlatAt(f, ss, m + 1) ELSE f[n]]
  <2>2. \A n \in 1 .. m : f[n] = FlatAt(f, ss, n) BY <2>1
  <2>3. \A n \in 1 .. m : g[n] = f[n] OBVIOUS
  <2>4. \A n \in 1 .. m + 1 : FlatAt(f, ss, n) = FlatAt(g, ss, n)
    <3> SUFFICES ASSUME NEW n \in 1 .. m + 1, n # 1 PROVE g[n - 1] = f[n - 1]
      BY DEF FlatAt
    <3> QED BY <2>3
  <2>5. \A n \in 1 .. m + 1 : g[n] = FlatAt(g, ss, n)
    <3> SUFFICES ASSUME NEW n \in 1 .. m + 1 PROVE g[n] = FlatAt(f, ss, n)
      BY <2>4
    <3>1. CASE n = m + 1 BY <3>1
    <3>2. CASE n # m + 1
      <4>1. n \in 1 .. m BY <3>2
      <4> QED BY <4>1, <2>2, <2>3
    <3> QED BY <3>1, <3>2
  <2>6. g = [n \in 1 .. m + 1 |-> FlatAt(g, ss, n)]
    <3>1. g = [n \in 1 .. m + 1 |-> g[n]] OBVIOUS
    <3> HIDE DEF g
    <3> QED BY <2>5, <3>1
  <2> HIDE DEF g
  <2>7. \E h : h = [n \in 1 .. m + 1 |-> FlatAt(h, ss, n)] BY <2>6
  <2> QED BY <2>7
<1> HIDE DEF P
<1>3. \A m \in Nat : m \in P BY <1>1, <1>2, Induction
<1> QED BY <1>3 DEF P

Flat(ss) == CHOOSE f : f = [n \in 1 .. Len(ss) |-> FlatAt(f, ss, n)]

\* FlattenSeq is that solution, taken at the number of sequences.
LEMMA FlatIs ==
    ASSUME NEW S, NEW ss \in Seq(S), ss # <<>>
    PROVE  /\ FlattenSeq(ss) = Flat(ss)[Len(ss)]
           /\ \A n \in 1 .. Len(ss) : Flat(ss)[n] = FlatAt(Flat(ss), ss, n)
<1>1. Len(ss) \in Nat /\ Len(ss) # 0 OBVIOUS
<1>2. Flat(ss) = [n \in 1 .. Len(ss) |-> FlatAt(Flat(ss), ss, n)]
  BY <1>1, FlatExists DEF Flat
<1>3. FlattenSeq(ss) = Flat(ss)[Len(ss)] BY <1>1 DEF FlattenSeq, Flat, FlatAt
<1> QED BY <1>2, <1>3

\* No sequences are joined to none.
LEMMA FlattenEmpty == FlattenSeq(<<>>) = <<>>
BY DEF FlattenSeq

\* A sequence that is put behind others is appended to what they are joined to.
LEMMA FlattenAppend ==
    ASSUME NEW S, NEW ss \in Seq(Seq(S)), NEW e \in Seq(S), FlattenSeq(ss) \in Seq(S)
    PROVE  FlattenSeq(Append(ss, e)) = FlattenSeq(ss) \o e
<1> DEFINE t == Append(ss, e)
           f == Flat(ss)
           g == Flat(t)
           P == {n \in Nat : n + 1 <= Len(ss) => g[n + 1] = f[n + 1]}
<1>1. t \in Seq(Seq(S)) /\ Len(t) = Len(ss) + 1 /\ Len(ss) \in Nat /\ t # <<>>
  <2> DEFINE Q == Seq(S)
  <2>1. ss \in Seq(Q) /\ e \in Q OBVIOUS
  <2> HIDE DEF Q
  <2>2. t \in Seq(Q) /\ Len(t) = Len(ss) + 1 /\ Len(ss) \in Nat BY <2>1
  <2>3. t # <<>> BY <2>2
  <2> QED BY <2>2, <2>3 DEF Q
<1>2. t[Len(ss) + 1] = e /\ \A n \in 1 .. Len(ss) : t[n] = ss[n] OBVIOUS
<1> HIDE DEF t
<1>3. /\ FlattenSeq(t) = g[Len(ss) + 1]
      /\ \A n \in 1 .. Len(ss) + 1 : g[n] = FlatAt(g, t, n)
  BY <1>1, FlatIs
<1>4. CASE ss = <<>>
  <2>1. Len(ss) = 0 BY <1>4
  <2>2. FlattenSeq(t) = t[1] BY <1>3, <2>1 DEF FlatAt
  <2>3. FlattenSeq(t) = e BY <1>2, <2>1, <2>2
  <2>4. FlattenSeq(ss) = <<>> BY <1>4, FlattenEmpty
  <2> QED BY <2>3, <2>4 DEF t
<1>5. CASE ss # <<>>
  <2>1. /\ FlattenSeq(ss) = f[Len(ss)]
        /\ \A n \in 1 .. Len(ss) : f[n] = FlatAt(f, ss, n)
    BY <1>5, FlatIs
  <2>2. Len(ss) >= 1 BY <1>5
  <2> HIDE DEF f, g
  <2>3. 0 \in P BY <1>1, <1>2, <1>3, <2>1, <2>2 DEF FlatAt
  <2>4. ASSUME NEW n \in Nat, n \in P PROVE n + 1 \in P
    <3> SUFFICES ASSUME n + 2 <= Len(ss) PROVE g[n + 2] = f[n + 2]
      BY <1>1
    <3>1. n + 2 \in 1 .. Len(ss) /\ g[n + 1] = f[n + 1] /\ n + 2 # 1 /\ (n + 2) - 1 = n + 1
      BY <1>1, <2>4
    <3>2. g[n + 2] = FlatAt(g, t, n + 2) /\ f[n + 2] = FlatAt(f, ss, n + 2)
      BY <1>1, <1>3, <2>1, <3>1
    <3>3. t[n + 2] = ss[n + 2] BY <1>2, <3>1
    <3> QED BY <3>1, <3>2, <3>3 DEF FlatAt
  <2>5. g[Len(ss)] = f[Len(ss)]
    <3>1. \A n \in Nat : n \in P
      <4> HIDE DEF P
      <4> QED BY <2>3, <2>4, Induction
    <3>2. PICK k \in Nat : k + 1 = Len(ss)
      <4>1. Len(ss) - 1 \in Nat /\ (Len(ss) - 1) + 1 = Len(ss) BY <1>1, <2>2
      <4> QED BY <4>1
    <3>3. k \in P BY <3>1
    <3>4. g[k + 1] = f[k + 1] BY <1>1, <3>2, <3>3
    <3> QED BY <3>2, <3>4
  <2>6. /\ g[Len(ss) + 1] = FlatAt(g, t, Len(ss) + 1) /\ (Len(ss) + 1) - 1 = Len(ss)
        /\ Len(ss) + 1 # 1
    BY <1>1, <1>3, <2>2
  <2> QED BY <1>2, <1>3, <2>1, <2>5, <2>6 DEF FlatAt, t
<1> QED BY <1>4, <1>5

\* Sequences are joined to a sequence.
LEMMA FlattenType ==
    ASSUME NEW S
    PROVE  \A ss \in Seq(Seq(S)) : FlattenSeq(ss) \in Seq(S)
<1> DEFINE P == {ss \in Seq(Seq(S)) : FlattenSeq(ss) \in Seq(S)}
<1>1. <<>> \in P
  <2>1. <<>> \in Seq(Seq(S)) /\ <<>> \in Seq(S) OBVIOUS
  <2> QED BY <2>1, FlattenEmpty
<1>2. ASSUME NEW ss \in Seq(Seq(S)), NEW e \in Seq(S), ss \in P PROVE Append(ss, e) \in P
  <2>1. FlattenSeq(Append(ss, e)) = FlattenSeq(ss) \o e BY <1>2, FlattenAppend
  <2>2. FlattenSeq(ss) \o e \in Seq(S) BY <1>2
  <2>3. Append(ss, e) \in Seq(Seq(S))
    <3> DEFINE Q == Seq(S)
    <3>1. ss \in Seq(Q) /\ e \in Q OBVIOUS
    <3> HIDE DEF Q
    <3>2. Append(ss, e) \in Seq(Q) BY <3>1
    <3> QED BY <3>2 DEF Q
  <2> QED BY <2>1, <2>2, <2>3
<1> HIDE DEF P
<1>3. \A ss \in Seq(Seq(S)) : ss \in P BY <1>1, <1>2, Growing
<1> QED BY <1>3 DEF P

\* What is left are elements of the sequence that are not unwanted.
LEMMA WithoutType ==
    ASSUME NEW S, NEW X
    PROVE  \A s \in Seq(S) : Without(s, X) \in Seq(S \ X)
<1> DEFINE P == {s \in Seq(S) : Without(s, X) \in Seq(S \ X)}
<1>1. <<>> \in P
  <2>1. <<>> \in Seq(S) /\ <<>> \in Seq(S \ X) OBVIOUS
  <2> QED BY <2>1, WithoutEmpty
<1>2. ASSUME NEW s \in Seq(S), NEW e \in S, s \in P PROVE Append(s, e) \in P
  <2>1. Without(Append(s, e), X) =
           IF e \in X THEN Without(s, X) ELSE Append(Without(s, X), e)
    BY WithoutAppend
  <2>2. Without(s, X) \in Seq(S \ X) /\ Append(s, e) \in Seq(S) BY <1>2
  <2>3. CASE e \in X BY <2>1, <2>2, <2>3
  <2>4. CASE e \notin X
    <3>1. Append(Without(s, X), e) \in Seq(S \ X) BY <2>2, <2>4
    <3> QED BY <2>1, <2>2, <2>4, <3>1
  <2> QED BY <2>3, <2>4
<1> HIDE DEF P
<1>3. \A s \in Seq(S) : s \in P BY <1>1, <1>2, Growing
<1> QED BY <1>3 DEF P

\* Appending comes before or after joining.
LEMMA AppendConcat ==
    ASSUME NEW S, NEW s \in Seq(S), NEW t \in Seq(S), NEW e \in S
    PROVE  s \o Append(t, e) = Append(s \o t, e)
OBVIOUS

\* What is left of two sequences in a row is what is left of each, in a row.
LEMMA WithoutConcat ==
    ASSUME NEW S, NEW X, NEW s \in Seq(S)
    PROVE  \A t \in Seq(S) : Without(s \o t, X) = Without(s, X) \o Without(t, X)
<1> DEFINE P == {t \in Seq(S) : Without(s \o t, X) = Without(s, X) \o Without(t, X)}
           a == Without(s, X)
<1>0. a \in Seq(S \ X) BY WithoutType
<1>1. <<>> \in P
  <2>1. <<>> \in Seq(S) /\ s \o <<>> = s OBVIOUS
  <2>2. a \o <<>> = a
    <3> HIDE DEF a
    <3> QED BY <1>0
  <2> QED BY <2>1, <2>2, WithoutEmpty
<1>2. ASSUME NEW t \in Seq(S), NEW e \in S, t \in P PROVE Append(t, e) \in P
  <2> DEFINE b == Without(t, X)
             c == s \o t
  <2>1. b \in Seq(S \ X) BY WithoutType
  <2>2. Append(t, e) \in Seq(S) /\ s \o Append(t, e) = Append(c, e) /\ c \in Seq(S) OBVIOUS
  <2>3. Without(c, X) = a \o b BY <1>2
  <2>4. Without(Append(c, e), X) = IF e \in X THEN a \o b ELSE Append(a \o b, e)
    <3> HIDE DEF a, b, c, P
    <3>1. Without(Append(c, e), X) = IF e \in X THEN Without(c, X) ELSE Append(Without(c, X), e)
      BY <2>2, WithoutAppend
    <3> QED BY <2>3, <3>1, Zenon
  <2>5. Without(Append(t, e), X) = IF e \in X THEN b ELSE Append(b, e)
    BY WithoutAppend
  <2>6. e \notin X => Append(a \o b, e) = a \o Append(b, e)
    <3> HIDE DEF a, b
    <3> SUFFICES ASSUME e \in S \ X PROVE Append(a \o b, e) = a \o Append(b, e)
      OBVIOUS
    <3> DEFINE R == S \ X
    <3>1. a \in Seq(R) /\ b \in Seq(R) /\ e \in R BY <1>0, <2>1
    <3> HIDE DEF R, P
    <3>2. a \o Append(b, e) = Append(a \o b, e) BY <3>1, SMT
    <3> QED BY <3>2
  <2>7. Without(Append(c, e), X) = a \o Without(Append(t, e), X)
    <3> HIDE DEF a, b, c
    <3>1. CASE e \in X BY <2>4, <2>5, <3>1
    <3>2. CASE e \notin X BY <2>4, <2>5, <2>6, <3>2
    <3> QED BY <3>1, <3>2
  <2> QED
    <3> HIDE DEF c
    <3> QED BY <2>2, <2>7
<1> HIDE DEF P
<1>3. \A t \in Seq(S) : t \in P BY <1>1, <1>2, Growing
<1> QED BY <1>3 DEF P

\* Sequences none of which is empty are joined to one that is as long as they
\* are many only if each has one element.
LEMMA FlattenLength ==
    ASSUME NEW S
    PROVE  \A ss \in Seq(Seq(S) \ {<<>>}) :
              /\ Len(FlattenSeq(ss)) >= Len(ss)
              /\ Len(FlattenSeq(ss)) = Len(ss) =>
                    \A n \in 1 .. Len(ss) : ss[n] = <<FlattenSeq(ss)[n]>>
<1> DEFINE Q == Seq(S) \ {<<>>}
           Single(ss) == \A n \in 1 .. Len(ss) : ss[n] = <<FlattenSeq(ss)[n]>>
           P == {ss \in Seq(Q) : /\ FlattenSeq(ss) \in Seq(S)
                                 /\ Len(FlattenSeq(ss)) >= Len(ss)
                                 /\ Len(FlattenSeq(ss)) = Len(ss) => Single(ss)}
<1>1. <<>> \in P
  <2>1. <<>> \in Seq(Q) /\ <<>> \in Seq(S) /\ Len(<<>>) = 0 OBVIOUS
  <2>2. Single(<<>>) OBVIOUS
  <2>3. Len(FlattenSeq(<<>>)) >= Len(<<>>) BY <2>1, FlattenEmpty
  <2> HIDE DEF Q, Single
  <2> QED BY <2>1, <2>2, <2>3, FlattenEmpty, Zenon
<1>2. ASSUME NEW ss \in Seq(Q), NEW e \in Q, ss \in P PROVE Append(ss, e) \in P
  <2> DEFINE f == FlattenSeq(ss)
             t == Append(ss, e)
  <2>1. f \in Seq(S) /\ Len(f) >= Len(ss) /\ (Len(f) = Len(ss) => Single(ss)) BY <1>2
  <2>2. e \in Seq(S) /\ Len(e) >= 1 OBVIOUS
  <2>3. FlattenSeq(t) = f \o e
    <3>1. ss \in Seq(Seq(S)) OBVIOUS
    <3> QED BY <2>1, <2>2, <3>1, FlattenAppend
  <2>4. /\ t \in Seq(Q) /\ Len(t) = Len(ss) + 1 /\ Len(ss) \in Nat
        /\ t[Len(ss) + 1] = e /\ \A n \in 1 .. Len(ss) : t[n] = ss[n]
    <3> HIDE DEF Q
    <3> QED OBVIOUS
  <2> HIDE DEF Q, f, t
  <2>5. f \o e \in Seq(S) /\ Len(f \o e) = Len(f) + Len(e) BY <2>1, <2>2
  <2>6. Len(f \o e) >= Len(t) BY <2>1, <2>2, <2>4, <2>5
  <2>7. ASSUME Len(f \o e) = Len(t), NEW n \in 1 .. Len(t) PROVE t[n] = <<(f \o e)[n]>>
    <3>1. Len(f) = Len(ss) /\ Len(e) = 1
      <4> DEFINE lf == Len(f)
                 le == Len(e)
                 ls == Len(ss)
      <4>1. lf \in Nat /\ le \in Nat /\ lf >= ls /\ le >= 1 BY <2>1, <2>2
      <4>2. lf + le = ls + 1 /\ ls \in Nat BY <2>4, <2>5, <2>7
      <4> HIDE DEF lf, le, ls
      <4>3. lf = ls /\ le = 1 BY <4>1, <4>2
      <4> QED BY <4>3 DEF lf, le, ls
    <3>2. CASE n = Len(ss) + 1
      <4>1. (f \o e)[n] = e[1]
        <5>1. f \in Seq(S) /\ e \in Seq(S) /\ Len(e) = 1 /\ n = Len(f) + 1
          BY <2>1, <2>2, <3>1, <3>2
        <5> HIDE DEF P
        <5>2. Len(f) \in Nat /\ Len(f) + 1 \in 1 .. Len(f) + Len(e) /\ Len(f) + 1 - Len(f) = 1
              /\ ~(Len(f) + 1 <= Len(f))
          BY <5>1
        <5>3. (f \o e)[Len(f) + 1] = e[(Len(f) + 1) - Len(f)] BY <5>1, <5>2, ConcatProperties
        <5> QED BY <5>1, <5>2, <5>3
      <4>2. e = <<e[1]>> BY <2>2, <3>1
      <4> QED BY <2>4, <3>2, <4>1, <4>2
    <3>3. CASE n # Len(ss) + 1
      <4>1. n \in 1 .. Len(ss) BY <2>4, <3>3
      <4>2. (f \o e)[n] = f[n] BY <2>1, <2>2, <3>1, <4>1
      <4>3. ss[n] = <<f[n]>> BY <2>1, <3>1, <4>1 DEF f
      <4> QED BY <2>4, <4>1, <4>2, <4>3
    <3> QED BY <3>2, <3>3
  <2>8. Len(f \o e) = Len(t) => Single(t) BY <2>3, <2>7
  <2> HIDE DEF Single
  <2> QED BY <2>3, <2>4, <2>5, <2>6, <2>8 DEF t
<1> HIDE DEF P, Q
<1>3. \A ss \in Seq(Q) : ss \in P BY <1>1, <1>2, Growing
<1> QED BY <1>3 DEF P, Q

-----------------------------------------------------------------------------
(***************************************************************************)
(* The source and the call.                                                *)
(***************************************************************************)
\* What has been opened is what the command line names, and has been checked.
Opened ==
    IF args.audio = <<>>
    THEN source[1].rate = 16000 /\ ~args.sync
    ELSE /\ Samples16BitMono(args.audio[1])
         /\ source[1].rate = args.audio[1].rate
         /\ source[1].size = args.audio[1].size

\* The source is opened before the call is made, and there is one for a
\* synchronous call only if a file was named.
SourceInv ==
    /\ pc \in {"load", "open"} => (pc = "load" <=> args.sync)
    /\ pc = "load" => args.audio # <<>>
    /\ pc \in {"channel", "health", "mode", "load", "open", "call"} => call = <<>>
    /\ pc = "call" => Opened

IInv == SourceInv /\ OnlyLegalAudio

\* The configuration carries the rate it is given.
LEMMA ConfigRate ==
    ASSUME NEW rate, NEW a
    PROVE  /\ build_recognition_config(rate, a).encoding = "LINEAR16"
           /\ build_recognition_config(rate, a).sample_rate_hertz = rate
BY DEF build_recognition_config, UnsetRecognitionConfig

\* So does the request made of it for a whole file, with the audio.
LEMMA SyncRequest ==
    ASSUME NEW rate, NEW content, NEW a
    PROVE  LET request == build_sync_request(rate, content, a)
           IN  /\ request.config.encoding = "LINEAR16"
               /\ request.config.sample_rate_hertz = rate
               /\ request.audio.content = content
BY ConfigRate DEF build_sync_request

\* So does the first request of a stream.
LEMMA StreamingRequest ==
    ASSUME NEW rate, NEW a
    PROVE  LET config == build_configuration_request(rate, a).streaming_config.config
           IN  config.encoding = "LINEAR16" /\ config.sample_rate_hertz = rate
BY DEF build_configuration_request, build_recognition_config, UnsetRecognitionConfig

\* Every step keeps what holds of the opened source.
LEMMA SourceStep == ASSUME IInv, [Next]_vars PROVE SourceInv'
<1> USE DEF IInv, SourceInv, Opened, Goto, Exit
<1>1. CASE create_channel BY <1>1 DEF create_channel
<1>2. CASE check_health BY <1>2 DEF check_health, audioVars
<1>3. CASE ChoosesMode
  <2>1. UNCHANGED <<args, source, call>> /\ call = <<>> BY <1>3 DEF ChoosesMode, audioVars
  <2>2. CASE Exit(0) \/ Exit(1) BY <2>1, <2>2
  <2>3. CASE HasSource /\ args.sync /\ pc' = "load" BY <2>1, <2>3 DEF HasSource
  <2>4. CASE ~args.sync /\ pc' = "open" BY <2>1, <2>4
  <2> QED BY <1>3, <2>2, <2>3, <2>4 DEF ChoosesMode
<1>4. CASE AudioLoader BY <1>4 DEF AudioLoader, Samples16BitMono
<1>5. CASE AudioStream BY <1>5 DEF AudioStream, Samples16BitMono
<1>6. CASE OpensMicrophone BY <1>6 DEF OpensMicrophone
<1>7. CASE CallsRecognize BY <1>7 DEF CallsRecognize
<1>8. CASE CallsStreamingRecognize BY <1>8 DEF CallsStreamingRecognize
<1>9. CASE Prints BY <1>9 DEF Prints
<1>10. CASE Feeds BY <1>10 DEF Feeds, FeedsFile, FeedEnds
<1>11. CASE Answers
  BY <1>11 DEF Answers, ReceivesRecognizeResponse, ReceivesStreamingResponse, StreamEnds,
               CallFails, InCall
<1>12. CASE UNCHANGED vars BY <1>12 DEF vars, audioVars
<1> QED
  BY <1>1, <1>2, <1>3, <1>4, <1>5, <1>6, <1>7, <1>8, <1>9, <1>10, <1>11, <1>12
  DEF Next, MainThread

\* Every step keeps what holds of the call; two steps make it.
LEMMA CallStep == ASSUME IInv, [Next]_vars PROVE OnlyLegalAudio'
<1> USE DEF IInv, SourceInv, Opened
<1>1. CASE CallsRecognize
  <2> DEFINE request == build_sync_request(source[1].rate, <<0, source[1].size>>, args)
  <2>1. pc = "call" /\ args.sync /\ args' = args BY <1>1 DEF CallsRecognize
  <2>2. call'[1].request = request BY <1>1 DEF CallsRecognize
  <2>3. /\ request.config.encoding = "LINEAR16"
        /\ request.config.sample_rate_hertz = source[1].rate
        /\ request.audio.content = <<0, source[1].size>>
    BY SyncRequest
  <2> HIDE DEF request
  <2> QED BY <2>1, <2>2, <2>3 DEF OnlyLegalAudio
<1>2. CASE CallsStreamingRecognize
  <2> DEFINE request == build_configuration_request(source[1].rate, args)
  <2>1. pc = "call" /\ ~args.sync /\ args' = args BY <1>2 DEF CallsStreamingRecognize
  <2>2. call'[1].request = request BY <1>2 DEF CallsStreamingRecognize
  <2>3. /\ request.streaming_config.config.encoding = "LINEAR16"
        /\ request.streaming_config.config.sample_rate_hertz = source[1].rate
    BY StreamingRequest
  <2> HIDE DEF request
  <2> QED BY <2>1, <2>2, <2>3 DEF OnlyLegalAudio
<1>3. CASE UNCHANGED <<args, call>> BY <1>3 DEF OnlyLegalAudio
<1>4. CASE MainThread /\ ~CallsRecognize /\ ~CallsStreamingRecognize
  <2>1. CASE create_channel BY <1>3, <2>1 DEF create_channel
  <2>2. CASE check_health BY <1>3, <2>2 DEF check_health
  <2>3. CASE ChoosesMode BY <1>3, <2>3 DEF ChoosesMode
  <2>4. CASE AudioLoader BY <1>3, <2>4 DEF AudioLoader
  <2>5. CASE AudioStream BY <1>3, <2>5 DEF AudioStream
  <2>6. CASE OpensMicrophone BY <1>3, <2>6 DEF OpensMicrophone
  <2>7. CASE Prints BY <1>3, <2>7 DEF Prints
  <2> QED BY <1>4, <2>1, <2>2, <2>3, <2>4, <2>5, <2>6, <2>7 DEF MainThread
<1>5. CASE Feeds BY <1>3, <1>5 DEF Feeds, FeedsFile, FeedEnds
<1>6. CASE Answers
  <2>1. CASE ReceivesRecognizeResponse BY <1>3, <2>1 DEF ReceivesRecognizeResponse
  <2>2. CASE ReceivesStreamingResponse BY <1>3, <2>2 DEF ReceivesStreamingResponse
  <2>3. CASE StreamEnds \/ CallFails BY <1>3, <2>3 DEF StreamEnds, CallFails
  <2> QED BY <1>6, <2>1, <2>2, <2>3 DEF Answers
<1>7. CASE UNCHANGED vars BY <1>3, <1>7 DEF vars
<1> QED BY <1>1, <1>2, <1>4, <1>5, <1>6, <1>7 DEF Next

-----------------------------------------------------------------------------
(***************************************************************************)
(* Hypotheses and results.                                                 *)
(***************************************************************************)
\* The words of the infos.
WordsOf(infos) == [n \in 1 .. Len(infos) |-> infos[n].word]

\* The words of the infos that are not silence are the words that are not.
LEMMA SpokenWords ==
    \A words \in Seq(Text) :
        /\ WordInfos(words) \in Seq(WordInfo)
        /\ WordsOf(Without(WordInfos(words), Silence)) = Without(words, {<<Eps>>})
<1> DEFINE P == {words \in Seq(Text) :
                    /\ WordInfos(words) \in Seq(WordInfo)
                    /\ WordsOf(Without(WordInfos(words), Silence)) = Without(words, {<<Eps>>})}
<1>1. <<>> \in P
  <2>1. <<>> \in Seq(Text) /\ <<>> \in Seq(WordInfo) OBVIOUS
  <2>2. WordInfos(<<>>) = <<>> BY DEF WordInfos
  <2>3. WordsOf(<<>>) = <<>> BY DEF WordsOf
  <2> QED BY <2>1, <2>2, <2>3, WithoutEmpty
<1>2. ASSUME NEW words \in Seq(Text), NEW w \in Text, words \in P PROVE Append(words, w) \in P
  <2> DEFINE infos == WordInfos(words)
             info == [start_time |-> Len(words), end_time |-> Len(words) + 1, word |-> w]
             left == Without(infos, Silence)
             t == Append(words, w)
  <2>1. infos \in Seq(WordInfo) /\ WordsOf(left) = Without(words, {<<Eps>>}) BY <1>2
  <2>2. t \in Seq(Text) /\ Len(t) = Len(words) + 1 /\ Len(words) \in Nat OBVIOUS
  <2>3. WordInfos(t) = Append(infos, info) BY DEF WordInfos
  <2>4. info \in WordInfo BY <2>2 DEF WordInfo, Duration
  <2>5. info \in Silence <=> w = <<Eps>> BY <2>2 DEF Silence, Duration
  <2>6. info.word = w OBVIOUS
  <2>7. left \in Seq(WordInfo)
    <3>1. left \in Seq(WordInfo \ Silence) BY <2>1, WithoutType
    <3> QED BY <3>1
  <2> HIDE DEF infos, info, left
  <2>8. Without(Append(infos, info), Silence) =
           IF w = <<Eps>> THEN left ELSE Append(left, info)
    BY <2>1, <2>4, <2>5, WithoutAppend DEF left
  <2>9. Without(t, {<<Eps>>}) =
           IF w = <<Eps>> THEN WordsOf(left) ELSE Append(WordsOf(left), w)
    BY <2>1, WithoutAppend
  <2>10. WordsOf(Append(left, info)) = Append(WordsOf(left), w)
    BY <2>4, <2>6, <2>7 DEF WordsOf
  <2>11. Append(infos, info) \in Seq(WordInfo) BY <2>1, <2>4
  <2>12. WordsOf(Without(Append(infos, info), Silence)) = Without(t, {<<Eps>>})
    BY <2>8, <2>9, <2>10
  <2> HIDE DEF t
  <2> QED BY <2>2, <2>3, <2>11, <2>12 DEF t
<1> HIDE DEF P
<1>3. \A words \in Seq(Text) : words \in P BY <1>1, <1>2, Growing
<1> QED BY <1>3 DEF P

\* The words of infos made of words are these words.
LEMMA WordsBack == ASSUME NEW words \in Seq(Text) PROVE WordsOf(WordInfos(words)) = words
<1>1. Len(words) \in Nat /\ words = [n \in 1 .. Len(words) |-> words[n]] OBVIOUS
<1>2. Len(WordInfos(words)) = Len(words) /\ \A n \in 1 .. Len(words) : WordInfos(words)[n].word = words[n]
  BY <1>1 DEF WordInfos
<1> QED BY <1>1, <1>2 DEF WordsOf

\* What the words of a hypothesis spell.
Spelling(h) == FlattenSeq(Without(WordsOf(h.words), {<<Eps>>}))

\* What the service gives as a hypothesis, with or without its words.
Hypothesis ==
    UNION {{[transcript |-> said.transcript, words |-> w] : w \in {WordInfos(said.words), <<>>}} :
              said \in Utterance}

\* What the options are.
LEMMA OptionTypes ==
    ASSUME args \in Args
    PROVE  args.max_alternatives \in Int /\ args.time_offsets \in BOOLEAN /\ args.sync \in BOOLEAN
<1>1. MaxInt32 \in Nat BY SMT DEF MaxInt32
<1>2. args.max_alternatives \in Int32 BY PyProgramAssumption
<1>3. args.max_alternatives \in Int BY <1>1, <1>2 DEF Int32
<1>4. {args.time_offsets, args.sync} \subseteq BOOLEAN BY PyProgramAssumption
<1> QED BY <1>3, <1>4

\* The alternatives of a result are such hypotheses, no more than were asked for.
LEMMA AlternativesAre ==
    ASSUME args \in Args
    PROVE  \A a \in Alternatives :
              /\ a \in Seq(Hypothesis)
              /\ args.max_alternatives > 0 => Len(a) <= args.max_alternatives
<1> DEFINE max  == args.max_alternatives
           Most == IF max > 1 THEN max ELSE 1
<1>1. max \in Int /\ Most \in Nat /\ (max > 0 => Most = max) BY OptionTypes
<1> DEFINE Offered(said, i, lower) ==
              [transcript |-> said[i].transcript,
               words |-> IF args.time_offsets /\ (i = 1 \/ lower)
                         THEN WordInfos(said[i].words) ELSE <<>>]
           Offer(n, said, lower) == [i \in 1 .. n |-> Offered(said, i, lower)]
<1>0. Alternatives = UNION {{Offer(n, said, lower) :
                               said \in [1 .. n -> Utterance], lower \in BOOLEAN} : n \in 0 .. Most}
  BY DEF Alternatives
<1> HIDE DEF Most, max
<1> SUFFICES ASSUME NEW n \in 0 .. Most, NEW said \in [1 .. n -> Utterance],
                    NEW lower \in BOOLEAN
             PROVE  /\ Offer(n, said, lower) \in Seq(Hypothesis)
                    /\ max > 0 => Len(Offer(n, said, lower)) <= max
  <2> HIDE DEF Offer
  <2> QED BY <1>0 DEF max
<1>2. n \in Nat BY <1>1
<1>3. ASSUME NEW i \in 1 .. n PROVE Offered(said, i, lower) \in Hypothesis
  <2> DEFINE u == said[i]
  <2>1. u \in Utterance OBVIOUS
  <2>2. Offered(said, i, lower) \in {[transcript |-> u.transcript, words |-> WordInfos(u.words)],
                                   [transcript |-> u.transcript, words |-> <<>>]}
    OBVIOUS
  <2> HIDE DEF u, Offered
  <2>3. /\ [transcript |-> u.transcript, words |-> WordInfos(u.words)] \in Hypothesis
        /\ [transcript |-> u.transcript, words |-> <<>>] \in Hypothesis
    BY <2>1 DEF Hypothesis
  <2> QED BY <2>2, <2>3
<1> HIDE DEF Offered
<1>4. Offer(n, said, lower) \in Seq(Hypothesis) BY <1>2, <1>3
<1>5. Len(Offer(n, said, lower)) = n BY <1>2
<1> QED BY <1>1, <1>4, <1>5

\* The words of a hypothesis are not empty, and those that are spoken are what
\* they spell.
LEMMA HypothesisIs ==
    ASSUME NEW h \in Hypothesis
    PROVE  /\ h.transcript \in Text
           /\ h.words \in Seq(WordInfo)
           /\ \A n \in 1 .. Len(h.words) : h.words[n].word # <<>>
           /\ FlattenSeq(WordsOf(Without(h.words, Silence))) = Spelling(h)
           /\ Spelling(h) \in Text
<1>1. PICK u \in Utterance : /\ h.transcript = u.transcript
                             /\ h.words \in {WordInfos(u.words), <<>>}
  BY DEF Hypothesis
<1> DEFINE Q    == Text \ {<<>>}
           said == IF h.words = <<>> THEN <<>> ELSE u.words
<1>2. u.transcript \in Text /\ u.words \in Seq(Q)
  <2>1. u \in [transcript : Text, words : Seq(Q)] BY PyProgramAssumption
  <2> HIDE DEF Q
  <2> QED BY <2>1
<1>3. said \in Seq(Q)
  <2>1. <<>> \in Seq(Q) OBVIOUS
  <2> QED BY <1>2, <2>1
<1>4. h.words = WordInfos(said)
  <2>1. WordInfos(<<>>) = <<>> BY DEF WordInfos
  <2> QED BY <1>1, <2>1
<1> HIDE DEF said
<1>5. said \in Seq(Text) /\ \A n \in 1 .. Len(said) : said[n] # <<>>
  <2>1. Q \subseteq Text /\ <<>> \notin Q OBVIOUS
  <2> HIDE DEF Q
  <2> QED BY <1>3, <2>1
<1> HIDE DEF Q
<1>6. /\ h.words \in Seq(WordInfo)
      /\ WordsOf(Without(h.words, Silence)) = Without(said, {<<Eps>>})
      /\ WordsOf(h.words) = said
  BY <1>4, <1>5, SpokenWords, WordsBack
<1>7. Spelling(h) \in Text
  <2> DEFINE R == Text \ {<<Eps>>}
  <2>1. Without(said, {<<Eps>>}) \in Seq(R) BY <1>5, WithoutType
  <2>2. R \subseteq Text OBVIOUS
  <2> HIDE DEF R
  <2>3. Without(said, {<<Eps>>}) \in Seq(Text) BY <2>1, <2>2
  <2> QED BY <1>6, <2>3, FlattenType DEF Spelling, Text
<1>8. \A n \in 1 .. Len(h.words) : h.words[n].word # <<>>
  <2>1. Len(h.words) = Len(said) /\ \A n \in 1 .. Len(said) : h.words[n].word = said[n]
    BY <1>4, <1>5 DEF WordInfos
  <2> QED BY <1>5, <2>1
<1> QED BY <1>1, <1>2, <1>6, <1>7, <1>8 DEF Spelling

\* The text of a final result: what the words spell, or the transcript.
LEMMA ResultText ==
    ASSUME NEW h \in Hypothesis, NEW a
    PROVE  FinalResult(h, a).transcript = IF a.time_offsets THEN Spelling(h) ELSE h.transcript
<1>1. FinalResult(h, a).transcript =
         IF a.time_offsets THEN FlattenSeq(WordsOf(Without(h.words, Silence))) ELSE h.transcript
  BY DEF FinalResult, WordsOf
<1> QED BY <1>1, HypothesisIs, Zenon

\* A line put beside a word is one that the words give.
TimesOf(words, line) ==
    \E w \in ToSet(words) : w.word = <<line[1]>> /\ <<w.start_time, w.end_time>> = line[2]

\* What is left of a sequence are elements of it.
LEMMA WithoutFrom ==
    ASSUME NEW S, NEW s \in Seq(S), NEW X, NEW e \in ToSet(Without(s, X))
    PROVE  e \in S /\ e \notin X
<1> DEFINE R == S \ X
<1>1. Without(s, X) \in Seq(R) BY WithoutType
<1> HIDE DEF R
<1>2. e \in R BY <1>1 DEF ToSet
<1> QED BY <1>2 DEF R

\* A sequence has elements of its own.
LEMMA OwnElements == ASSUME NEW S, NEW s \in Seq(S) PROVE s \in Seq(ToSet(s))
<1>1. \A n \in 1 .. Len(s) : s[n] \in ToSet(s) BY DEF ToSet
<1> QED BY <1>1

\* An entry without times is printed without them.
LEMMA NoTimesPrinted ==
    ASSUME NEW x, x.transcript \in Text, x.alignment = NoTimes
    PROVE  ToSet(Printed(x).times) = {}
<1>1. CASE Len(x.transcript) # 1
  <2>1. Printed(x).times = <<>> BY <1>1 DEF Printed, NoTimes
  <2> QED BY <2>1 DEF ToSet
<1>2. CASE Len(x.transcript) = 1
  <2> DEFINE line == <<x.transcript[1], <<>>>>
             X == Token \X {<<>>}
  <2>1. Zip(x.transcript, NoTimes) = <<line>> BY <1>2 DEF Zip, NoTimes
  <2>2. line \in X BY <1>2 DEF Text
  <2>3. Printed(x).times = Without(<<line>>, X) BY <1>2, <2>1 DEF Printed, NoTimes
  <2>4. <<line>> \in Seq(X) BY <2>2
  <2> HIDE DEF line, X
  <2> QED BY <2>3, <2>4, WithoutFrom
<1> QED BY <1>1, <1>2

\* The entry made of a final hypothesis is of the right types, and its times are
\* printed beside their words.
LEMMA ResultIs ==
    ASSUME NEW h \in Hypothesis, NEW a
    PROVE  LET x == FinalResult(h, a)
           IN  /\ x.transcript \in Text
               /\ x.alignment = NoTimes \/ x.alignment \in Seq(Duration \X Duration)
               /\ \A line \in ToSet(Printed(x).times) : TimesOf(h.words, line)
<1> DEFINE x      == FinalResult(h, a)
           spoken == Without(h.words, Silence)
           times  == [n \in 1 .. Len(spoken) |-> <<spoken[n].start_time, spoken[n].end_time>>]
<1>1. /\ h.transcript \in Text /\ h.words \in Seq(WordInfo) /\ Spelling(h) \in Text
      /\ \A n \in 1 .. Len(h.words) : h.words[n].word # <<>>
  BY HypothesisIs
<1>2. x.transcript \in Text BY <1>1, ResultText
<1>3. x.alignment = IF a.time_offsets /\ times # <<>> THEN times ELSE NoTimes
  BY DEF FinalResult
<1>4. spoken \in Seq(ToSet(h.words))
  <2> DEFINE A == ToSet(h.words)
             B == A \ Silence
  <2>1. h.words \in Seq(A) BY <1>1, OwnElements
  <2>2. spoken \in Seq(B) BY <2>1, WithoutType
  <2>3. B \subseteq A OBVIOUS
  <2> HIDE DEF A, B, spoken
  <2>4. spoken \in Seq(A) BY <2>2, <2>3
  <2> QED BY <2>4 DEF A
<1>5. \A w \in ToSet(h.words) : w \in WordInfo /\ w.word # <<>>
  <2>1. DOMAIN h.words = 1 .. Len(h.words) BY <1>1
  <2> QED BY <1>1, <2>1 DEF ToSet
<1> HIDE DEF spoken
<1>6. /\ Len(spoken) \in Nat
      /\ \A n \in 1 .. Len(spoken) : spoken[n] \in ToSet(h.words)
  <2> DEFINE A == ToSet(h.words)
  <2> HIDE DEF A
  <2> SUFFICES spoken \in Seq(A) => Len(spoken) \in Nat /\ \A n \in 1 .. Len(spoken) : spoken[n] \in A
    BY <1>4 DEF A
  <2> QED OBVIOUS
<1>7. /\ times \in Seq(Duration \X Duration) /\ Len(times) = Len(spoken)
      /\ \A n \in 1 .. Len(spoken) : times[n] = <<spoken[n].start_time, spoken[n].end_time>>
  <2>1. \A n \in 1 .. Len(spoken) :
           <<spoken[n].start_time, spoken[n].end_time>> \in Duration \X Duration
    BY <1>5, <1>6 DEF WordInfo
  <2> QED BY <1>6, <2>1
<1>8. x.alignment = NoTimes \/ x.alignment \in Seq(Duration \X Duration)
  BY <1>3, <1>7
<1>9. CASE ~(a.time_offsets /\ times # <<>>)
  <2>1. x.alignment = NoTimes BY <1>3, <1>9
  <2>2. ToSet(Printed(x).times) = {}
    <3> HIDE DEF x
    <3> QED BY <1>2, <2>1, NoTimesPrinted
  <2> QED BY <1>2, <1>8, <2>2
<1>10. CASE a.time_offsets /\ times # <<>>
  <2> DEFINE text  == x.transcript
             ws    == WordsOf(spoken)
             lines == [n \in 1 .. Len(spoken) |-> <<text[n], times[n]>>]
  <2>1. x.alignment = times BY <1>3, <1>10
  <2>2. text = FlattenSeq(ws) BY <1>10 DEF FinalResult, WordsOf, spoken
  <2>3. ws \in Seq(Text \ {<<>>}) /\ Len(ws) = Len(spoken)
        /\ \A n \in 1 .. Len(spoken) : ws[n] = spoken[n].word
    <3>1. \A n \in 1 .. Len(spoken) : spoken[n].word \in Text \ {<<>>}
      BY <1>5, <1>6 DEF WordInfo
    <3> QED BY <1>6, <3>1 DEF WordsOf
  <2>4. Len(text) = Len(spoken) => \A n \in 1 .. Len(spoken) : ws[n] = <<text[n]>>
    BY <2>2, <2>3, FlattenLength DEF Text
  <2> HIDE DEF x, ws, times
  <2>5. CASE Len(text) # Len(spoken)
    <3>1. Printed(x).times = <<>> BY <1>7, <2>1, <2>5 DEF Printed
    <3>2. ToSet(Printed(x).times) = {} BY <3>1 DEF ToSet
    <3> QED BY <1>2, <1>8, <3>2 DEF x
  <2>6. CASE Len(text) = Len(spoken)
    <3>1. Zip(text, times) = lines BY <1>6, <1>7, <2>6 DEF Zip
    <3>2. Printed(x).times = Without(lines, Token \X {<<>>}) BY <1>7, <2>1, <2>6, <3>1 DEF Printed
    <3>3. lines \in Seq(ToSet(lines)) /\ ToSet(lines) = {<<text[n], times[n]>> : n \in 1 .. Len(spoken)}
      <4>1. lines \in Seq({<<text[n], times[n]>> : n \in 1 .. Len(spoken)}) BY <1>6
      <4>2. lines \in Seq(ToSet(lines))
        <5> HIDE DEF lines
        <5> QED BY <4>1, OwnElements
      <4> QED BY <4>2 DEF ToSet
    <3> HIDE DEF lines
    <3>4. ASSUME NEW line \in ToSet(Printed(x).times) PROVE TimesOf(h.words, line)
      <4>1. line \in ToSet(lines) BY <3>2, <3>3, WithoutFrom
      <4>2. PICK n \in 1 .. Len(spoken) : line = <<text[n], times[n]>> BY <3>3, <4>1
      <4>3. line[1] = text[n] /\ line[2] = times[n] BY <4>2
      <4>4. spoken[n].word = <<text[n]>> BY <2>3, <2>4, <2>6
      <4> QED BY <1>6, <1>7, <4>3, <4>4 DEF TimesOf
    <3> QED BY <1>2, <1>8, <3>4 DEF x
  <2> QED BY <2>5, <2>6
<1> QED BY <1>9, <1>10

\* A result as the recognizers keep it.
Entry == [transcript : Text, alignment : {NoTimes} \cup Seq(Duration \X Duration)]

Texts(entries) == [n \in 1 .. Len(entries) |-> entries[n].transcript]

\* The words and times that responses give.
Given(rs) ==
    UNION {ToSet(a.words) :
        a \in UNION {ToSet(x.alternatives) :
                  x \in UNION {ToSet(r.results) : r \in ToSet(rs)}}}

\* The times printed for an entry are among those given for their words.
Timed(x, infos) ==
    \A line \in ToSet(Printed(x).times) :
        \E w \in infos : w.word = <<line[1]>> /\ <<w.start_time, w.end_time>> = line[2]

\* The texts of the hypotheses that are looked at, and the entries made of them.
Shown(alternatives) ==
    [n \in {k \in 1 .. Len(alternatives) : k <= args.max_alternatives} |->
        IF args.time_offsets THEN Spelling(alternatives[n]) ELSE alternatives[n].transcript]

FinalEntries(alternatives) ==
    [i \in 1 .. Len(Considered(alternatives, args)) |->
        FinalResult(Considered(alternatives, args)[i], args)]

\* The hypotheses considered are the first ones, as many as were asked for.
LEMMA ConsideredAre ==
    ASSUME args \in Args, NEW S, NEW alts \in Seq(S)
    PROVE  LET some == Considered(alts, args)
           IN  /\ Len(some) \in Nat
               /\ {k \in 1 .. Len(alts) : k <= args.max_alternatives} = 1 .. Len(some)
               /\ \A n \in 1 .. Len(some) : some[n] = alts[n] /\ n \in 1 .. Len(alts)
<1> DEFINE max == args.max_alternatives
<1>1. max \in Int /\ Len(alts) \in Nat BY OptionTypes
<1>2. Considered(alts, args) = SubSeq(alts, 1, IF max < Len(alts) THEN max ELSE Len(alts))
  BY DEF Considered
<1> HIDE DEF max
<1> DEFINE m == IF max < Len(alts) THEN max ELSE Len(alts)
<1>3. m \in Int /\ m <= Len(alts) BY <1>1
<1>4. {k \in 1 .. Len(alts) : k <= max} = 1 .. m BY <1>1
<1>5. CASE m >= 1
  <2>1. Len(SubSeq(alts, 1, m)) = m /\ \A n \in 1 .. m : SubSeq(alts, 1, m)[n] = alts[n]
    BY <1>1, <1>3, <1>5
  <2> QED BY <1>1, <1>2, <1>3, <1>4, <1>5, <2>1 DEF max
<1>6. CASE ~(m >= 1)
  <2>1. SubSeq(alts, 1, m) = <<>> /\ 1 .. m = {} BY <1>1, <1>3, <1>6
  <2>2. Considered(alts, args) = SubSeq(alts, 1, m) BY <1>2 DEF max
  <2> HIDE DEF m
  <2>3. Considered(alts, args) = <<>> BY <2>1, <2>2
  <2>4. Len(Considered(alts, args)) = 0 BY <2>3
  <2> QED BY <1>4, <2>1, <2>4 DEF max
<1> QED BY <1>5, <1>6

\* A function on an interval is a sequence of its values.
LEMMA SequenceOf ==
    ASSUME NEW S, NEW m \in Nat, NEW f, f = [n \in 1 .. m |-> f[n]], \A n \in 1 .. m : f[n] \in S
    PROVE  f \in Seq(S) /\ Len(f) = m
OBVIOUS

\* The entries of a final result have the texts that are shown, in their order,
\* and times given for their words.
LEMMA FinalEntriesAre ==
    ASSUME args \in Args, NEW alts \in Seq(Hypothesis)
    PROVE  LET es == FinalEntries(alts)
           IN  /\ es \in Seq(Entry)
               /\ Shown(alts) \in Seq(Text) /\ Texts(es) = Shown(alts)
               /\ \A n \in 1 .. Len(es) : Timed(es[n], UNION {ToSet(h.words) : h \in ToSet(alts)})
<1> DEFINE some == Considered(alts, args)
           es   == FinalEntries(alts)
<1>1. /\ Len(some) \in Nat
      /\ {k \in 1 .. Len(alts) : k <= args.max_alternatives} = 1 .. Len(some)
      /\ \A n \in 1 .. Len(some) : some[n] = alts[n] /\ n \in 1 .. Len(alts)
  BY ConsideredAre
<1>2. \A n \in 1 .. Len(alts) : alts[n] \in Hypothesis /\ alts[n] \in ToSet(alts) BY DEF ToSet
<1>3. es = [n \in 1 .. Len(some) |-> FinalResult(some[n], args)] BY DEF FinalEntries
<1>4. Shown(alts) = [n \in 1 .. Len(some) |->
                        IF args.time_offsets THEN Spelling(alts[n]) ELSE alts[n].transcript]
  BY <1>1 DEF Shown
<1> HIDE DEF some, es
<1>5. ASSUME NEW n \in 1 .. Len(some)
      PROVE  /\ es[n] \in Entry
             /\ es[n].transcript = IF args.time_offsets THEN Spelling(alts[n])
                                   ELSE alts[n].transcript
             /\ Timed(es[n], UNION {ToSet(h.words) : h \in ToSet(alts)})
  <2> DEFINE h == alts[n]
             x == FinalResult(h, args)
  <2>1. es[n] = x BY <1>1, <1>3
  <2>2. h \in Hypothesis /\ h \in ToSet(alts) BY <1>1, <1>2
  <2> HIDE DEF h
  <2>3. /\ x.transcript \in Text
        /\ x.alignment \in {NoTimes} \cup Seq(Duration \X Duration)
        /\ \A line \in ToSet(Printed(x).times) : TimesOf(h.words, line)
    BY <2>2, ResultIs
  <2>4. x = [transcript |-> x.transcript, alignment |-> x.alignment] BY DEF FinalResult
  <2>5. x.transcript = IF args.time_offsets THEN Spelling(h) ELSE h.transcript
    BY <2>2, ResultText
  <2> HIDE DEF x
  <2>6. x \in Entry BY <2>3, <2>4 DEF Entry
  <2>7. Timed(x, UNION {ToSet(g.words) : g \in ToSet(alts)})
    BY <2>2, <2>3 DEF Timed, TimesOf
  <2> QED BY <2>1, <2>5, <2>6, <2>7 DEF h
<1>6. es \in Seq(Entry) /\ Len(es) = Len(some)
  <2>1. es = [n \in 1 .. Len(some) |-> es[n]] BY <1>3
  <2> QED BY <1>1, <1>5, <2>1, SequenceOf
<1>7. \A n \in 1 .. Len(some) : es[n].transcript \in Text BY <1>5 DEF Entry
<1>8. Texts(es) = Shown(alts) BY <1>4, <1>5, <1>6 DEF Texts
<1>9. Texts(es) \in Seq(Text) BY <1>1, <1>6, <1>7 DEF Texts
<1> QED BY <1>5, <1>6, <1>8, <1>9 DEF es

\* The texts of entries in a row are in a row.
LEMMA TextsJoined ==
    ASSUME NEW s \in Seq(Entry), NEW t \in Seq(Entry)
    PROVE  /\ Texts(s) \in Seq(Text) /\ Texts(t) \in Seq(Text)
           /\ Texts(s \o t) = Texts(s) \o Texts(t)
<1>1. \A e \in Entry : e.transcript \in Text BY DEF Entry
<1> DEFINE E == Entry
<1>2. s \in Seq(E) /\ t \in Seq(E) OBVIOUS
<1> HIDE DEF E
<1>3. Texts(s) \in Seq(Text) /\ Texts(t) \in Seq(Text) BY <1>1, <1>2 DEF Texts, E
<1>4. Texts(s \o t) = Texts(s) \o Texts(t) BY <1>2 DEF Texts
<1> QED BY <1>3, <1>4

-----------------------------------------------------------------------------
\* A synchronous response has no result, or one, or two.
LEMMA RecognizeAnswer ==
    ASSUME NEW r \in RecognizeResponses
    PROVE  \/ r.results = <<>>
           \/ \E x : x.alternatives \in Alternatives /\ r.results = <<x>>
           \/ \E x, y : /\ x.alternatives \in Alternatives /\ y.alternatives \in Alternatives
                       /\ r.results = <<x, y>>
<1> DEFINE Portion == {[alternatives |-> a, lattice |-> <<>>] : a \in Alternatives}
<1>1. \A p \in Portion : p.alternatives \in Alternatives OBVIOUS
<1>2. PICK s \in {<<>>} \cup {<<p>> : p \in Portion} \cup (Portion \X Portion) : r.results = s
  BY DEF RecognizeResponses
<1> HIDE DEF Portion
<1>3. CASE s = <<>> BY <1>2, <1>3
<1>4. CASE s \in {<<p>> : p \in Portion} BY <1>1, <1>2, <1>4
<1>5. CASE s \in Portion \X Portion
  <2>1. s[1] \in Portion /\ s[2] \in Portion /\ s = <<s[1], s[2]>> BY <1>5
  <2> QED BY <1>1, <1>2, <2>1
<1> QED BY <1>2, <1>3, <1>4, <1>5

\* A response of a stream is an error, an event, or has results: a final one, an
\* interim one, or an interim one behind a final one.
LEMMA StreamingAnswer ==
    ASSUME NEW r \in StreamingResponses
    PROVE  /\ r.error.code # 0 \/ r.speech_event_type # "SPEECH_EVENT_UNSPECIFIED" => r.results = <<>>
           /\ \/ r.results \in {<<>>, <<Interim>>}
              \/ \E x : /\ x.is_final /\ x.alternatives \in Alternatives
                       /\ r.results \in {<<x>>, <<x, Interim>>}
<1> DEFINE Answers1 == {<<Result(a, TRUE)>> : a \in Alternatives}
           Answers2 == IF args.interim_results
                       THEN {<<Interim>>} \cup {<<Result(a, TRUE), Interim>> : a \in Alternatives}
                       ELSE {}
<1>1. \A a : Result(a, TRUE).is_final /\ Result(a, TRUE).alternatives = a BY DEF Result
<1>2. CASE r = UnsetStreamingResponse BY <1>2 DEF UnsetStreamingResponse
<1>3. CASE r = [UnsetStreamingResponse EXCEPT !.error.code = 3]
  BY <1>3 DEF UnsetStreamingResponse
<1>4. CASE r = [UnsetStreamingResponse EXCEPT !.speech_event_type = "END_OF_SINGLE_UTTERANCE"]
  BY <1>4 DEF UnsetStreamingResponse
<1>5. CASE \E s \in Answers1 \cup Answers2 : r = [UnsetStreamingResponse EXCEPT !.results = s]
  <2>1. PICK s \in Answers1 \cup Answers2 : r = [UnsetStreamingResponse EXCEPT !.results = s]
    BY <1>5
  <2>2. /\ r.results = s /\ r.error.code = 0
        /\ r.speech_event_type = "SPEECH_EVENT_UNSPECIFIED"
    <3> HIDE DEF Answers1, Answers2
    <3> QED BY <2>1 DEF UnsetStreamingResponse
  <2>3. CASE s = <<Interim>> BY <2>2, <2>3
  <2>4. CASE \E a \in Alternatives : s \in {<<Result(a, TRUE)>>, <<Result(a, TRUE), Interim>>}
    <3>1. PICK a \in Alternatives : s \in {<<Result(a, TRUE)>>, <<Result(a, TRUE), Interim>>}
      BY <2>4
    <3> DEFINE x == Result(a, TRUE)
    <3>2. x.is_final /\ x.alternatives \in Alternatives BY <1>1
    <3> HIDE DEF x
    <3> QED BY <2>2, <3>1, <3>2 DEF x
  <2>5. CASE \E a \in Alternatives : s = <<Result(a, TRUE)>> BY <2>4, <2>5
  <2>6. CASE \E a \in Alternatives : s = <<Result(a, TRUE), Interim>> BY <2>4, <2>6
  <2> QED BY <2>1, <2>3, <2>5, <2>6
<1> QED BY <1>2, <1>3, <1>4, <1>5 DEF StreamingResponses

\* What the service answers a call with.
Answer == IF args.sync THEN RecognizeResponses ELSE StreamingResponses

\* One sequence is joined to itself, two to the second behind the first.
LEMMA FlattenFew ==
    ASSUME NEW S, NEW t \in Seq(S), NEW u \in Seq(S)
    PROVE  FlattenSeq(<<t>>) = t /\ FlattenSeq(<<t, u>>) = t \o u
<1> DEFINE Q == Seq(S)
<1>1. /\ <<>> \in Seq(Q) /\ <<t>> \in Seq(Q)
      /\ <<t>> = Append(<<>>, t) /\ <<t, u>> = Append(<<t>>, u)
  <2>1. t \in Q /\ u \in Q OBVIOUS
  <2> HIDE DEF Q
  <2> QED BY <2>1
<1>2. <<>> \in Seq(S) /\ <<>> \o t = t OBVIOUS
<1>3. FlattenSeq(<<t>>) = t BY <1>1, <1>2, FlattenEmpty, FlattenAppend
<1>4. FlattenSeq(<<t, u>>) = t \o u BY <1>1, <1>3, FlattenAppend
<1> QED BY <1>3, <1>4

\* The transcripts of the hypotheses of a result.
Said(alternatives) == [n \in 1 .. Len(alternatives) |-> alternatives[n].transcript]

Part(result) == IF Settled(result) THEN Said(result.alternatives) ELSE <<>>

\* They are texts, in a result that is not interim.
LEMMA PartType ==
    ASSUME args \in Args, NEW x, Settled(x) => x.alternatives \in Alternatives
    PROVE  Part(x) \in Seq(Text)
<1>1. CASE Settled(x)
  <2> DEFINE a == x.alternatives
             H == Hypothesis
  <2>1. a \in Seq(H) BY <1>1, AlternativesAre
  <2>2. \A h \in H : h.transcript \in Text BY HypothesisIs
  <2> HIDE DEF H, a
  <2>3. Said(a) \in Seq(Text) BY <2>1, <2>2 DEF Said
  <2> QED BY <1>1, <2>3 DEF Part, a
<1>2. CASE ~Settled(x)
  <2>1. <<>> \in Seq(Text) OBVIOUS
  <2> QED BY <1>2, <2>1 DEF Part
<1> QED BY <1>1, <1>2

\* What a response settles, for each number of results it may have.
LEMMA TranscriptsAre ==
    ASSUME args \in Args, NEW r
    PROVE  /\ r.results = <<>> => Transcripts(r) = <<>>
           /\ \A x : /\ r.results = <<x>>
                     /\ Settled(x) => x.alternatives \in Alternatives
                     => Transcripts(r) = Part(x) /\ Part(x) \in Seq(Text)
           /\ \A x, y : /\ r.results = <<x, y>>
                        /\ Settled(x) => x.alternatives \in Alternatives
                        /\ Settled(y) => y.alternatives \in Alternatives
                        => /\ Transcripts(r) = Part(x) \o Part(y)
                           /\ Part(x) \in Seq(Text) /\ Part(y) \in Seq(Text)
<1>0. Transcripts(r) = FlattenSeq([k \in 1 .. Len(r.results) |-> Part(r.results[k])])
  BY DEF Transcripts, Part, Said
<1>1. CASE r.results = <<>>
  <2>1. [k \in 1 .. Len(<<>>) |-> Part(<<>>[k])] = <<>> OBVIOUS
  <2> QED BY <1>0, <1>1, <2>1, FlattenEmpty
<1>2. ASSUME NEW x, r.results = <<x>>, Settled(x) => x.alternatives \in Alternatives
      PROVE  Transcripts(r) = Part(x) /\ Part(x) \in Seq(Text)
  <2>1. Part(x) \in Seq(Text) BY <1>2, PartType
  <2>2. [k \in 1 .. Len(<<x>>) |-> Part(<<x>>[k])] = <<Part(x)>> OBVIOUS
  <2> QED BY <1>0, <1>2, <2>1, <2>2, FlattenFew
<1>3. ASSUME NEW x, NEW y, r.results = <<x, y>>,
             Settled(x) => x.alternatives \in Alternatives,
             Settled(y) => y.alternatives \in Alternatives
      PROVE  /\ Transcripts(r) = Part(x) \o Part(y)
             /\ Part(x) \in Seq(Text) /\ Part(y) \in Seq(Text)
  <2>1. Part(x) \in Seq(Text) /\ Part(y) \in Seq(Text) BY <1>3, PartType
  <2>2. [k \in 1 .. Len(<<x, y>>) |-> Part(<<x, y>>[k])] = <<Part(x), Part(y)>> OBVIOUS
  <2> QED BY <1>0, <1>3, <2>1, <2>2, FlattenFew
<1> QED BY <1>1, <1>2, <1>3

\* A response that the client can do justice to.
InFull(r) == args.max_alternatives > 0 /\ Tellable(r)

\* What is shown of a result of such a response is all that was said.
LEMMA ShownInFull ==
    ASSUME args \in Args, NEW x, Settled(x), x.alternatives \in Alternatives,
           NEW r, InFull(r), x \in ToSet(r.results)
    PROVE  Shown(x.alternatives) = Part(x)
<1> DEFINE a == x.alternatives
           H == Hypothesis
<1>1. a \in Seq(H) /\ Len(a) <= args.max_alternatives BY AlternativesAre DEF InFull
<1>2. args.max_alternatives \in Int BY OptionTypes
<1>3. args.time_offsets => \A h \in ToSet(a) : Spelling(h) = h.transcript
  BY DEF InFull, Tellable, Spelled, Spelling, WordsOf
<1> HIDE DEF a, H
<1>4. {k \in 1 .. Len(a) : k <= args.max_alternatives} = 1 .. Len(a) BY <1>1, <1>2
<1>5. \A n \in 1 .. Len(a) : a[n] \in ToSet(a) BY <1>1 DEF ToSet
<1>6. Shown(a) = Said(a) BY <1>3, <1>4, <1>5 DEF Shown, Said
<1> QED BY <1>6 DEF Part, a

AllGiven(rs) == FlattenSeq([k \in 1 .. Len(rs) |-> Transcripts(rs[k])])

AllInFull(rs) == \A r \in ToSet(rs) : InFull(r)

\* What a hypothesis of a response gives is among what all of them give.
LEMMA GivenByOne ==
    ASSUME NEW rs, NEW r \in ToSet(rs), 1 \in DOMAIN r.results
    PROVE  UNION {ToSet(h.words) : h \in ToSet(r.results[1].alternatives)} \subseteq Given(rs)
<1>1. r.results[1] \in ToSet(r.results) BY DEF ToSet
<1> QED BY <1>1 DEF Given

\* More responses give more.
LEMMA GivenBefore ==
    ASSUME NEW rs, NEW qs, ToSet(rs) \subseteq ToSet(qs)
    PROVE  Given(rs) \subseteq Given(qs)
BY DEF Given

\* What was given stays given.
LEMMA TimedMore ==
    ASSUME NEW x, NEW I, NEW J, I \subseteq J, Timed(x, I)
    PROVE  Timed(x, J)
BY DEF Timed

\* The entries of a final first result are timed, and of a response that can be
\* told in full they are what its first result says.
LEMMA EntriesOfFirst ==
    ASSUME args \in Args, NEW r, NEW x, 1 \in DOMAIN r.results, r.results[1] = x,
           Settled(x), x.alternatives \in Alternatives
    PROVE  LET es == FinalEntries(x.alternatives)
           IN  /\ es \in Seq(Entry)
               /\ InFull(r) => Texts(es) = Part(x)
               /\ \A n \in 1 .. Len(es) : Timed(es[n], Given(<<r>>))
<1> DEFINE alts == x.alternatives
           es   == FinalEntries(alts)
<1>1. alts \in Seq(Hypothesis) BY AlternativesAre
<1>2. x \in ToSet(r.results) BY DEF ToSet
<1>3. UNION {ToSet(h.words) : h \in ToSet(alts)} \subseteq Given(<<r>>)
  <2>1. r \in ToSet(<<r>>) BY DEF ToSet
  <2> QED BY <2>1, GivenByOne
<1>4. InFull(r) => Shown(alts) = Part(x) BY <1>2, ShownInFull
<1> HIDE DEF alts
<1>5. /\ es \in Seq(Entry) /\ Texts(es) = Shown(alts)
      /\ \A n \in 1 .. Len(es) : Timed(es[n], UNION {ToSet(h.words) : h \in ToSet(alts)})
  BY <1>1, FinalEntriesAre
<1> HIDE DEF es
<1>6. \A n \in 1 .. Len(es) : Timed(es[n], Given(<<r>>)) BY <1>3, <1>5, TimedMore
<1> QED BY <1>4, <1>5, <1>6 DEF es, alts

\* The entries of a synchronous response are its texts.
LEMMA SyncEntries ==
    ASSUME args \in Args, args.sync, NEW r \in RecognizeResponses, r.results # <<>>
    PROVE  LET es == SyncResults(r, args)
           IN  /\ es \in Seq(Entry)
               /\ Transcripts(r) \in Seq(Text)
               /\ InFull(r) => NotBlank(Texts(es)) = NotBlank(Transcripts(r))
               /\ \A n \in 1 .. Len(es) : Timed(es[n], Given(<<r>>))
<1> DEFINE es == SyncResults(r, args)
<1>1. \A x : Settled(x) BY DEF Settled
<1>2. es = FinalEntries(r.results[1].alternatives) BY DEF SyncResults, FinalEntries
<1> HIDE DEF es
<1>3. CASE \E x : x.alternatives \in Alternatives /\ r.results = <<x>>
  <2>1. PICK x : x.alternatives \in Alternatives /\ r.results = <<x>> BY <1>3
  <2>2. 1 \in DOMAIN r.results /\ r.results[1] = x BY <2>1
  <2>3. Transcripts(r) = Part(x) /\ Part(x) \in Seq(Text) BY <1>1, <2>1, TranscriptsAre
  <2>4. /\ es \in Seq(Entry)
        /\ InFull(r) => Texts(es) = Part(x)
        /\ \A n \in 1 .. Len(es) : Timed(es[n], Given(<<r>>))
    BY <1>1, <1>2, <2>1, <2>2, EntriesOfFirst
  <2> QED BY <2>3, <2>4 DEF es
<1>4. CASE \E x, y : /\ x.alternatives \in Alternatives /\ y.alternatives \in Alternatives
                     /\ r.results = <<x, y>>
  <2>1. PICK x, y : /\ x.alternatives \in Alternatives /\ y.alternatives \in Alternatives
                    /\ r.results = <<x, y>>
    BY <1>4
  <2>2. 1 \in DOMAIN r.results /\ r.results[1] = x /\ Len(r.results) = 2 BY <2>1
  <2>3. Transcripts(r) \in Seq(Text)
    <3>1. /\ Transcripts(r) = Part(x) \o Part(y)
          /\ Part(x) \in Seq(Text) /\ Part(y) \in Seq(Text)
      BY <2>1, TranscriptsAre
    <3> QED BY <3>1
  <2>4. ~InFull(r) BY <2>2 DEF InFull, Tellable
  <2>5. /\ es \in Seq(Entry)
        /\ \A n \in 1 .. Len(es) : Timed(es[n], Given(<<r>>))
    BY <1>1, <1>2, <2>1, <2>2, EntriesOfFirst
  <2> QED BY <2>3, <2>4, <2>5 DEF es
<1> QED BY <1>3, <1>4, RecognizeAnswer

\* What the streaming loop adds for a response.
Added(r) == IF r.results = <<>> THEN <<>> ELSE StreamingResults(r, args)

\* The entry of an interim result is blank.
LEMMA BlankInterim ==
    /\ InterimResult \in Entry /\ InterimResult.transcript = <<>>
    /\ \A I : Timed(InterimResult, I)
<1>1. <<>> \in Text BY DEF Text
<1>2. InterimResult.transcript = <<>> /\ InterimResult.alignment = NoTimes BY DEF InterimResult
<1>3. InterimResult \in Entry BY <1>1 DEF InterimResult, Entry
<1>4. ToSet(Printed(InterimResult).times) = {} BY <1>1, <1>2, NoTimesPrinted
<1> QED BY <1>2, <1>3, <1>4 DEF Timed

\* The texts it adds are those settled, but for blank entries.
LEMMA StreamingEntries ==
    ASSUME args \in Args, ~args.sync, NEW r \in StreamingResponses
    PROVE  /\ Added(r) \in Seq(Entry)
           /\ Transcripts(r) \in Seq(Text)
           /\ InFull(r) => NotBlank(Texts(Added(r))) = NotBlank(Transcripts(r))
           /\ \A n \in 1 .. Len(Added(r)) : Timed(Added(r)[n], Given(<<r>>))
<1>0. <<>> \in Seq(Text) OBVIOUS
<1>1. CASE r.results = <<>>
  <2>1. Added(r) = <<>> /\ Transcripts(r) = <<>> BY <1>1, TranscriptsAre DEF Added
  <2>2. Texts(<<>>) = <<>> BY DEF Texts
  <2>3. <<>> \in Seq(Entry) OBVIOUS
  <2> QED BY <1>0, <2>1, <2>2, <2>3
<1>2. ~Settled(Interim) /\ Part(Interim) = <<>> BY DEF Interim, Result, Settled, Part
<1>3. CASE r.results = <<Interim>>
  <2> DEFINE alts == Interim.alternatives
             some == Considered(alts, args)
  <2>1. Interim.is_final = FALSE /\ alts \in Seq({[transcript |-> <<>>, words |-> <<>>]})
    BY DEF Interim, Result
  <2>2. Transcripts(r) = <<>> BY <1>2, <1>3, TranscriptsAre
  <2>3. Added(r) = [i \in 1 .. Len(some) |-> InterimResult]
    BY <1>3, <2>1 DEF Added, StreamingResults
  <2>4. Len(some) \in Nat BY <2>1, ConsideredAre
  <2> HIDE DEF some
  <2>5. Added(r) \in Seq(Entry) /\ Len(Added(r)) = Len(some)
        /\ \A i \in 1 .. Len(some) : Added(r)[i] = InterimResult
    BY <2>3, <2>4, BlankInterim
  <2>6. Texts(Added(r)) \in Seq({<<>>}) BY <2>4, <2>5, BlankInterim DEF Texts
  <2>7. NotBlank(Texts(Added(r))) \in Seq({<<>>} \ {<<>>}) BY <2>6, WithoutType DEF NotBlank
  <2>8. NotBlank(Texts(Added(r))) = <<>> BY <2>7
  <2>9. NotBlank(<<>>) = <<>> BY WithoutEmpty DEF NotBlank
  <2>10. \A n \in 1 .. Len(Added(r)) : Timed(Added(r)[n], Given(<<r>>)) BY <2>5, BlankInterim
  <2> QED BY <1>0, <2>2, <2>5, <2>8, <2>9, <2>10
<1>4. CASE \E x : /\ x.is_final /\ x.alternatives \in Alternatives
                  /\ r.results \in {<<x>>, <<x, Interim>>}
  <2>1. PICK x : /\ x.is_final /\ x.alternatives \in Alternatives
                 /\ r.results \in {<<x>>, <<x, Interim>>}
    BY <1>4
  <2>2. Settled(x) BY <2>1 DEF Settled
  <2>3. 1 \in DOMAIN r.results /\ r.results[1] = x /\ r.results # <<>>
    <3>1. CASE r.results = <<x>> BY <3>1
    <3>2. CASE r.results = <<x, Interim>> BY <3>2
    <3> QED BY <2>1, <3>1, <3>2
  <2>4. Transcripts(r) = Part(x) /\ Part(x) \in Seq(Text)
    <3>1. CASE r.results = <<x>> BY <2>1, <3>1, TranscriptsAre
    <3>2. CASE r.results = <<x, Interim>>
      <4>1. Transcripts(r) = Part(x) \o Part(Interim) /\ Part(x) \in Seq(Text)
        BY <1>2, <2>1, <3>2, TranscriptsAre
      <4> QED BY <1>2, <4>1
    <3> QED BY <2>1, <3>1, <3>2
  <2>5. Added(r) = FinalEntries(x.alternatives)
    BY <2>1, <2>3 DEF Added, StreamingResults, FinalEntries
  <2>6. /\ Added(r) \in Seq(Entry)
        /\ InFull(r) => Texts(Added(r)) = Part(x)
        /\ \A n \in 1 .. Len(Added(r)) : Timed(Added(r)[n], Given(<<r>>))
    BY <2>1, <2>2, <2>3, <2>5, EntriesOfFirst
  <2> QED BY <2>4, <2>6
<1> QED BY <1>1, <1>3, <1>4, StreamingAnswer

\* A response settles texts.
LEMMA TranscriptsType ==
    ASSUME args \in Args, NEW r \in Answer
    PROVE  Transcripts(r) \in Seq(Text)
<1>1. CASE r.results = <<>>
  <2>1. Transcripts(r) = <<>> BY <1>1, TranscriptsAre
  <2> QED BY <2>1
<1>2. CASE r.results # <<>>
  <2>1. CASE args.sync BY <1>2, <2>1, SyncEntries DEF Answer
  <2>2. CASE ~args.sync BY <1>2, <2>2, StreamingEntries DEF Answer
  <2> QED BY <2>1, <2>2
<1> QED BY <1>1, <1>2

\* A response that comes after others adds what it settles.
LEMMA AllGivenIs ==
    ASSUME args \in Args, NEW rs \in Seq(Answer)
    PROVE  /\ AllGiven(rs) \in Seq(Text)
           /\ \A r \in Answer : AllGiven(Append(rs, r)) = AllGiven(rs) \o Transcripts(r)
<1> DEFINE Q      == Seq(Text)
           cs(qs) == [k \in 1 .. Len(qs) |-> Transcripts(qs[k])]
           A      == Answer
<1>1. \A r \in A : Transcripts(r) \in Q BY TranscriptsType
<1>2. rs \in Seq(A) OBVIOUS
<1> HIDE DEF A, Q
<1>3. cs(rs) \in Seq(Q)
  <2>1. \A k \in 1 .. Len(rs) : rs[k] \in A BY <1>2
  <2>2. \A k \in 1 .. Len(rs) : Transcripts(rs[k]) \in Q BY <1>1, <2>1
  <2> QED BY <1>2, <2>2
<1>4. FlattenSeq(cs(rs)) \in Q BY <1>3, FlattenType DEF Q
<1>5. ASSUME NEW r \in A PROVE FlattenSeq(cs(Append(rs, r))) = FlattenSeq(cs(rs)) \o Transcripts(r)
  <2>1. cs(Append(rs, r)) = Append(cs(rs), Transcripts(r)) BY <1>2
  <2> HIDE DEF cs
  <2> QED BY <1>1, <1>3, <1>4, <2>1, FlattenAppend DEF Q
<1> QED BY <1>4, <1>5 DEF AllGiven, A, Q

\* Blank texts in a row are left out on both sides.
LEMMA NotBlankJoined ==
    ASSUME NEW s \in Seq(Text), NEW t \in Seq(Text)
    PROVE  NotBlank(s \o t) = NotBlank(s) \o NotBlank(t)
BY WithoutConcat DEF NotBlank

-----------------------------------------------------------------------------
(***************************************************************************)
(* What is received and what is put out.                                   *)
(***************************************************************************)
\* What has been received and made of it agree, in texts and times.
ContentInv ==
    /\ args \in Args
    /\ responses \in Seq(Answer) /\ results \in Seq(Entry)
    /\ AllInFull(responses) => NotBlank(Texts(results)) = NotBlank(AllGiven(responses))
    /\ \A n \in 1 .. Len(results) : Timed(results[n], Given(responses))

\* The call comes before its responses, and the output last.
OutputInv ==
    /\ pc \in {"channel", "health", "mode", "load", "open", "call", "waiting"} =>
          responses = <<>> /\ results = <<>>
    /\ pc = "waiting" => args.sync
    /\ pc = "reading" => ~args.sync
    /\ pc # "exited" => printed = <<>> /\ exitCode = <<>>
    /\ pc = "exited" => /\ exitCode \in {<<0>>, <<1>>}
                        /\ printed = IF exitCode = <<0>> THEN print_results(results) ELSE <<>>

\* The options are what they were, and with them what the service may answer and
\* what of it is settled and told.
LEMMA SameOptions ==
    ASSUME args' = args
    PROVE  /\ Answer' = Answer /\ AllGiven(responses)' = AllGiven(responses')
           /\ AllInFull(responses)' <=> AllInFull(responses')
<1>1. Alternatives' = Alternatives BY DEF Alternatives
<1>2. Answer' = Answer
  BY <1>1 DEF Answer, RecognizeResponses, StreamingResponses
<1>3. AllGiven(responses)' = AllGiven(responses') BY DEF AllGiven, Transcripts, Settled
<1>4. AllInFull(responses)' <=> AllInFull(responses')
  BY DEF AllInFull, InFull, Tellable, Settled, Spelled
<1> QED BY <1>2, <1>3, <1>4

\* What is in the results grows by entries timed by one more response.
LEMMA ContentGrows ==
    ASSUME ContentInv, NEW r \in Answer, NEW es \in Seq(Entry),
           InFull(r) => NotBlank(Texts(es)) = NotBlank(Transcripts(r)),
           \A n \in 1 .. Len(es) : Timed(es[n], Given(<<r>>))
    PROVE  LET rs == Append(responses, r)
               xs == results \o es
           IN  /\ rs \in Seq(Answer) /\ xs \in Seq(Entry)
               /\ AllInFull(rs) => NotBlank(Texts(xs)) = NotBlank(AllGiven(rs))
               /\ \A n \in 1 .. Len(xs) : Timed(xs[n], Given(rs))
<1> DEFINE rs == Append(responses, r)
           xs == results \o es
           A  == Answer
           E  == Entry
<1>1. responses \in Seq(A) /\ results \in Seq(E) /\ es \in Seq(E) /\ r \in A
  BY DEF ContentInv
<1> HIDE DEF A, E
<1>2. /\ rs \in Seq(A) /\ xs \in Seq(E) /\ Len(xs) = Len(results) + Len(es)
      /\ Len(results) \in Nat /\ Len(es) \in Nat
      /\ ToSet(responses) \subseteq ToSet(rs) /\ ToSet(<<r>>) \subseteq ToSet(rs)
      /\ r \in ToSet(rs)
  <2>1. xs \in Seq(E) /\ Len(xs) = Len(results) + Len(es) BY <1>1
  <2>2. Len(results) \in Nat /\ Len(es) \in Nat BY <1>1
  <2>3. /\ rs \in Seq(A) /\ Len(rs) = Len(responses) + 1 /\ Len(responses) \in Nat
        /\ \A n \in 1 .. Len(responses) : rs[n] = responses[n]
        /\ rs[Len(responses) + 1] = r
    BY <1>1
  <2>4. DOMAIN rs = 1 .. Len(responses) + 1 /\ DOMAIN responses = 1 .. Len(responses)
    BY <1>1, <2>3
  <2> HIDE DEF rs, xs
  <2>5. ToSet(responses) \subseteq ToSet(rs) BY <2>3, <2>4 DEF ToSet
  <2>6. DOMAIN <<r>> = {1} /\ <<r>>[1] = r OBVIOUS
  <2>7. ToSet(<<r>>) \subseteq ToSet(rs) BY <2>3, <2>4, <2>6 DEF ToSet
  <2>8. r \in ToSet(rs) BY <2>3, <2>4 DEF ToSet
  <2> QED BY <2>1, <2>2, <2>3, <2>5, <2>7, <2>8
<1>3. ASSUME AllInFull(rs) PROVE NotBlank(Texts(xs)) = NotBlank(AllGiven(rs))
  <2>0. AllInFull(responses) /\ InFull(r) BY <1>2, <1>3 DEF AllInFull
  <2>1. Texts(xs) = Texts(results) \o Texts(es) /\ Texts(results) \in Seq(Text)
        /\ Texts(es) \in Seq(Text)
    BY <1>1, TextsJoined DEF E
  <2>2. AllGiven(rs) = AllGiven(responses) \o Transcripts(r)
        /\ AllGiven(responses) \in Seq(Text) /\ Transcripts(r) \in Seq(Text)
    BY <1>1, AllGivenIs, TranscriptsType DEF A, ContentInv
  <2> HIDE DEF xs, rs
  <2>3. NotBlank(Texts(xs)) = NotBlank(Texts(results)) \o NotBlank(Texts(es))
    BY <2>1, NotBlankJoined
  <2>4. NotBlank(AllGiven(rs)) = NotBlank(AllGiven(responses)) \o NotBlank(Transcripts(r))
    BY <2>2, NotBlankJoined
  <2> QED BY <2>0, <2>3, <2>4 DEF ContentInv
<1>4. \A n \in 1 .. Len(xs) : Timed(xs[n], Given(rs))
  <2> SUFFICES ASSUME NEW n \in 1 .. Len(xs) PROVE Timed(xs[n], Given(rs))
    OBVIOUS
  <2>1. Given(responses) \subseteq Given(rs) /\ Given(<<r>>) \subseteq Given(rs)
    BY <1>2, GivenBefore
  <2>2. CASE n <= Len(results)
    <3>1. xs[n] = results[n] /\ n \in 1 .. Len(results) BY <1>1, <1>2, <2>2
    <3> HIDE DEF xs, rs
    <3>2. Timed(results[n], Given(responses)) BY <3>1 DEF ContentInv
    <3> QED BY <2>1, <3>1, <3>2, TimedMore
  <2>3. CASE n > Len(results)
    <3> DEFINE k == n - Len(results)
    <3>1. xs[n] = es[k] /\ k \in 1 .. Len(es) BY <1>1, <1>2, <2>3
    <3> HIDE DEF xs, rs, k
    <3>2. Timed(es[k], Given(<<r>>)) BY <3>1
    <3> QED BY <2>1, <3>1, <3>2, TimedMore
  <2>4. n \in Nat /\ Len(results) \in Nat BY <1>2
  <2> QED BY <2>2, <2>3, <2>4
<1> QED BY <1>2, <1>3, <1>4 DEF A, E, rs, xs

\* The only steps that change the contents are the two that receive.
LEMMA ContentStep == ASSUME ContentInv, OutputInv, [Next]_vars PROVE ContentInv'
<1>1. CASE UNCHANGED <<args, responses, results>>
  <2>1. /\ Answer' = Answer /\ AllGiven(responses)' = AllGiven(responses')
        /\ AllInFull(responses)' <=> AllInFull(responses')
    BY <1>1, SameOptions
  <2>2. Given(responses)' = Given(responses) /\ Texts(results)' = Texts(results)
    BY <1>1 DEF Given, Texts
  <2> QED BY <1>1, <2>1, <2>2 DEF ContentInv
<1>2. ASSUME NEW r \in Answer, NEW es \in Seq(Entry), args' = args,
             responses' = Append(responses, r), results' = results \o es,
             InFull(r) => NotBlank(Texts(es)) = NotBlank(Transcripts(r)),
             \A n \in 1 .. Len(es) : Timed(es[n], Given(<<r>>))
      PROVE  ContentInv'
  <2>1. /\ Answer' = Answer /\ AllGiven(responses)' = AllGiven(responses')
        /\ AllInFull(responses)' <=> AllInFull(responses')
    BY <1>2, SameOptions
  <2>2. /\ responses' \in Seq(Answer) /\ results' \in Seq(Entry)
        /\ AllInFull(responses') => NotBlank(Texts(results')) = NotBlank(AllGiven(responses'))
        /\ \A n \in 1 .. Len(results') : Timed(results'[n], Given(responses'))
    BY <1>2, ContentGrows
  <2> QED BY <1>2, <2>1, <2>2 DEF ContentInv
<1>3. CASE ReceivesRecognizeResponse
  <2>1. pc = "waiting" /\ args.sync /\ responses = <<>> /\ results = <<>> /\ args' = args
    BY <1>3 DEF ReceivesRecognizeResponse, OutputInv
  <2>2. PICK r \in RecognizeResponses :
           /\ responses' = <<r>>
           /\ \/ r.results = <<>> /\ UNCHANGED results
              \/ r.results # <<>> /\ results' = SyncResults(r, args)
    BY <1>3 DEF ReceivesRecognizeResponse
  <2>3. r \in Answer /\ responses' = Append(responses, r) BY <2>1, <2>2 DEF Answer
  <2>4. CASE r.results = <<>>
    <3>1. Transcripts(r) = <<>> BY <2>4, TranscriptsAre DEF ContentInv
    <3>2. Texts(<<>>) = <<>> BY DEF Texts
    <3>3. <<>> \in Seq(Entry) /\ results' = results \o <<>> BY <2>1, <2>2, <2>4
    <3>4. \A n \in 1 .. Len(<<>>) : Timed(<<>>[n], Given(<<r>>)) OBVIOUS
    <3> QED BY <1>2, <2>1, <2>3, <3>1, <3>2, <3>3, <3>4
  <2>5. CASE r.results # <<>>
    <3> DEFINE es == SyncResults(r, args)
    <3>1. /\ es \in Seq(Entry)
          /\ InFull(r) => NotBlank(Texts(es)) = NotBlank(Transcripts(r))
          /\ \A n \in 1 .. Len(es) : Timed(es[n], Given(<<r>>))
      BY <2>1, <2>5, SyncEntries DEF ContentInv
    <3>2. results' = es BY <2>2, <2>5
    <3> HIDE DEF es
    <3>3. results' = results \o es BY <2>1, <3>1, <3>2
    <3> QED BY <1>2, <2>1, <2>3, <3>1, <3>3
  <2> QED BY <2>4, <2>5
<1>4. CASE ReceivesStreamingResponse
  <2>1. pc = "reading" /\ ~args.sync /\ args' = args
    BY <1>4 DEF ReceivesStreamingResponse, OutputInv
  <2>2. PICK r \in StreamingResponses :
           /\ responses' = Append(responses, r)
           /\ IF \/ r.error.code # 0
                 \/ r.speech_event_type # "SPEECH_EVENT_UNSPECIFIED"
              THEN UNCHANGED results
              ELSE results' = IF r.results = <<>> THEN results
                              ELSE results \o StreamingResults(r, args)
    BY <1>4 DEF ReceivesStreamingResponse
  <2>3. r \in Answer BY <2>1 DEF Answer
  <2>4. /\ Added(r) \in Seq(Entry)
        /\ InFull(r) => NotBlank(Texts(Added(r))) = NotBlank(Transcripts(r))
        /\ \A n \in 1 .. Len(Added(r)) : Timed(Added(r)[n], Given(<<r>>))
    BY <2>1, StreamingEntries DEF ContentInv
  <2>5. results \in Seq(Entry) /\ results \o <<>> = results BY DEF ContentInv
  <2>6. results' = results \o Added(r)
    <3>1. CASE r.results = <<>> BY <2>2, <2>5, <3>1 DEF Added
    <3>2. CASE r.results # <<>>
      <4>1. ~(r.error.code # 0 \/ r.speech_event_type # "SPEECH_EVENT_UNSPECIFIED")
        BY <3>2, StreamingAnswer
      <4> QED BY <2>2, <3>2, <4>1 DEF Added
    <3> QED BY <3>1, <3>2
  <2> QED BY <1>2, <2>1, <2>2, <2>3, <2>4, <2>6
<1>5. CASE MainThread
  BY <1>1, <1>5 DEF MainThread, create_channel, check_health, ChoosesMode, AudioLoader,
                    AudioStream, OpensMicrophone, CallsRecognize, CallsStreamingRecognize,
                    Prints, answerVars
<1>6. CASE Feeds BY <1>1, <1>6 DEF Feeds, FeedsFile, FeedEnds, answerVars
<1>7. CASE StreamEnds \/ CallFails BY <1>1, <1>7 DEF StreamEnds, CallFails, answerVars
<1>8. CASE UNCHANGED vars BY <1>1, <1>8 DEF vars, answerVars
<1> QED BY <1>3, <1>4, <1>5, <1>6, <1>7, <1>8 DEF Next, Answers

\* Every step keeps the order of call, responses and output.
LEMMA OutputStep == ASSUME ContentInv, OutputInv, [Next]_vars PROVE OutputInv'
<1> USE DEF OutputInv, Goto, Exit
<1>0. args.sync \in BOOLEAN BY OptionTypes DEF ContentInv
<1>1. CASE create_channel BY <1>1 DEF create_channel, answerVars
<1>2. CASE check_health BY <1>2 DEF check_health, answerVars
<1>3. CASE ChoosesMode
  <2>1. pc = "mode" /\ UNCHANGED <<args, responses, results, printed>>
        /\ responses = <<>> /\ results = <<>>
    BY <1>3 DEF ChoosesMode, answerVars
  <2>2. print_results(<<>>) = <<>> BY DEF print_results
  <2>3. CASE pc' = "exited" BY <1>3, <2>1, <2>2, <2>3 DEF ChoosesMode
  <2>4. CASE pc' \in {"load", "open"} BY <1>3, <2>1, <2>4 DEF ChoosesMode
  <2> QED BY <1>3, <2>3, <2>4 DEF ChoosesMode
<1>4. CASE AudioLoader BY <1>4 DEF AudioLoader, answerVars
<1>5. CASE AudioStream BY <1>5 DEF AudioStream, answerVars
<1>6. CASE OpensMicrophone BY <1>6 DEF OpensMicrophone, answerVars
<1>7. CASE CallsRecognize BY <1>7 DEF CallsRecognize, answerVars
<1>8. CASE CallsStreamingRecognize BY <1>8 DEF CallsStreamingRecognize, answerVars
<1>9. CASE Prints BY <1>9 DEF Prints, answerVars
<1>10. CASE Feeds BY <1>10 DEF Feeds, FeedsFile, FeedEnds, answerVars
<1>11. CASE ReceivesRecognizeResponse BY <1>11 DEF ReceivesRecognizeResponse
<1>12. CASE ReceivesStreamingResponse BY <1>12 DEF ReceivesStreamingResponse
<1>13. CASE StreamEnds \/ CallFails BY <1>13 DEF StreamEnds, CallFails, InCall, answerVars
<1>14. CASE UNCHANGED vars BY <1>14 DEF vars, answerVars
<1> QED
  BY <1>1, <1>2, <1>3, <1>4, <1>5, <1>6, <1>7, <1>8, <1>9, <1>10, <1>11, <1>12, <1>13, <1>14
  DEF Next, MainThread, Answers

\* Nothing has been received at the start.
LEMMA ContentStart == ASSUME Init PROVE ContentInv /\ OutputInv
<1>1. AllGiven(<<>>) = <<>>
  <2>1. [k \in 1 .. Len(<<>>) |-> Transcripts(<<>>[k])] = <<>> OBVIOUS
  <2> QED BY <2>1, FlattenEmpty DEF AllGiven
<1>2. Texts(<<>>) = <<>> BY DEF Texts
<1>3. <<>> \in Seq(Answer) /\ <<>> \in Seq(Entry) OBVIOUS
<1> QED BY <1>1, <1>2, <1>3 DEF Init, ContentInv, OutputInv

\* What print_results puts out are the texts of the results.
LEMMA PrintedAre ==
    ASSUME NEW xs \in Seq(Entry)
    PROVE  /\ Texts(print_results(xs)) = Texts(xs)
           /\ Len(print_results(xs)) = Len(xs)
           /\ \A n \in 1 .. Len(xs) : print_results(xs)[n] = Printed(xs[n])
<1> DEFINE E == Entry
<1>1. Len(xs) \in Nat
  <2>1. xs \in Seq(E) OBVIOUS
  <2> HIDE DEF E
  <2> QED BY <2>1
<1>2. \A x : Printed(x).transcript = x.transcript BY DEF Printed
<1>3. /\ Len(print_results(xs)) = Len(xs)
      /\ \A n \in 1 .. Len(xs) : print_results(xs)[n] = Printed(xs[n])
  BY <1>1 DEF print_results
<1>4. Texts(print_results(xs)) = Texts(xs) BY <1>1, <1>2, <1>3 DEF Texts
<1> QED BY <1>3, <1>4

\* Both properties of the output follow.
LEMMA PrintedProperties ==
    ASSUME ContentInv, OutputInv
    PROVE  PrintedAsGiven /\ TimesBesideTheirWords
<1>1. PrintedAsGiven
  <2> SUFFICES ASSUME pc = "exited", exitCode = << 0 >>, args.max_alternatives > 0,
                      \A r \in ToSet(responses) : Tellable(r)
               PROVE  NotBlank(Texts(printed)) = NotBlank(AllGiven(responses))
    BY DEF PrintedAsGiven, OutputInv, Texts, AllGiven
  <2>0. AllInFull(responses) BY DEF AllInFull, InFull
  <2>1. printed = print_results(results) BY DEF OutputInv
  <2> QED BY <2>0, <2>1, PrintedAre DEF ContentInv
<1>2. TimesBesideTheirWords
  <2> SUFFICES ASSUME NEW n \in 1 .. Len(printed), NEW line \in ToSet(printed[n].times)
               PROVE  \E w \in Given(responses) :
                         w.word = <<line[1]>> /\ <<w.start_time, w.end_time>> = line[2]
    BY DEF TimesBesideTheirWords, Given
  <2>1. CASE printed = <<>> BY <2>1
  <2>2. CASE printed # <<>>
    <3>1. printed = print_results(results) BY <2>2 DEF OutputInv
    <3>2. n \in 1 .. Len(results) /\ printed[n] = Printed(results[n])
      BY <3>1, PrintedAre DEF ContentInv
    <3>3. Timed(results[n], Given(responses)) BY <3>2 DEF ContentInv
    <3> QED BY <3>2, <3>3 DEF Timed
  <2> QED BY <2>1, <2>2
<1> QED BY <1>1, <1>2

-----------------------------------------------------------------------------
(***************************************************************************)
(* Types.                                                                  *)
(***************************************************************************)
\* Short sequences are sequences.
LEMMA OneElement == ASSUME NEW S, NEW x \in S PROVE <<x>> \in Seq(S)
OBVIOUS

\* So are those of two elements.
LEMMA TwoElements == ASSUME NEW S, NEW x \in S, NEW y \in S PROVE <<x, y>> \in Seq(S)
OBVIOUS

\* The numbers of the model that become int32 fields fit there.
LEMMA Fits32 == /\ MaxInt32 \in Nat /\ {0, 3} \subseteq Int32
                /\ 16000 \in 0 .. MaxInt32 /\ 0 .. MaxInt32 \subseteq Int32
<1>1. MaxInt32 \in Nat /\ 16000 <= MaxInt32 BY SMT DEF MaxInt32
<1> QED BY <1>1 DEF Int32

\* What build_recognition_config sets in a configuration.
Filled(rate, offsets, max, contexts) ==
    [UnsetRecognitionConfig EXCEPT
        !.encoding                 = "LINEAR16",
        !.sample_rate_hertz        = rate,
        !.language_code            = "pl-PL",
        !.enable_word_time_offsets = offsets,
        !.max_alternatives         = max,
        !.speech_contexts          = contexts]

\* With values of the right types it fits the schema.
LEMMA FilledFits ==
    ASSUME NEW rate \in Int32, NEW offsets \in BOOLEAN, NEW max \in Int32,
           NEW contexts \in Seq(SpeechContext)
    PROVE  Filled(rate, offsets, max, contexts) \in RecognitionConfig
<1>1. {"LINEAR16", "ENCODING_UNSPECIFIED"} \subseteq AudioEncoding BY DEF AudioEncoding
<1>2. <<>> \in Seq(ConfigField) OBVIOUS
<1> QED
  BY <1>1, <1>2, LiteralsAreStrings DEF Filled, UnsetRecognitionConfig, RecognitionConfig

\* The configuration fits it, whatever the options.
LEMMA ConfigFits ==
    ASSUME args \in Args, NEW rate \in Int32
    PROVE  build_recognition_config(rate, args) \in RecognitionConfig
<1> DEFINE phrase   == args.context_phrase
           context  == [phrases |-> <<phrase>>]
           contexts == IF phrase = "" THEN <<>> ELSE <<context>>
<1>1. phrase \in STRING /\ args.time_offsets \in BOOLEAN /\ args.max_alternatives \in Int32
  <2>1. {args.context_phrase} \subseteq STRING /\ {args.time_offsets} \subseteq BOOLEAN
        /\ args.max_alternatives \in Int32
    BY PyProgramAssumption
  <2> QED BY <2>1
<1>2. contexts \in Seq(SpeechContext)
  <2>1. context \in SpeechContext BY <1>1, OneElement DEF SpeechContext
  <2>2. <<context>> \in Seq(SpeechContext) BY <2>1, OneElement
  <2>3. <<>> \in Seq(SpeechContext) OBVIOUS
  <2> HIDE DEF context, phrase
  <2> QED BY <2>2, <2>3
<1>3. build_recognition_config(rate, args) =
         Filled(rate, args.time_offsets, args.max_alternatives, contexts)
  BY DEF build_recognition_config, Filled
<1> HIDE DEF contexts
<1> QED BY <1>1, <1>2, <1>3, FilledFits

\* The requests and options of both calls fit the methods they are made to.
LEMMA SyncRequestFits ==
    ASSUME args \in Args, NEW rate \in Int32, NEW size \in Nat
    PROVE  build_sync_request(rate, <<0, size>>, args) \in RecognizeRequest
<1>1. <<0, size>> \in Bytes BY DEF Bytes
<1>2. [content |-> <<0, size>>] \in RecognitionAudio BY <1>1 DEF RecognitionAudio
<1> QED BY <1>2, ConfigFits DEF build_sync_request, RecognizeRequest

\* So do the timeouts.
LEMMA TimeoutFields == ASSUME args \in Args PROVE timeouts_map(args) \in Seq(ConfigField)
<1> DEFINE a == ToString(args.no_input_timeout)
           b == ToString(args.speech_complete_timeout)
           c == ToString(args.speech_incomplete_timeout)
           d == ToString(args.recognition_timeout)
<1>1. {a, b, c, d} \subseteq STRING BY PyProgramAssumption
<1>2. timeouts_map(args) = <<[key |-> "no-input-timeout",          value |-> a],
                             [key |-> "speech-complete-timeout",   value |-> b],
                             [key |-> "speech-incomplete-timeout", value |-> c],
                             [key |-> "recognition-timeout",       value |-> d]>>
  BY DEF timeouts_map
<1> HIDE DEF a, b, c, d
<1> DEFINE p == [key |-> "no-input-timeout",          value |-> a]
           q == [key |-> "speech-complete-timeout",   value |-> b]
           r == [key |-> "speech-incomplete-timeout", value |-> c]
           s == [key |-> "recognition-timeout",       value |-> d]
<1>3. p \in ConfigField /\ q \in ConfigField /\ r \in ConfigField /\ s \in ConfigField
  BY <1>1, LiteralsAreStrings DEF ConfigField
<1>4. timeouts_map(args) = <<p, q, r, s>> BY <1>2
<1> HIDE DEF p, q, r, s
<1> QED BY <1>3, <1>4

\* So does the first request of a stream.
LEMMA StreamingRequestFits ==
    ASSUME args \in Args, NEW rate \in Int32
    PROVE  build_configuration_request(rate, args) \in StreamingRecognizeRequest
<1> DEFINE config == [build_recognition_config(rate, args) EXCEPT !.config_fields = timeouts_map(args)]
           inner  == [config           |-> config,
                      single_utterance |-> args.single_utterance,
                      interim_results  |-> args.interim_results]
<1>1. config \in RecognitionConfig
  <2> DEFINE c == build_recognition_config(rate, args)
             t == timeouts_map(args)
  <2>1. c \in RecognitionConfig /\ t \in Seq(ConfigField) BY ConfigFits, TimeoutFields
  <2> HIDE DEF c, t
  <2>2. [c EXCEPT !.config_fields = t] \in RecognitionConfig BY <2>1 DEF RecognitionConfig
  <2> QED BY <2>2 DEF c, t
<1>2. {args.single_utterance, args.interim_results} \subseteq BOOLEAN BY PyProgramAssumption
<1>3. build_configuration_request(rate, args) = [streaming_config |-> inner]
  BY DEF build_configuration_request
<1> HIDE DEF config
<1>4. inner \in StreamingRecognitionConfig BY <1>1, <1>2 DEF StreamingRecognitionConfig
<1> HIDE DEF inner
<1> QED BY <1>3, <1>4 DEF StreamingRecognizeRequest

\* The deadline and the metadata are of their types.
LEMMA OptionsFit ==
    ASSUME args \in Args
    PROVE  CallOptions(args) \in Options /\ NoCallOptions \in Options
<1> DEFINE timeout  == IF args.grpc_timeout > 0 THEN <<args.grpc_timeout>> ELSE <<>>
           id       == args.session_id
           metadata == IF id = "" THEN <<>> ELSE <<<<"session_id", id>>>>
<1>1. args.grpc_timeout \in Int /\ id \in STRING
  <2>1. {args.session_id} \subseteq STRING BY PyProgramAssumption
  <2> QED BY <2>1, PyProgramAssumption
<1>2. timeout \in Seq(Nat) BY <1>1
<1>3. metadata \in Seq(Seq(STRING))
  <2>1. <<"session_id", id>> \in Seq(STRING) BY <1>1, LiteralsAreStrings, TwoElements
  <2>2. <<<<"session_id", id>>>> \in Seq(Seq(STRING)) BY <2>1, OneElement
  <2>3. <<>> \in Seq(Seq(STRING)) OBVIOUS
  <2> HIDE DEF id
  <2> QED BY <2>2, <2>3
<1>4. CallOptions(args) = [timeout |-> timeout, metadata |-> metadata] BY DEF CallOptions
<1>5. <<>> \in Seq(Nat) /\ <<>> \in Seq(Seq(STRING)) OBVIOUS
<1> HIDE DEF timeout, metadata
<1> QED BY <1>2, <1>3, <1>4, <1>5 DEF Options, NoCallOptions

\* The responses fit the methods they answer.
LEMMA AlternativesFit ==
    ASSUME args \in Args
    PROVE  \A a \in Alternatives : a \in Seq(SpeechRecognitionAlternative)
<1>1. ASSUME NEW h \in Hypothesis PROVE h \in SpeechRecognitionAlternative
  <2>1. h = [transcript |-> h.transcript, words |-> h.words] BY DEF Hypothesis
  <2>2. h.transcript \in Text /\ h.words \in Seq(WordInfo) BY HypothesisIs
  <2> QED BY <2>1, <2>2 DEF SpeechRecognitionAlternative
<1>2. \A S, T : S \subseteq T => \A s \in Seq(S) : s \in Seq(T) OBVIOUS
<1>3. Hypothesis \subseteq SpeechRecognitionAlternative BY <1>1
<1> QED BY <1>2, <1>3, AlternativesAre

\* A response to a synchronous call fits its method.
LEMMA RecognizeFits ==
    ASSUME args \in Args
    PROVE  RecognizeResponses \subseteq RecognizeResponse
<1> DEFINE Portion == {[alternatives |-> a, lattice |-> <<>>] : a \in Alternatives}
<1>1. \A p \in Portion : p \in SpeechRecognitionResult
  <2>1. ASSUME NEW a \in Seq(SpeechRecognitionAlternative)
        PROVE  [alternatives |-> a, lattice |-> <<>>] \in SpeechRecognitionResult
    BY DEF SpeechRecognitionResult
  <2> QED BY <2>1, AlternativesFit
<1>2. RecognizeResponses =
         {[results |-> r] : r \in {<<>>} \cup {<<p>> : p \in Portion} \cup (Portion \X Portion)}
  BY DEF RecognizeResponses
<1> HIDE DEF Portion
<1>3. \A r \in {<<>>} \cup {<<p>> : p \in Portion} \cup (Portion \X Portion) :
         r \in Seq(SpeechRecognitionResult)
  <2> DEFINE S == SpeechRecognitionResult
  <2>1. Portion \subseteq S BY <1>1
  <2> HIDE DEF S
  <2>2. <<>> \in Seq(S) OBVIOUS
  <2>3. \A p \in Portion : <<p>> \in Seq(S) BY <2>1, OneElement
  <2>4. ASSUME NEW r \in Portion \X Portion PROVE r \in Seq(S)
    <3>1. r = <<r[1], r[2]>> /\ r[1] \in S /\ r[2] \in S BY <2>1
    <3>2. <<r[1], r[2]>> \in Seq(S) BY <3>1, TwoElements
    <3> QED BY <3>1, <3>2
  <2> QED BY <2>2, <2>3, <2>4 DEF S
<1> QED BY <1>2, <1>3 DEF RecognizeResponse

\* A result of a stream, final or not, fits the schema.
LEMMA ResultFits ==
    ASSUME NEW a \in Seq(SpeechRecognitionAlternative), NEW final \in BOOLEAN
    PROVE  Result(a, final) \in StreamingRecognitionResult
<1> DEFINE cause == IF final THEN "SUCCESS" ELSE "RESULT_FINALIZATION_CAUSE_UNSPECIFIED"
<1>1. cause \in ResultFinalizationCause BY DEF ResultFinalizationCause
<1>2. <<>> \in Seq(RecognitionLattice) OBVIOUS
<1>3. Result(a, final) = [alternatives |-> a, is_final |-> final,
                          result_finalization_cause |-> cause, lattice |-> <<>>]
  BY DEF Result
<1> HIDE DEF cause
<1> QED BY <1>1, <1>2, <1>3 DEF StreamingRecognitionResult

\* A response of a stream fits its method.
LEMMA StreamingFits ==
    ASSUME args \in Args
    PROVE  StreamingResponses \subseteq StreamingRecognizeResponse
<1> DEFINE R == StreamingRecognitionResult
<1>1. ASSUME NEW code \in Int32, NEW results_ \in Seq(R), NEW type \in SpeechEventType
      PROVE  [error |-> [code |-> code], results |-> results_, speech_event_type |-> type]
                \in StreamingRecognizeResponse
  BY <1>1 DEF StreamingRecognizeResponse, Status
<1>2. /\ {"SPEECH_EVENT_UNSPECIFIED", "END_OF_SINGLE_UTTERANCE"} \subseteq SpeechEventType
      /\ {0, 3} \subseteq Int32
  BY Fits32 DEF SpeechEventType
<1>3. Interim \in R
  <2> DEFINE h == [transcript |-> <<>>, words |-> <<>>]
  <2>1. <<>> \in Text /\ <<>> \in Seq(WordInfo) BY DEF Text
  <2>2. h \in SpeechRecognitionAlternative BY <2>1 DEF SpeechRecognitionAlternative
  <2>3. Interim = Result(<<h>>, FALSE) BY DEF Interim
  <2> HIDE DEF h
  <2> QED BY <2>2, <2>3, OneElement, ResultFits
<1>4. \A a \in Alternatives : Result(a, TRUE) \in R BY AlternativesFit, ResultFits
<1> DEFINE Some == {<<Result(a, TRUE)>> : a \in Alternatives}
                   \cup IF args.interim_results
                        THEN {<<Interim>>} \cup {<<Result(a, TRUE), Interim>> : a \in Alternatives}
                        ELSE {}
<1>5. ASSUME NEW s \in Some PROVE s \in Seq(R)
  <2> HIDE DEF R
  <2>1. CASE s = <<Interim>> BY <1>3, <2>1, OneElement
  <2>2. CASE \E a \in Alternatives : s = <<Result(a, TRUE)>> BY <1>4, <2>2, OneElement
  <2>3. CASE \E a \in Alternatives : s = <<Result(a, TRUE), Interim>>
    BY <1>3, <1>4, <2>3, TwoElements
  <2> QED BY <2>1, <2>2, <2>3
<1> SUFFICES ASSUME NEW r \in StreamingResponses PROVE r \in StreamingRecognizeResponse
  OBVIOUS
<1>6. \/ r = UnsetStreamingResponse
      \/ r = [UnsetStreamingResponse EXCEPT !.error.code = 3]
      \/ \E s \in Some : r = [UnsetStreamingResponse EXCEPT !.results = s]
      \/ r = [UnsetStreamingResponse EXCEPT !.speech_event_type = "END_OF_SINGLE_UTTERANCE"]
  BY DEF StreamingResponses
<1>7. <<>> \in Seq(R) OBVIOUS
<1> HIDE DEF R, Some
<1>8. CASE r = UnsetStreamingResponse BY <1>1, <1>2, <1>7, <1>8 DEF UnsetStreamingResponse
<1>9. CASE r = [UnsetStreamingResponse EXCEPT !.error.code = 3]
  <2>1. r = [error |-> [code |-> 3], results |-> <<>>,
             speech_event_type |-> "SPEECH_EVENT_UNSPECIFIED"]
    BY <1>9 DEF UnsetStreamingResponse
  <2> QED BY <1>1, <1>2, <1>7, <2>1
<1>10. CASE \E s \in Some : r = [UnsetStreamingResponse EXCEPT !.results = s]
  <2>1. PICK s \in Some : r = [UnsetStreamingResponse EXCEPT !.results = s] BY <1>10
  <2>2. r = [error |-> [code |-> 0], results |-> s,
             speech_event_type |-> "SPEECH_EVENT_UNSPECIFIED"]
    BY <2>1 DEF UnsetStreamingResponse
  <2> QED BY <1>1, <1>2, <1>5, <2>2
<1>11. CASE r = [UnsetStreamingResponse EXCEPT !.speech_event_type = "END_OF_SINGLE_UTTERANCE"]
  <2>1. r = [error |-> [code |-> 0], results |-> <<>>,
             speech_event_type |-> "END_OF_SINGLE_UTTERANCE"]
    BY <1>11 DEF UnsetStreamingResponse
  <2> QED BY <1>1, <1>2, <1>7, <2>1
<1> QED BY <1>6, <1>8, <1>9, <1>10, <1>11

\* A source whose rate fits the configuration.
Fitting == [kind : {"file", "mic"}, rate : 0 .. MaxInt32, size : Nat, frame_samples_size : Nat]

Method == IF args.sync THEN Recognize ELSE StreamingRecognize

CallsMade == {[method |-> Method, request |-> q, options |-> o] :
                 q \in RequestOf(Method), o \in Options}

SourceTypes ==
    /\ pc \in Pc /\ channel \in {"none", "insecure"} /\ closed \in BOOLEAN
    /\ sending \in {"no", "yes", "done"}
    /\ source \in {<<>>} \cup {<<s>> : s \in Fitting}
    /\ data_index \in 0 .. (IF source = <<>> THEN 0 ELSE source[1].size + 1)
    /\ pc \in {"channel", "health", "mode", "load", "open"} => source = <<>>
    /\ pc \in {"call", "waiting", "reading", "print"} => source # <<>>

CallTypes ==
    /\ call \in {<<>>} \cup {<<c>> : c \in CallsMade}
    /\ pc \in {"waiting", "reading", "print"} => call # <<>>
    /\ call = <<>> => responses = <<>>

\* What a file is opened as has a rate that fits, and frames of a natural size.
LEMMA FileOpened ==
    ASSUME args \in Args, args.audio # <<>>,
           NEW frames \in {args.audio[1].size,
                           (args.audio[1].rate \div 1000) * args.frame_length * 2}
    PROVE  [kind |-> "file", rate |-> args.audio[1].rate, size |-> args.audio[1].size,
            frame_samples_size |-> frames] \in Fitting
<1> DEFINE File == [format : {"wav", "other", "none"}, channels : Nat, width : Nat,
                    rate : 0 .. MaxInt32, size : Nat]
           file == args.audio[1]
<1>1. args.audio \in Seq(File) /\ args.frame_length \in Nat BY PyProgramAssumption
<1>2. file \in File
  <2> HIDE DEF File
  <2> QED BY <1>1
<1>3. file.rate \in 0 .. MaxInt32 /\ file.size \in Nat BY <1>2
<1> HIDE DEF file, File
<1>4. file.rate \div 1000 \in Nat
  <2>1. MaxInt32 \in Nat BY Fits32
  <2> QED BY <1>3, <2>1
<1>5. (file.rate \div 1000) * args.frame_length * 2 \in Nat
  <2>1. \A i, k \in Nat : i * k * 2 \in Nat OBVIOUS
  <2> QED BY <1>1, <1>4, <2>1
<1>6. frames \in Nat BY <1>3, <1>5 DEF file
<1> QED BY <1>3, <1>6 DEF Fitting, file

\* Every step keeps the types of the source and what has been read of it.
LEMMA SourceTypesStep ==
    ASSUME ContentInv, SourceInv, SourceTypes, [Next]_vars
    PROVE  SourceTypes'
<1> USE DEF SourceTypes, Goto, Exit, Pc
<1>1. CASE create_channel BY <1>1 DEF create_channel, audioVars
<1>2. CASE check_health BY <1>2 DEF check_health, audioVars
<1>3. CASE ChoosesMode
  <2>1. /\ pc = "mode" /\ UNCHANGED <<channel, source, data_index, closed, sending>>
        /\ pc' \in {"exited", "load", "open"}
    BY <1>3 DEF ChoosesMode, audioVars
  <2> QED BY <2>1
<1>4. CASE AudioLoader \/ AudioStream
  <2>1. /\ pc \in {"load", "open"} /\ UNCHANGED <<channel, data_index, closed, sending>>
        /\ source = <<>> /\ data_index = 0
    BY <1>4 DEF AudioLoader, AudioStream
  <2>2. CASE pc' = "exited" /\ UNCHANGED source BY <2>1, <2>2
  <2>3. CASE pc' = "call" /\ \E s \in Fitting : source' = <<s>>
    <3>1. PICK s \in Fitting : source' = <<s>> BY <2>3
    <3>2. source' # <<>> /\ source'[1] = s BY <3>1
    <3>3. s.size \in Nat BY DEF Fitting
    <3>4. data_index' \in 0 .. s.size + 1 BY <2>1, <3>3
    <3> HIDE DEF Pc
    <3>5. {"call"} \subseteq Pc BY DEF Pc
    <3> QED BY <2>1, <2>3, <3>1, <3>2, <3>4, <3>5
  <2>4. args.audio # <<>> /\ args \in Args
    BY <1>4 DEF AudioLoader, AudioStream, SourceInv, ContentInv
  <2>5. (pc' = "exited" /\ UNCHANGED source) \/ (pc' = "call" /\ \E s \in Fitting : source' = <<s>>)
    BY <1>4, <2>4, FileOpened DEF AudioLoader, AudioStream
  <2> QED BY <2>2, <2>3, <2>5
<1>5. CASE OpensMicrophone
  <2>1. pc = "open" /\ UNCHANGED <<channel, data_index, sending>> /\ source = <<>> /\ data_index = 0
    BY <1>5 DEF OpensMicrophone
  <2>2. CASE pc' = "exited" /\ UNCHANGED <<source, closed>> BY <2>1, <2>2
  <2>3. CASE pc' = "call" /\ closed' = FALSE /\ \E s \in Fitting : source' = <<s>>
    <3>1. PICK s \in Fitting : source' = <<s>> BY <2>3
    <3>2. source' # <<>> /\ source'[1] = s BY <3>1
    <3>3. s.size \in Nat BY DEF Fitting
    <3>4. data_index' \in 0 .. s.size + 1 BY <2>1, <3>3
    <3> HIDE DEF Pc
    <3>5. {"call"} \subseteq Pc BY DEF Pc
    <3> QED BY <2>1, <2>3, <3>1, <3>2, <3>4, <3>5
  <2>4. [kind |-> "mic", rate |-> 16000, size |-> 0, frame_samples_size |-> 3200] \in Fitting
    BY Fits32 DEF Fitting
  <2>5. \/ pc' = "exited" /\ UNCHANGED <<source, closed>>
        \/ pc' = "call" /\ closed' = FALSE /\ \E s \in Fitting : source' = <<s>>
    BY <1>5, <2>4 DEF OpensMicrophone
  <2> QED BY <2>2, <2>3, <2>5
<1>6. CASE CallsRecognize BY <1>6 DEF CallsRecognize, audioVars
<1>7. CASE CallsStreamingRecognize BY <1>7 DEF CallsStreamingRecognize
<1>8. CASE Prints BY <1>8 DEF Prints, audioVars
<1>9. CASE Feeds \/ ReceivesStreamingResponse
  <2>1. pc = "reading" /\ UNCHANGED <<pc, channel, source>> /\ closed' \in BOOLEAN
        /\ sending' \in {sending, "done"}
    BY <1>9 DEF Feeds, FeedsFile, FeedEnds, ReceivesStreamingResponse, CloseSource
  <2>2. PICK s \in Fitting : source = <<s>> BY <2>1
  <2>3. s.size \in Nat /\ s.frame_samples_size \in Nat /\ source[1] = s /\ source # <<>>
    BY <2>2 DEF Fitting
  <2>4. data_index \in 0 .. s.size + 1 BY <2>3
  <2>5. \/ data_index' \in {data_index, s.size, s.size + 1}
        \/ /\ data_index' = data_index + s.frame_samples_size
           /\ data_index' <= s.size
    BY <1>9, <2>3, <2>4
    DEF Feeds, FeedsFile, FeedEnds, ReceivesStreamingResponse, CloseSource
  <2>6. data_index' \in 0 .. s.size + 1 BY <2>3, <2>4, <2>5
  <2> QED BY <2>1, <2>3, <2>6
<1>10. CASE ReceivesRecognizeResponse \/ StreamEnds \/ CallFails
  BY <1>10 DEF ReceivesRecognizeResponse, StreamEnds, CallFails, InCall, audioVars
<1>11. CASE UNCHANGED vars BY <1>11 DEF vars, audioVars
<1> QED
  BY <1>1, <1>2, <1>3, <1>4, <1>5, <1>6, <1>7, <1>8, <1>9, <1>10, <1>11
  DEF Next, MainThread, Answers

\* Every step keeps the types of the call; two steps make it.
LEMMA CallTypesStep ==
    ASSUME ContentInv, OutputInv, SourceInv, SourceTypes, CallTypes, [Next]_vars
    PROVE  CallTypes'
<1> USE DEF CallTypes
<1>0. args \in Args BY DEF ContentInv
<1>1. ASSUME args' = args PROVE CallsMade' = CallsMade BY <1>1 DEF CallsMade, Method
<1>2. CASE CallsRecognize \/ CallsStreamingRecognize
  <2>1. /\ pc = "call" /\ responses = <<>> /\ pc' \in {"waiting", "reading"}
        /\ UNCHANGED <<args, responses>>
    BY <1>2 DEF CallsRecognize, CallsStreamingRecognize, OutputInv, Goto, answerVars
  <2>2. PICK s \in Fitting : source = <<s>> BY <2>1 DEF SourceTypes
  <2>3. s.rate \in Int32 /\ s.size \in Nat /\ source[1] = s BY <2>2, Fits32 DEF Fitting
  <2>4. \E c \in CallsMade : call' = <<c>>
    <3>1. CASE CallsRecognize
      <4>1. build_sync_request(s.rate, <<0, s.size>>, args) \in RequestOf(Method)
        BY <1>0, <2>3, <3>1, SyncRequestFits DEF RequestOf, Method, CallsRecognize
      <4>2. NoCallOptions \in Options /\ Method = Recognize
        BY <1>0, <3>1, OptionsFit DEF Method, CallsRecognize
      <4>3. call' = <<[method |-> Recognize,
                       request |-> build_sync_request(s.rate, <<0, s.size>>, args),
                       options |-> NoCallOptions]>>
        BY <2>3, <3>1 DEF CallsRecognize
      <4> QED BY <4>1, <4>2, <4>3 DEF CallsMade
    <3>2. CASE CallsStreamingRecognize
      <4>1. Method = StreamingRecognize /\ Method # Recognize
        BY <3>2 DEF Method, CallsStreamingRecognize, Recognize, StreamingRecognize
      <4>2. build_configuration_request(s.rate, args) \in RequestOf(Method)
        BY <1>0, <2>3, <4>1, StreamingRequestFits DEF RequestOf
      <4>3. CallOptions(args) \in Options BY <1>0, OptionsFit
      <4>4. call' = <<[method |-> StreamingRecognize,
                       request |-> build_configuration_request(s.rate, args),
                       options |-> CallOptions(args)]>>
        BY <2>3, <3>2 DEF CallsStreamingRecognize
      <4> QED BY <4>1, <4>2, <4>3, <4>4 DEF CallsMade
    <3> QED BY <1>2, <3>1, <3>2
  <2>5. CallsMade' = CallsMade BY <1>1, <2>1
  <2> QED BY <2>1, <2>4, <2>5
<1>3. CASE UNCHANGED <<args, call, responses>> /\ (pc' \in {"waiting", "reading", "print"} => call # <<>>)
  BY <1>1, <1>3
<1>4. CASE ReceivesRecognizeResponse \/ ReceivesStreamingResponse
  <2>1. UNCHANGED <<args, call>> /\ pc \in {"waiting", "reading"}
    BY <1>4 DEF ReceivesRecognizeResponse, ReceivesStreamingResponse
  <2> QED BY <1>1, <2>1
<1>5. CASE create_channel \/ check_health \/ ChoosesMode
  BY <1>3, <1>5 DEF create_channel, check_health, ChoosesMode, Goto, Exit, answerVars
<1>6. CASE AudioLoader \/ AudioStream \/ OpensMicrophone
  BY <1>3, <1>6 DEF AudioLoader, AudioStream, OpensMicrophone, Goto, Exit, answerVars
<1>7. CASE Prints BY <1>3, <1>7 DEF Prints, Exit
<1>8. CASE Feeds BY <1>3, <1>8 DEF Feeds, FeedsFile, FeedEnds, answerVars
<1>9. CASE StreamEnds \/ CallFails
  BY <1>3, <1>9 DEF StreamEnds, CallFails, Goto, Exit, answerVars
<1>10. CASE UNCHANGED vars BY <1>3, <1>10 DEF vars, answerVars
<1> QED
  BY <1>2, <1>4, <1>5, <1>6, <1>7, <1>8, <1>9, <1>10 DEF Next, MainThread, Answers

\* What is reachable is of its types.
LEMMA TypesHold ==
    ASSUME ContentInv, OutputInv, SourceTypes, CallTypes
    PROVE  TypeOK
<1>0. args \in Args BY DEF ContentInv
<1>1. pc \in Pc /\ channel \in {"none", "insecure"} /\ closed \in BOOLEAN
      /\ sending \in {"no", "yes", "done"}
      /\ data_index \in 0 .. (IF source = <<>> THEN 0 ELSE source[1].size + 1)
  BY DEF SourceTypes
<1>2. source \in Seq(Source) /\ Len(source) <= 1
  <2>1. CASE source = <<>> BY <2>1
  <2>2. CASE \E s \in Fitting : source = <<s>>
    <3>1. PICK s \in Fitting : source = <<s>> BY <2>2
    <3>2. 0 .. MaxInt32 \subseteq Nat BY Fits32
    <3>3. s \in Source BY <3>2 DEF Fitting, Source
    <3>4. <<s>> \in Seq(Source) BY <3>3, OneElement
    <3> QED BY <3>1, <3>4
  <2> QED BY <2>1, <2>2 DEF SourceTypes
<1>3. Method \in {Recognize, StreamingRecognize} BY DEF Method
<1>4. /\ Len(call) <= 1
      /\ \A n \in 1 .. Len(call) : /\ call[n].method = Method
                                   /\ call[n].request \in RequestOf(call[n].method)
                                   /\ call[n].options \in Options
      /\ call # <<>> => 1 \in 1 .. Len(call)
  <2>1. CASE call = <<>> BY <2>1
  <2>2. CASE \E c \in CallsMade : call = <<c>>
    <3>1. PICK c \in CallsMade : call = <<c>> BY <2>2
    <3>2. c.method = Method /\ c.request \in RequestOf(Method) /\ c.options \in Options
      BY DEF CallsMade
    <3>3. Len(call) = 1 /\ call[1] = c BY <3>1
    <3> QED BY <3>2, <3>3
  <2> QED BY <2>1, <2>2 DEF CallTypes
<1>5. Answer \subseteq ResponseOf(Method)
  <2>1. Recognize # StreamingRecognize BY DEF Recognize, StreamingRecognize
  <2>2. CASE args.sync BY <1>0, <2>2, RecognizeFits DEF Answer, ResponseOf, Method
  <2>3. CASE ~args.sync BY <1>0, <2>1, <2>3, StreamingFits DEF Answer, ResponseOf, Method
  <2> QED BY <2>2, <2>3
<1>6. \A n \in 1 .. Len(responses) : responses[n] \in ResponseOf(call[1].method)
  <2> SUFFICES ASSUME NEW n \in 1 .. Len(responses) PROVE responses[n] \in ResponseOf(call[1].method)
    OBVIOUS
  <2>1. responses # <<>> OBVIOUS
  <2>2. call[1].method = Method BY <1>4, <2>1 DEF CallTypes
  <2>3. responses[n] \in Answer
    <3> DEFINE A == Answer
    <3>1. responses \in Seq(A) BY DEF ContentInv
    <3> HIDE DEF A
    <3>2. responses[n] \in A BY <3>1
    <3> QED BY <3>2 DEF A
  <2> QED BY <1>5, <2>2, <2>3
<1>7. \A n \in 1 .. Len(results) :
         /\ results[n].transcript \in Text
         /\ \/ results[n].alignment = NoTimes
            \/ results[n].alignment \in Seq(Duration \X Duration)
  <2> DEFINE E == Entry
  <2>1. results \in Seq(E) BY DEF ContentInv
  <2>2. \A x \in E : x.transcript \in Text
                     /\ (x.alignment = NoTimes \/ x.alignment \in Seq(Duration \X Duration))
    BY DEF Entry
  <2> HIDE DEF E
  <2>3. \A n \in 1 .. Len(results) : results[n] \in E BY <2>1
  <2> QED BY <2>2, <2>3
<1>8. exitCode \in {<<>>, <<0>>, <<1>>} BY DEF OutputInv
<1> QED BY <1>0, <1>1, <1>2, <1>3, <1>4, <1>6, <1>7, <1>8 DEF TypeOK

-----------------------------------------------------------------------------
(***************************************************************************)
(* The theorems.                                                           *)
(***************************************************************************)
Inv == IInv /\ ContentInv /\ OutputInv /\ SourceTypes /\ CallTypes

\* What is opened, called, received, made of it and put out agrees in every
\* reachable state.
THEOREM Invariance == Spec => []Inv
<1>1. Init => Inv
  <2>1. Init => IInv BY DEF Init, IInv, SourceInv, OnlyLegalAudio
  <2>2. Init => SourceTypes /\ CallTypes BY DEF Init, SourceTypes, CallTypes, Pc
  <2> QED BY <2>1, <2>2, ContentStart DEF Inv
<1>2. Inv /\ [Next]_vars => Inv'
  <2> SUFFICES ASSUME Inv, [Next]_vars PROVE Inv'
    OBVIOUS
  <2>1. IInv' BY SourceStep, CallStep DEF Inv, IInv
  <2>2. ContentInv' /\ OutputInv' BY ContentStep, OutputStep DEF Inv
  <2>3. SourceTypes' BY SourceTypesStep DEF Inv, IInv
  <2>4. CallTypes' BY CallTypesStep DEF Inv, IInv
  <2> QED BY <2>1, <2>2, <2>3, <2>4 DEF Inv
<1> QED BY <1>1, <1>2, PTL DEF Spec

\* The requests fit the methods they are made to, the responses those they
\* answer, and the results are texts with pairs of times or no times at all.
THEOREM TypeCorrect == Spec => []TypeOK
<1>1. Inv => TypeOK BY TypesHold DEF Inv
<1> QED BY <1>1, Invariance, PTL

\* The checks of AudioLoader and AudioStream reach the request: whatever file
\* or microphone the command line names, the call carries mono audio of 16 bit
\* samples under its own rate.
THEOREM LegalAudio == Spec => []OnlyLegalAudio
<1>1. Inv => OnlyLegalAudio BY DEF Inv, IInv
<1> QED BY <1>1, Invariance, PTL

\* An exit status of 0 means that the transcripts of all hypotheses the service
\* settled have been printed as it gave them, each once and in their order, and
\* nothing else, if the options ask for hypotheses and every response is one that
\* the recognizers can do justice to; any other means that nothing was printed.
THEOREM OutputFaithful == Spec => []PrintedAsGiven
<1>1. Inv => PrintedAsGiven BY PrintedProperties DEF Inv
<1> QED BY <1>1, Invariance, PTL

\* Every time that print_results puts beside a word was given by the service for
\* this word, however many of the words were silence.
THEOREM TimesFaithful == Spec => []TimesBesideTheirWords
<1>1. Inv => TimesBesideTheirWords BY PrintedProperties DEF Inv
<1> QED BY <1>1, Invariance, PTL
===============================================================================
