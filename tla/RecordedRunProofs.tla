------------------------- MODULE RecordedRunProofs -------------------------
(***************************************************************************)
(* What holds of RecordedRun for every log, however long, every set of      *)
(* bundles and every way the text arrives.                                  *)
(***************************************************************************)
EXTENDS RecordedRun, NaturalLemmas, FiniteSetTheorems

-----------------------------------------------------------------------------
(* Flattening *)

\* The function FlattenSeq defines by recursion.
Flattened(s, f) ==
  f = [i \in 1 .. Len(s) |-> IF i = 1 THEN s[i] ELSE f[i - 1] \o s[i]]

LEMMA FlattenedExists ==
  ASSUME NEW X, NEW s \in Seq(Seq(X))
  PROVE  \E f \in [1 .. Len(s) -> Seq(X)] : Flattened(s, f)
<1> DEFINE S == {t \in Seq(Seq(X)) : \E f \in [1 .. Len(t) -> Seq(X)] : Flattened(t, f)}
<1>1. <<>> \in S
  <2>1. [i \in 1 .. 0 |-> <<>>] \in [1 .. Len(<<>>) -> Seq(X)]
    OBVIOUS
  <2>2. Flattened(<<>>, [i \in 1 .. 0 |-> <<>>])
    BY DEF Flattened
  <2>3. <<>> \in Seq(Seq(X))
    OBVIOUS
  <2> QED
    BY <2>1, <2>2, <2>3
<1>2. ASSUME NEW t \in Seq(Seq(X)), NEW x \in Seq(X), t \in S PROVE Append(t, x) \in S
  <2>1. PICK f \in [1 .. Len(t) -> Seq(X)] : Flattened(t, f)
    BY <1>2
  <2> DEFINE n == Len(t)
             u == Append(t, x)
             g == [i \in 1 .. n + 1 |-> IF i = n + 1 THEN (IF n = 0 THEN x ELSE f[n] \o x)
                                                     ELSE f[i]]
  <2>2. n \in Nat /\ u \in Seq(Seq(X)) /\ Len(u) = n + 1 /\ u[n + 1] = x
        /\ \A i \in 1 .. n : u[i] = t[i]
    BY AppendProperties
  <2>3. g \in [1 .. n + 1 -> Seq(X)]
    <3>1. n # 0 => f[n] \in Seq(X)
      <4>1. n # 0 => n \in 1 .. n
        BY <2>2
      <4> QED
        BY <2>1, <4>1
    <3>2. n # 0 => f[n] \o x \in Seq(X)
      BY <3>1
    <3> QED
      BY <2>2, <3>2
  <2>4. \A i \in 1 .. n : f[i] = IF i = 1 THEN t[i] ELSE f[i - 1] \o t[i]
    BY <2>1 DEF Flattened
  <2>5. /\ \A i \in 1 .. n + 1 : i # n + 1 => g[i] = f[i]
        /\ n # 0 => g[n + 1] = f[n] \o x
        /\ n = 0 => g[n + 1] = x
    <3>1. n + 1 \in 1 .. n + 1
      BY <2>2
    <3> QED
      BY <3>1
  <2> HIDE DEF g, u, n
  <2>6. ASSUME NEW i \in 1 .. n + 1
        PROVE  g[i] = IF i = 1 THEN u[i] ELSE g[i - 1] \o u[i]
    <3>1. CASE i = n + 1 /\ n = 0
      BY <2>2, <2>5, <3>1
    <3>2. CASE i = n + 1 /\ n # 0
      <4>1. n \in 1 .. n + 1 /\ n # n + 1 /\ i # 1 /\ i - 1 = n
        BY <2>2, <3>2
      <4>2. g[i] = f[n] \o x /\ g[n] = f[n] /\ u[i] = x
        BY <2>2, <2>5, <3>2, <4>1
      <4> QED
        BY <4>1, <4>2
    <3>3. CASE i # n + 1
      <4>1. i \in 1 .. n /\ (i # 1 => i - 1 \in 1 .. n + 1 /\ i - 1 # n + 1 /\ i - 1 \in 1 .. n)
        BY <2>2, <3>3
      <4>2. g[i] = f[i] /\ u[i] = t[i] /\ (i # 1 => g[i - 1] = f[i - 1])
        BY <2>2, <2>5, <3>3, <4>1
      <4> QED
        BY <2>4, <4>1, <4>2
    <3> QED
      BY <3>1, <3>2, <3>3
  <2>7. Flattened(u, g)
    BY <2>2, <2>3, <2>6 DEF Flattened
  <2>8. u \in S
    BY <2>2, <2>3, <2>7 DEF n
  <2> QED
    BY <2>8 DEF u
<1>3. \A t \in Seq(Seq(X)) : t \in S
  <2> HIDE DEF S
  <2> QED
    BY <1>1, <1>2, SequenceInduction
<1> QED
  BY <1>3

\* FlattenSeq takes the last value of such a function.
LEMMA FlattenLast ==
  ASSUME NEW X, NEW s \in Seq(Seq(X)), s # <<>>
  PROVE  \E f \in [1 .. Len(s) -> Seq(X)] : Flattened(s, f) /\ FlattenSeq(s) = f[Len(s)]
<1> DEFINE f == CHOOSE f : Flattened(s, f)
<1>1. Flattened(s, f)
  BY FlattenedExists
<1>2. Len(s) \in Nat /\ Len(s) # 0
  OBVIOUS
<1>3. FlattenSeq(s) = f[Len(s)]
  BY <1>2 DEF FlattenSeq, Flattened
<1> HIDE DEF f
<1>4. PICK g \in [1 .. Len(s) -> Seq(X)] : Flattened(s, g)
  BY FlattenedExists
<1>5. \A i \in 1 .. Len(s) : f[i] = g[i]
  <2> DEFINE S == {n \in Nat : n + 1 \in 1 .. Len(s) => f[n + 1] = g[n + 1]}
  <2>1. /\ \A i \in 1 .. Len(s) : f[i] = IF i = 1 THEN s[i] ELSE f[i - 1] \o s[i]
        /\ \A i \in 1 .. Len(s) : g[i] = IF i = 1 THEN s[i] ELSE g[i - 1] \o s[i]
    BY <1>1, <1>4 DEF Flattened
  <2>2. 0 \in S
    <3>1. 1 \in 1 .. Len(s) /\ 0 + 1 = 1
      BY <1>2
    <3>2. f[1] = g[1]
      BY <2>1, <3>1
    <3> QED
      BY <3>1, <3>2
  <2>3. ASSUME NEW n \in Nat, n \in S PROVE n + 1 \in S
    <3> DEFINE m == n + 1
    <3>1. SUFFICES ASSUME m + 1 \in 1 .. Len(s) PROVE f[m + 1] = g[m + 1]
      OBVIOUS
    <3>2. m \in 1 .. Len(s) /\ m + 1 # 1 /\ (m + 1) - 1 = m
      BY <1>2, <3>1
    <3>3. f[m] = g[m]
      BY <2>3, <3>2
    <3> HIDE DEF m
    <3>4. f[m + 1] = f[m] \o s[m + 1] /\ g[m + 1] = g[m] \o s[m + 1]
      BY <2>1, <3>1, <3>2
    <3> QED
      BY <3>3, <3>4
  <2>4. \A n \in Nat : n \in S
    <3> HIDE DEF S
    <3> QED
      BY <2>2, <2>3, NaturalInduction
  <2>5. \A i \in 1 .. Len(s) : i - 1 \in Nat /\ (i - 1) + 1 = i
    BY <1>2
  <2> QED
    BY <2>4, <2>5
<1>6. f = g
  BY <1>1, <1>4, <1>5 DEF Flattened
<1> QED
  BY <1>1, <1>3, <1>4, <1>6

\* Flattening one more sequence appends it.
LEMMA FlattenAppend ==
  ASSUME NEW X, NEW s \in Seq(Seq(X)), NEW x \in Seq(X)
  PROVE  /\ FlattenSeq(Append(s, x)) = FlattenSeq(s) \o x
         /\ FlattenSeq(s) \in Seq(X)
<1> DEFINE u == Append(s, x)
           n == Len(s)
<1>1. /\ n \in Nat /\ u \in Seq(Seq(X)) /\ u # <<>> /\ Len(u) = n + 1 /\ u[n + 1] = x
      /\ \A i \in 1 .. n : u[i] = s[i]
  BY AppendProperties
<1> HIDE DEF u
<1>2. PICK g \in [1 .. Len(u) -> Seq(X)] : Flattened(u, g) /\ FlattenSeq(u) = g[Len(u)]
  BY <1>1, FlattenLast
<1>3. \A i \in 1 .. n + 1 : g[i] = IF i = 1 THEN u[i] ELSE g[i - 1] \o u[i]
  BY <1>1, <1>2 DEF Flattened
<1>4. CASE n = 0
  <2>1. s = <<>>
    BY <1>4, EmptySeq
  <2>2. FlattenSeq(s) = <<>>
    BY <2>1 DEF FlattenSeq
  <2>3. FlattenSeq(u) = x
    BY <1>1, <1>2, <1>3, <1>4
  <2> QED
    BY <2>2, <2>3, ConcatEmptySeq DEF u
<1>5. CASE n # 0
  <2>1. s # <<>>
    BY <1>5
  <2>2. PICK f \in [1 .. n -> Seq(X)] : Flattened(s, f) /\ FlattenSeq(s) = f[n]
    BY <2>1, FlattenLast
  <2>3. \A i \in 1 .. n : f[i] = IF i = 1 THEN s[i] ELSE f[i - 1] \o s[i]
    BY <2>2 DEF Flattened
  <2> DEFINE S == {k \in Nat : k + 1 \in 1 .. n => f[k + 1] = g[k + 1]}
  <2>4. 0 \in S
    <3>1. 1 \in 1 .. n /\ 1 \in 1 .. n + 1 /\ 0 + 1 = 1
      BY <1>1, <1>5
    <3>2. f[1] = g[1]
      BY <1>1, <1>3, <2>3, <3>1
    <3> QED
      BY <3>1, <3>2
  <2>5. ASSUME NEW k \in Nat, k \in S PROVE k + 1 \in S
    <3> DEFINE m == k + 1
    <3>1. SUFFICES ASSUME m + 1 \in 1 .. n PROVE f[m + 1] = g[m + 1]
      OBVIOUS
    <3>2. m \in 1 .. n /\ m + 1 # 1 /\ (m + 1) - 1 = m /\ m + 1 \in 1 .. n + 1
      BY <1>1, <3>1
    <3>3. f[m] = g[m]
      BY <2>5, <3>2
    <3> HIDE DEF m
    <3>4. f[m + 1] = f[m] \o s[m + 1] /\ g[m + 1] = g[m] \o s[m + 1]
      BY <1>1, <1>3, <2>3, <3>1, <3>2
    <3> QED
      BY <3>3, <3>4
  <2>6. \A k \in Nat : k \in S
    <3> HIDE DEF S
    <3> QED
      BY <2>4, <2>5, NaturalInduction
  <2>7. n - 1 \in Nat /\ (n - 1) + 1 = n /\ n \in 1 .. n
    BY <1>1, <1>5
  <2>8. f[n] = g[n]
    BY <2>6, <2>7
  <2>9. g[n + 1] = g[n] \o x
    <3>1. n + 1 \in 1 .. n + 1 /\ n + 1 # 1 /\ (n + 1) - 1 = n
      BY <1>1, <1>5
    <3> QED
      BY <1>1, <1>3, <3>1
  <2> QED
    BY <1>1, <1>2, <2>2, <2>7, <2>8, <2>9 DEF u
<1> QED
  BY <1>4, <1>5

-----------------------------------------------------------------------------
(* Appending *)

LEMMA AppendToSet ==
  ASSUME NEW X, NEW s \in Seq(X), NEW x \in X
  PROVE  ToSet(Append(s, x)) = ToSet(s) \cup {x}
<1> DEFINE n == Len(s)
           u == Append(s, x)
<1>1. /\ n \in Nat /\ DOMAIN s = 1 .. n /\ DOMAIN u = 1 .. n + 1 /\ u[n + 1] = x
      /\ \A i \in 1 .. n : u[i] = s[i]
  BY AppendProperties
<1> HIDE DEF n, u
<1>2. (\A i \in 1 .. n + 1 : i \in 1 .. n \/ i = n + 1) /\ 1 .. n \subseteq 1 .. n + 1
      /\ n + 1 \in 1 .. n + 1
  BY <1>1
<1>3. ToSet(u) = ToSet(s) \cup {x}
  <2>1. ASSUME NEW y PROVE y \in ToSet(u) <=> y \in ToSet(s) \cup {x}
    BY <1>1, <1>2, Zenon DEF ToSet
  <2> QED
    BY <2>1
<1> QED
  BY <1>3 DEF u

LEMMA ConcatAppend ==
  ASSUME NEW X, NEW s \in Seq(X), NEW t \in Seq(X), NEW x \in X
  PROVE  s \o Append(t, x) = Append(s \o t, x)
<1>1. <<x>> \in Seq(X) /\ s \o t \in Seq(X)
  BY ConcatProperties
<1>2. Append(t, x) = t \o <<x>> /\ Append(s \o t, x) = (s \o t) \o <<x>>
  BY <1>1, AppendIsConcat
<1> QED
  BY <1>1, <1>2, ConcatAssociative

-----------------------------------------------------------------------------
(* Selecting the members of a sequence that are in a set *)

\* The one-member sequences that Among flattens.
Parts(s, A) == [i \in DOMAIN s |-> IF s[i] \in A THEN <<s[i]>> ELSE <<>>]

LEMMA PartsAppend ==
  ASSUME NEW X, NEW s \in Seq(X), NEW x \in X, NEW A
  PROVE  /\ Parts(s, A) \in Seq(Seq(X))
         /\ Parts(Append(s, x), A) = Append(Parts(s, A), IF x \in A THEN <<x>> ELSE <<>>)
<1> DEFINE n == Len(s)
           u == Append(s, x)
           last == IF x \in A THEN <<x>> ELSE <<>>
<1>1. /\ n \in Nat /\ DOMAIN s = 1 .. n /\ u \in Seq(X) /\ DOMAIN u = 1 .. n + 1
      /\ u[n + 1] = x /\ (\A i \in 1 .. n : u[i] = s[i] /\ s[i] \in X)
      /\ last \in Seq(X)
  BY AppendProperties
<1> HIDE DEF n, u, last
<1>2. /\ Parts(s, A) \in Seq(Seq(X)) /\ Len(Parts(s, A)) = n
      /\ \A i \in 1 .. n : Parts(s, A)[i] = IF s[i] \in A THEN <<s[i]>> ELSE <<>>
  <2>1. Parts(s, A) = [i \in 1 .. n |-> IF s[i] \in A THEN <<s[i]>> ELSE <<>>]
    BY <1>1 DEF Parts
  <2>2. \A i \in 1 .. n : (IF s[i] \in A THEN <<s[i]>> ELSE <<>>) \in Seq(X)
    BY <1>1
  <2>3. Parts(s, A) \in [1 .. n -> Seq(X)]
    BY <2>1, <2>2
  <2> QED
    BY <1>1, <2>1, <2>3
<1>3. /\ Parts(u, A) \in Seq(Seq(X)) /\ Len(Parts(u, A)) = n + 1
      /\ \A i \in 1 .. n + 1 : Parts(u, A)[i] = IF u[i] \in A THEN <<u[i]>> ELSE <<>>
  <2>1. Parts(u, A) = [i \in 1 .. n + 1 |-> IF u[i] \in A THEN <<u[i]>> ELSE <<>>]
    BY <1>1 DEF Parts
  <2>2. \A i \in 1 .. n + 1 : (IF u[i] \in A THEN <<u[i]>> ELSE <<>>) \in Seq(X)
    <3>1. \A i \in 1 .. n + 1 : u[i] \in X
      BY <1>1
    <3> QED
      BY <3>1
  <2>3. Parts(u, A) \in [1 .. n + 1 -> Seq(X)]
    BY <2>1, <2>2
  <2> QED
    BY <1>1, <2>1, <2>3
<1>4. Parts(u, A) = Append(Parts(s, A), last)
  <2> DEFINE v == Append(Parts(s, A), last)
  <2>1. /\ v \in Seq(Seq(X)) /\ Len(v) = n + 1 /\ v[n + 1] = last
        /\ \A i \in 1 .. n : v[i] = Parts(s, A)[i]
    BY <1>1, <1>2, AppendProperties
  <2> HIDE DEF v
  <2>2. ASSUME NEW i \in 1 .. n + 1 PROVE Parts(u, A)[i] = v[i]
    <3>1. CASE i = n + 1
      BY <1>1, <1>3, <2>1, <3>1 DEF last
    <3>2. CASE i # n + 1
      <4>1. i \in 1 .. n
        BY <1>1, <3>2
      <4> QED
        BY <1>1, <1>2, <1>3, <2>1, <4>1
    <3> QED
      BY <3>1, <3>2
  <2>3. Parts(u, A) = v
    BY <1>3, <2>1, <2>2, SeqEqual
  <2> QED
    BY <2>3 DEF v
<1> QED
  BY <1>2, <1>4 DEF u, last

\* Among, member by member.
LEMMA AmongAppend ==
  ASSUME NEW X, NEW s \in Seq(X), NEW x \in X, NEW A
  PROVE  /\ Among(s, A) \in Seq(X)
         /\ Among(Append(s, x), A) = IF x \in A THEN Append(Among(s, A), x) ELSE Among(s, A)
<1> DEFINE last == IF x \in A THEN <<x>> ELSE <<>>
<1>1. \A t : Among(t, A) = FlattenSeq(Parts(t, A))
  BY DEF Among, Parts
<1>2. last \in Seq(X)
  OBVIOUS
<1>3. /\ Parts(s, A) \in Seq(Seq(X)) /\ Parts(Append(s, x), A) = Append(Parts(s, A), last)
  BY PartsAppend
<1> HIDE DEF last
<1>4. Among(Append(s, x), A) = Among(s, A) \o last /\ Among(s, A) \in Seq(X)
  <2>1. \A p \in Seq(Seq(X)) :
          FlattenSeq(Append(p, last)) = FlattenSeq(p) \o last /\ FlattenSeq(p) \in Seq(X)
    BY <1>2, FlattenAppend
  <2> QED
    BY <1>1, <1>3, <2>1
<1>5. CASE x \in A
  BY <1>4, <1>5, AppendIsConcat DEF last
<1>6. CASE x \notin A
  BY <1>4, <1>6, ConcatEmptySeq DEF last
<1> QED
  BY <1>4, <1>5, <1>6

LEMMA AmongEmpty == ASSUME NEW A PROVE Among(<<>>, A) = <<>>
<1>1. [i \in DOMAIN <<>> |-> IF <<>>[i] \in A THEN <<<<>>[i]>> ELSE <<>>] = <<>>
  OBVIOUS
<1>2. FlattenSeq(<<>>) = <<>>
  BY DEF FlattenSeq
<1> QED
  BY <1>1, <1>2 DEF Among

\* A selection holds the members in the set, as many as there are.
LEMMA AmongMembers ==
  ASSUME NEW X, NEW A
  PROVE  \A s \in Seq(X) : /\ Among(s, A) \in Seq(X)
                           /\ ToSet(Among(s, A)) = ToSet(s) \cap A
<1> DEFINE S == {s \in Seq(X) : /\ Among(s, A) \in Seq(X)
                                /\ ToSet(Among(s, A)) = ToSet(s) \cap A}
<1>1. <<>> \in S
  <2>1. ToSet(<<>>) = {}
    BY DEF ToSet
  <2>2. <<>> \in Seq(X)
    OBVIOUS
  <2> QED
    BY <2>1, <2>2, AmongEmpty
<1>2. ASSUME NEW s \in Seq(X), NEW x \in X, s \in S PROVE Append(s, x) \in S
  <2>1. \A t \in Seq(X) : ToSet(Append(t, x)) = ToSet(t) \cup {x}
    BY AppendToSet
  <2>2. CASE x \in A
    <3>1. Among(Append(s, x), A) = Append(Among(s, A), x)
      BY <2>2, AmongAppend
    <3>2. Append(Among(s, A), x) \in Seq(X) /\ Append(s, x) \in Seq(X)
      BY <1>2, AppendProperties
    <3>3. ToSet(Append(Among(s, A), x)) = (ToSet(s) \cap A) \cup {x}
      BY <1>2, <2>1
    <3>4. ToSet(Append(s, x)) \cap A = (ToSet(s) \cap A) \cup {x}
      BY <2>1, <2>2
    <3> QED
      BY <3>1, <3>2, <3>3, <3>4
  <2>3. CASE x \notin A
    <3>1. Among(Append(s, x), A) = Among(s, A)
      BY <2>3, AmongAppend
    <3> QED
      BY <1>2, <2>1, <2>3, <3>1, AppendProperties
  <2> QED
    BY <2>2, <2>3
<1>3. \A s \in Seq(X) : s \in S
  <2> HIDE DEF S
  <2> QED
    BY <1>1, <1>2, SequenceInduction
<1> QED
  BY <1>3

\* Selecting from two sequences one after the other.
LEMMA AmongConcat ==
  ASSUME NEW X, NEW A, NEW s \in Seq(X)
  PROVE  \A t \in Seq(X) : Among(s \o t, A) = Among(s, A) \o Among(t, A)
<1> DEFINE S == {t \in Seq(X) : Among(s \o t, A) = Among(s, A) \o Among(t, A)}
<1>1. <<>> \in S
  <2>1. Among(s, A) \in Seq(X)
    BY AmongMembers
  <2> QED
    BY <2>1, AmongEmpty, ConcatEmptySeq
<1>2. ASSUME NEW t \in Seq(X), NEW x \in X, t \in S PROVE Append(t, x) \in S
  <2>1. /\ Among(s, A) \in Seq(X) /\ Among(t, A) \in Seq(X)
        /\ s \o t \in Seq(X) /\ Append(t, x) \in Seq(X)
    BY AmongMembers, AppendProperties, ConcatProperties
  <2>2. s \o Append(t, x) = Append(s \o t, x)
    BY <2>1, ConcatAppend
  <2>3. Among(s \o t, A) = Among(s, A) \o Among(t, A)
    BY <1>2
  <2>4. CASE x \in A
    <3>1. Among(Append(s \o t, x), A) = Append(Among(s, A) \o Among(t, A), x)
      BY <2>1, <2>3, <2>4, AmongAppend
    <3>2. Among(s, A) \o Among(Append(t, x), A) = Among(s, A) \o Append(Among(t, A), x)
      BY <2>4, AmongAppend
    <3>3. Among(s, A) \o Append(Among(t, A), x) = Append(Among(s, A) \o Among(t, A), x)
      BY <2>1, ConcatAppend
    <3> QED
      BY <2>1, <2>2, <3>1, <3>2, <3>3
  <2>5. CASE x \notin A
    <3>1. \A v \in Seq(X) : Among(Append(v, x), A) = Among(v, A)
      BY <2>5, AmongAppend
    <3>2. Among(Append(t, x), A) = Among(t, A)
      BY <2>5, AmongAppend
    <3> QED
      BY <2>1, <2>2, <2>3, <3>1, <3>2
  <2> QED
    BY <2>4, <2>5
<1>3. \A t \in Seq(X) : t \in S
  <2> HIDE DEF S
  <2> QED
    BY <1>1, <1>2, SequenceInduction
<1> QED
  BY <1>3

-----------------------------------------------------------------------------
(* The log *)

\* A numbered line is a line.
LEMMA RecordedLine ==
  ASSUME NEW kind \in LineKinds, NEW n \in Nat
  PROVE  /\ Numbered(kind, n) \in LogLine
         /\ Numbered(kind, n).form = "object" => /\ Numbered(kind, n) \in Line
                                                 /\ Numbered(kind, n).seq = n
<1>1. kind \in Line \/ kind \in {Blank, Broken, Scalar}
  BY RecordAssumption
<1>2. CASE kind.form = "object"
  <2>1. kind \in Line
    BY <1>1, <1>2 DEF Blank, Broken, Scalar
  <2>2. [kind EXCEPT !.seq = n] \in Line /\ [kind EXCEPT !.seq = n].seq = n
    BY <2>1 DEF Line
  <2> QED
    BY <1>2, <2>2 DEF Numbered, LogLine
<1>3. CASE kind.form # "object"
  BY <1>1, <1>3 DEF Numbered, LogLine
<1> QED
  BY <1>2, <1>3

\* The log only grows, and at its end.
LogGrows ==
  /\ Len(log) \in Nat /\ Len(log') \in Nat /\ Len(log) <= Len(log')
  /\ DOMAIN log = 1 .. Len(log) /\ DOMAIN log' = 1 .. Len(log')
  /\ \A i \in 1 .. Len(log) : log'[i] = log[i]

LEMMA LogStep ==
  ASSUME LogInv, [Next]_vars
  PROVE  LogInv' /\ LogGrows
<1>1. /\ log \in Seq(LogLine) /\ Len(log) \in Nat /\ DOMAIN log = 1 .. Len(log)
  BY DEF LogInv
<1>2. CASE log' = log
  BY <1>1, <1>2 DEF LogInv, LogGrows
<1>3. CASE Record
  <2> DEFINE n == Len(log) + 1
  <2>1. PICK kind \in LineKinds : log' = Append(log, Numbered(kind, n))
    BY <1>3 DEF Record
  <2> DEFINE line == Numbered(kind, n)
  <2>2. /\ line \in LogLine
        /\ line.form = "object" => line \in Line /\ line.seq = n
    BY <1>1, RecordedLine
  <2>3. log' = Append(log, line)
    BY <2>1
  <2> HIDE DEF line
  <2>4. /\ log' \in Seq(LogLine) /\ Len(log') = n /\ DOMAIN log' = 1 .. n /\ log'[n] = line
        /\ \A i \in 1 .. Len(log) : log'[i] = log[i]
    BY <1>1, <2>2, <2>3, AppendProperties
  <2>5. \A i \in 1 .. n : i \in 1 .. Len(log) \/ i = n
    BY <1>1
  <2>6. LogInv'
    <3>1. \A i \in 1 .. n : log'[i].form = "object" => log'[i] \in Line /\ log'[i].seq = i
      BY <1>1, <2>2, <2>4, <2>5 DEF LogInv
    <3> QED
      BY <2>4, <3>1 DEF LogInv
  <2> QED
    BY <1>1, <2>4, <2>6 DEF LogGrows
<1> QED
  BY <1>2, <1>3 DEF Next, vars, WriteIndex, StartReading, ReadChunk, EndStream, OnMessage, Decoded,
              LoadBundle, Validator, Timer

LEMMA LogInit == ASSUME Init PROVE LogInv
BY DEF Init, LogInv

-----------------------------------------------------------------------------
(* Loading a bundle *)

\* What parseEventRecord converts is not what the schema allows.
LEMMA RecordFits ==
  ASSUME NEW line \in Line, FitsSchema(line)
  PROVE  FitsSchema(recordOf(line))
<1>1. line.seqAs = "number" /\ line.tick # Null
  BY DEF FitsSchema, FitsEnvelope, Null, Absent
<1>2. recordOf(line) = line
  BY <1>1 DEF recordOf, Line
<1> QED
  BY <1>2

\* Lines that were read stay where they are.
LEMMA WrittenStays ==
  ASSUME LogInv, LogGrows, NEW j \in Written(log)
  PROVE  j \in Written(log)' /\ log'[j] = log[j]
BY DEF LogInv, LogGrows, Written

LEMMA LoadStepKeeps ==
  ASSUME LogInv, LogInv', LogGrows, LoadInv, [Next]_vars
  PROVE  LoadInv'
<1> DEFINE FromLog == \A i \in DOMAIN events : \E j \in Written(log) : events[i] = recordOf(log[j])
           Fit == \A i \in DOMAIN events : FitsSchema(events[i])
<1>1. FromLog /\ UNCHANGED events => FromLog'
  BY WrittenStays
<1>2. CASE UNCHANGED loadVars
  BY <1>1, <1>2 DEF LoadInv, loadVars
<1>3. CASE StartReading /\ LoadStarts
  BY <1>3 DEF LoadStarts, LoadInv
<1>4. CASE ReadManifest /\ UNCHANGED log
  BY <1>4 DEF ReadManifest, Fail, LoadInv
<1>5. CASE ReadEvents /\ UNCHANGED log
  <2> DEFINE written == Among(log, {line \in ToSet(log) : line.form # "blank"})
  <2>1. stage = "manifest" /\ child = "none" /\ result = "none"
    BY <1>5 DEF ReadEvents, LoadInv
  <2>2. CASE Fail
    BY <1>1, <1>5, <2>1, <2>2 DEF Fail, LoadInv
  <2>3. CASE ~Fail
    <3>1. /\ written # <<>> /\ events' = [i \in DOMAIN written |-> recordOf(written[i])]
          /\ UNCHANGED result
          /\ stage' = "loaded" => setup'.skipValidation
          /\ \/ stage' = "loaded" /\ child' = child
             \/ stage' = "validating" /\ child' = "running"
      BY <1>5, <2>3 DEF ReadEvents
    <3>2. written \in Seq(LogLine) /\ ToSet(written) \subseteq {line \in ToSet(log) : line.form # "blank"}
      BY AmongMembers DEF LogInv
    <3> HIDE DEF written
    <3>3. events' # <<>>
      BY <3>1, <3>2
    <3>4. FromLog'
      <4> SUFFICES ASSUME NEW i \in DOMAIN written
                   PROVE  \E j \in Written(log) : recordOf(written[i]) = recordOf(log[j])
        BY <1>5, <3>1
      <4>1. written[i] \in ToSet(log) /\ written[i].form # "blank"
        BY <3>2 DEF ToSet
      <4>2. PICK j \in DOMAIN log : written[i] = log[j]
        BY <4>1 DEF ToSet
      <4> QED
        BY <4>1, <4>2 DEF Written
    <3> QED
      BY <2>1, <3>1, <3>3, <3>4 DEF LoadInv
  <2> QED
    BY <2>2, <2>3
<1>6. CASE Validated /\ UNCHANGED log
  BY <1>1, <1>6 DEF Validated, LoadInv
<1>7. CASE ValidatorExits /\ UNCHANGED log
  <2>1. child # "none" /\ events # <<>> /\ FromLog
    BY <1>7 DEF ValidatorExits, LoadInv
  <2>2. ValidatorAccepts(log) => Fit
    <3> SUFFICES ASSUME ValidatorAccepts(log), NEW i \in DOMAIN events
                 PROVE  FitsSchema(events[i])
      OBVIOUS
    <3>1. PICK j \in Written(log) : events[i] = recordOf(log[j])
      BY <2>1
    <3>2. log[j].form = "object" /\ FitsSchema(log[j])
      BY DEF ValidatorAccepts
    <3>3. log[j] \in Line
      BY <3>2 DEF LogInv, Written
    <3> QED
      BY <3>1, <3>2, <3>3, RecordFits
  <2>3. UNCHANGED <<setup, stage, events>> /\ child' = "exited" /\ (result' = "accepted" => Fit)
    BY <1>7, <2>2 DEF ValidatorExits, finish, LoadInv
  <2> QED
    BY <1>1, <2>1, <2>3 DEF LoadInv
<1>8. CASE LaunchFails /\ UNCHANGED log
  BY <1>1, <1>8 DEF LaunchFails, finish, LoadInv
<1>9. CASE TimesOut /\ UNCHANGED log
  BY <1>1, <1>9 DEF TimesOut, finish, LoadInv
<1> QED
  BY <1>2, <1>3, <1>4, <1>5, <1>6, <1>7, <1>8, <1>9
  DEF Next, vars, Record, WriteIndex, StartReading, ReadChunk, EndStream, OnMessage, Decoded,
      LoadBundle, LoadStep, Validator, Timer

\* Whatever lines the log holds, whatever is appended to it while it is read and
\* validated, and whether the validator runs, refuses, hangs or is missing, a
\* bundle loaded with validation holds events the schema allows, and some.
THEOREM BundlesAreValid == Spec => []LoadedIsValid
<1>1. Init => LogInv /\ LoadInv
  BY LogInit DEF Init, LoadInit, LoadInv
<1>2. LogInv /\ LoadInv /\ [Next]_vars => (LogInv /\ LoadInv)'
  BY LogStep, LoadStepKeeps
<1>3. LoadInv => LoadedIsValid
  BY DEF LoadInv, LoadedIsValid
<1> QED
  BY <1>1, <1>2, <1>3, PTL DEF Spec

-----------------------------------------------------------------------------
(* The events of some lines *)

EventLine == {line \in LogLine : isMbtEvent(line)}

\* A selection depends on the set only through the members it selects from.
LEMMA AmongSame ==
  ASSUME NEW s, NEW A, NEW B, A \cap ToSet(s) = B \cap ToSet(s)
  PROVE  Among(s, A) = Among(s, B)
<1>1. \A i \in DOMAIN s : s[i] \in A <=> s[i] \in B
  BY DEF ToSet
<1>2. [i \in DOMAIN s |-> IF s[i] \in A THEN <<s[i]>> ELSE <<>>]
        = [i \in DOMAIN s |-> IF s[i] \in B THEN <<s[i]>> ELSE <<>>]
  BY <1>1
<1> QED
  BY <1>2 DEF Among

LEMMA EventsAmong ==
  ASSUME NEW s \in Seq(LogLine)
  PROVE  /\ Events(s) = Among(s, EventLine)
         /\ Events(s) \in Seq(LogLine)
         /\ ToSet(Events(s)) = {line \in ToSet(s) : isMbtEvent(line)}
<1>1. ToSet(s) \subseteq LogLine
  BY LenProperties DEF ToSet
<1>2. EventLine \cap ToSet(s) = {line \in ToSet(s) : isMbtEvent(line)} \cap ToSet(s)
  BY <1>1 DEF EventLine
<1>3. Events(s) = Among(s, EventLine)
  BY <1>2, AmongSame DEF Events
<1> QED
  BY <1>2, <1>3, AmongMembers

LEMMA EventsConcat ==
  ASSUME NEW s \in Seq(LogLine), NEW t \in Seq(LogLine)
  PROVE  Events(s \o t) = Events(s) \o Events(t)
<1>1. s \o t \in Seq(LogLine)
  BY ConcatProperties
<1>2. \A v \in Seq(LogLine) : Events(v) = Among(v, EventLine)
  BY EventsAmong
<1>3. Among(s \o t, EventLine) = Among(s, EventLine) \o Among(t, EventLine)
  BY AmongConcat
<1> QED
  BY <1>1, <1>2, <1>3

LEMMA PartOf ==
  ASSUME NEW X, NEW s \in Seq(X), NEW m \in 1 .. Len(s) + 1, NEW n \in m - 1 .. Len(s)
  PROVE  /\ SubSeq(s, m, n) \in Seq(X)
         /\ Len(SubSeq(s, m, n)) = n - m + 1 /\ DOMAIN SubSeq(s, m, n) = 1 .. n - m + 1
         /\ \A i \in 1 .. n - m + 1 : SubSeq(s, m, n)[i] = s[m + i - 1]
<1>1. m \in Int /\ n \in Int /\ Len(s) \in Nat /\ n - m + 1 \in Nat
  OBVIOUS
<1>2. \A i \in m .. n : s[i] \in X
  BY <1>1, ElementOfSeq
<1>3. /\ SubSeq(s, m, n) \in Seq(X)
      /\ Len(SubSeq(s, m, n)) = IF m <= n THEN n - m + 1 ELSE 0
      /\ \A i \in 1 .. n - m + 1 : SubSeq(s, m, n)[i] = s[m + i - 1]
  BY <1>1, <1>2, SubSeqProperties
<1>4. Len(SubSeq(s, m, n)) = n - m + 1
  BY <1>1, <1>3
<1> QED
  BY <1>3, <1>4, LenProperties

LEMMA PartOfPart ==
  ASSUME NEW X, NEW s \in Seq(X), NEW m \in 1 .. Len(s) + 1, NEW n \in m - 1 .. Len(s),
         NEW k \in 0 .. n - m + 1
  PROVE  SubSeq(SubSeq(s, m, n), 1, k) = SubSeq(s, m, m + k - 1)
<1> DEFINE part == SubSeq(s, m, n)
<1>1. /\ part \in Seq(X) /\ Len(part) = n - m + 1
      /\ \A i \in 1 .. n - m + 1 : part[i] = s[m + i - 1]
  BY PartOf
<1>2. m \in Int /\ n \in Int /\ k \in Nat /\ m + k - 1 \in m - 1 .. Len(s) /\ k - 1 + 1 = k
      /\ (m + k - 1) - m + 1 = k /\ Len(s) \in Nat
  OBVIOUS
<1> HIDE DEF part
<1>3. 1 \in 1 .. Len(part) + 1 /\ k \in 1 - 1 .. Len(part)
  BY <1>1, <1>2
<1>4. /\ SubSeq(part, 1, k) \in Seq(X) /\ Len(SubSeq(part, 1, k)) = k
      /\ \A i \in 1 .. k : SubSeq(part, 1, k)[i] = part[i]
  <2>1. /\ SubSeq(part, 1, k) \in Seq(X) /\ Len(SubSeq(part, 1, k)) = k - 1 + 1
        /\ \A i \in 1 .. k - 1 + 1 : SubSeq(part, 1, k)[i] = part[1 + i - 1]
    BY <1>1, <1>3, PartOf
  <2>2. \A i \in 1 .. k : 1 + i - 1 = i
    BY <1>2
  <2> QED
    BY <1>2, <2>1, <2>2
<1>5. /\ SubSeq(s, m, m + k - 1) \in Seq(X) /\ Len(SubSeq(s, m, m + k - 1)) = k
      /\ \A i \in 1 .. k : SubSeq(s, m, m + k - 1)[i] = s[m + i - 1]
  <2> DEFINE j == m + k - 1
  <2>1. j \in m - 1 .. Len(s) /\ j - m + 1 = k
    BY <1>2
  <2> HIDE DEF j
  <2>2. /\ SubSeq(s, m, j) \in Seq(X) /\ Len(SubSeq(s, m, j)) = k
        /\ \A i \in 1 .. k : SubSeq(s, m, j)[i] = s[m + i - 1]
    BY <2>1, PartOf
  <2> QED
    BY <2>2 DEF j
<1>6. \A i \in 1 .. k : i \in 1 .. n - m + 1
  BY <1>2
<1>7. \A i \in 1 .. k : SubSeq(part, 1, k)[i] = SubSeq(s, m, m + k - 1)[i]
  BY <1>1, <1>4, <1>5, <1>6
<1> QED
  BY <1>4, <1>5, <1>7, SeqEqual DEF part

\* The events of some lines are those of the first of them and then those of the others.
LEMMA EventsSplit ==
  ASSUME NEW s \in Seq(LogLine), NEW m \in 0 .. Len(s), NEW n \in m .. Len(s)
  PROVE  /\ Events(SubSeq(s, 1, n)) = Events(SubSeq(s, 1, m)) \o Events(SubSeq(s, m + 1, n))
         /\ SubSeq(s, 1, m) \o SubSeq(s, m + 1, n) = SubSeq(s, 1, n)
<1>1. /\ Len(s) \in Nat /\ 1 \in 1 .. Len(s) + 1 /\ m \in 1 - 1 .. Len(s) /\ n \in m .. Len(s)
      /\ m + 1 \in 1 .. Len(s) + 1 /\ n \in (m + 1) - 1 .. Len(s)
  OBVIOUS
<1>2. SubSeq(s, 1, m) \o SubSeq(s, m + 1, n) = SubSeq(s, 1, n)
  BY <1>1, ConcatAdjacentSubSeq
<1>3. SubSeq(s, 1, m) \in Seq(LogLine) /\ SubSeq(s, m + 1, n) \in Seq(LogLine)
  BY <1>1, PartOf
<1> QED
  BY <1>2, <1>3, EventsConcat

\* The lines of a part that are no events.
LEMMA RejectedPart ==
  ASSUME NEW X, NEW s \in Seq(X), NEW m \in 1 .. Len(s) + 1, NEW n \in m - 1 .. Len(s)
  PROVE  /\ \A i \in 1 .. n - m + 1 : i \in Rejected(SubSeq(s, m, n)) <=> m + i - 1 \in Rejected(s)
         /\ Rejected(SubSeq(s, m, n)) \subseteq 1 .. n - m + 1
<1>1. /\ DOMAIN SubSeq(s, m, n) = 1 .. n - m + 1 /\ DOMAIN s = 1 .. Len(s)
      /\ \A i \in 1 .. n - m + 1 : SubSeq(s, m, n)[i] = s[m + i - 1]
  BY PartOf, LenProperties
<1>2. \A i \in 1 .. n - m + 1 : m + i - 1 \in 1 .. Len(s)
  OBVIOUS
<1> QED
  BY <1>1, <1>2 DEF Rejected, Written

\* The lines of the beginning of a log that are no events.
LEMMA RejectedPrefix ==
  ASSUME NEW s \in Seq(LogLine), NEW n \in 0 .. Len(s)
  PROVE  /\ \A i \in 1 .. n : i \in Rejected(SubSeq(s, 1, n)) <=> i \in Rejected(s)
         /\ Rejected(SubSeq(s, 1, n)) \subseteq 1 .. n
<1>1. 1 \in 1 .. Len(s) + 1 /\ n \in 1 - 1 .. Len(s) /\ n - 1 + 1 = n
      /\ \A i \in 1 .. n : 1 + i - 1 = i
  OBVIOUS
<1>2. /\ \A i \in 1 .. n - 1 + 1 : i \in Rejected(SubSeq(s, 1, n)) <=> 1 + i - 1 \in Rejected(s)
      /\ Rejected(SubSeq(s, 1, n)) \subseteq 1 .. n - 1 + 1
  BY <1>1, RejectedPart
<1> QED
  BY <1>1, <1>2

\* What the reader takes from some lines: the events of the log up to there, or up
\* to the first line that is no event.
LEMMA ReadOn ==
  ASSUME NEW s \in Seq(LogLine), NEW m \in 0 .. Len(s), NEW n \in m .. Len(s),
         Rejected(SubSeq(s, 1, m)) = {}
  PROVE  LET part == SubSeq(s, m + 1, n)
         IN  \E k \in m .. n :
               /\ Events(SubSeq(s, 1, m)) \o EventsUntilError(s, m + 1, n) = Events(SubSeq(s, 1, k))
               /\ Rejected(SubSeq(s, 1, k)) = {}
               /\ Rejected(part) = {} => k = n
               /\ Rejected(part) # {} => k + 1 \in Rejected(s)
<1> DEFINE part == SubSeq(s, m + 1, n)
           stop == IF Rejected(part) = {} THEN Len(part) ELSE Min(Rejected(part)) - 1
<1>1. /\ Len(s) \in Nat /\ m \in Nat /\ n \in Nat /\ m <= n /\ n <= Len(s)
      /\ m + 1 \in 1 .. Len(s) + 1 /\ n \in (m + 1) - 1 .. Len(s) /\ n - (m + 1) + 1 = n - m
      /\ n - m \in Nat
  OBVIOUS
<1>2. part \in Seq(LogLine) /\ Len(part) = n - m
  BY <1>1, PartOf
<1>3. /\ Rejected(part) \subseteq 1 .. n - m
      /\ \A i \in 1 .. n - m : i \in Rejected(part) <=> (m + 1) + i - 1 \in Rejected(s)
  BY <1>1, RejectedPart
<1> HIDE DEF part
<1>4. /\ stop \in 0 .. n - m
      /\ \A i \in Rejected(part) : stop < i
      /\ Rejected(part) = {} => stop = n - m
      /\ Rejected(part) # {} => stop + 1 \in Rejected(part)
  <2>1. CASE Rejected(part) = {}
    BY <1>1, <1>2, <2>1
  <2>2. CASE Rejected(part) # {}
    <3>1. Rejected(part) \in SUBSET Nat
      BY <1>3
    <3>2. \E x \in Rejected(part) : \A y \in Rejected(part) : x <= y
      BY <2>2, <3>1, LeastNatural
    <3>3. PICK least : /\ least = Min(Rejected(part)) /\ least \in Rejected(part)
                       /\ \A y \in Rejected(part) : least <= y
      BY <3>2 DEF Min
    <3>4. least \in 1 .. n - m /\ stop = least - 1
      BY <1>3, <2>2, <3>3
    <3>5. \A i \in Rejected(part) : least <= i /\ i \in 1 .. n - m
      BY <1>3, <3>3
    <3> HIDE DEF stop
    <3>6. stop + 1 = least
      BY <1>1, <3>4
    <3> QED
      BY <1>1, <2>2, <3>3, <3>4, <3>5, <3>6
  <2> QED
    BY <2>1, <2>2
<1>5. EventsUntilError(s, m + 1, n) = Events(SubSeq(part, 1, stop))
  BY DEF EventsUntilError, part
<1> HIDE DEF stop
<1> DEFINE k == m + stop
<1>6. k \in m .. n /\ k \in m .. Len(s) /\ (m + 1) + stop - 1 = k
  BY <1>1, <1>4
<1>7. SubSeq(part, 1, stop) = SubSeq(s, m + 1, k)
  <2>1. SubSeq(part, 1, stop) = SubSeq(s, m + 1, (m + 1) + stop - 1)
    BY <1>1, <1>4, PartOfPart DEF part
  <2> QED
    BY <1>6, <2>1
<1>8. Events(SubSeq(s, 1, m)) \o EventsUntilError(s, m + 1, n) = Events(SubSeq(s, 1, k))
  <2> HIDE DEF k
  <2> QED
    BY <1>1, <1>5, <1>6, <1>7, EventsSplit
<1>9. Rejected(SubSeq(s, 1, k)) = {}
  <2>1. /\ \A i \in 1 .. k : i \in Rejected(SubSeq(s, 1, k)) <=> i \in Rejected(s)
        /\ Rejected(SubSeq(s, 1, k)) \subseteq 1 .. k
    <3>1. k \in 0 .. Len(s)
      BY <1>1, <1>6
    <3> HIDE DEF k
    <3> QED
      BY <3>1, RejectedPrefix
  <2>2. \A i \in 1 .. m : i \in Rejected(SubSeq(s, 1, m)) <=> i \in Rejected(s)
    BY RejectedPrefix
  <2>3. ASSUME NEW i \in 1 .. k, i \in Rejected(s) PROVE FALSE
    <3>1. CASE i \in 1 .. m
      BY <2>2, <2>3, <3>1
    <3>2. CASE i \notin 1 .. m
      <4>1. i - m \in 1 .. n - m /\ (m + 1) + (i - m) - 1 = i /\ ~(stop < i - m) /\ i \in Nat
        BY <1>1, <1>4, <3>2
      <4>2. i - m \in Rejected(part)
        BY <1>3, <2>3, <4>1
      <4> QED
        BY <1>4, <4>1, <4>2
    <3> QED
      BY <3>1, <3>2
  <2> QED
    BY <2>1, <2>3
<1>10. Rejected(part) = {} => k = n
  BY <1>1, <1>4
<1>11. ASSUME Rejected(part) # {} PROVE k + 1 \in Rejected(s)
  <2>1. stop + 1 \in 1 .. n - m /\ (m + 1) + (stop + 1) - 1 = k + 1
    BY <1>1, <1>3, <1>4, <1>11
  <2> QED
    BY <1>3, <1>4, <1>11, <2>1
<1> QED
  BY <1>6, <1>8, <1>9, <1>10, <1>11 DEF part

-----------------------------------------------------------------------------
(* The chunked reader *)

\* What was read of the log stays when the log grows.
LEMMA PartStays ==
  ASSUME LogInv, LogInv', LogGrows, NEW m \in 1 .. Len(log) + 1, NEW n \in m - 1 .. Len(log)
  PROVE  SubSeq(log', m, n) = SubSeq(log, m, n)
<1>1. log \in Seq(LogLine) /\ log' \in Seq(LogLine)
  BY DEF LogInv
<1>2. m \in 1 .. Len(log') + 1 /\ n \in m - 1 .. Len(log')
  BY DEF LogGrows
<1>3. /\ SubSeq(log, m, n) \in Seq(LogLine) /\ Len(SubSeq(log, m, n)) = n - m + 1
      /\ \A i \in 1 .. n - m + 1 : SubSeq(log, m, n)[i] = log[m + i - 1]
  BY <1>1, PartOf
<1>4. /\ SubSeq(log', m, n) \in Seq(LogLine) /\ Len(SubSeq(log', m, n)) = n - m + 1
      /\ \A i \in 1 .. n - m + 1 : SubSeq(log', m, n)[i] = log'[m + i - 1]
  BY <1>1, <1>2, PartOf
<1>5. \A i \in 1 .. n - m + 1 : log'[m + i - 1] = log[m + i - 1]
  <2>1. \A i \in 1 .. n - m + 1 : m + i - 1 \in 1 .. Len(log)
    BY DEF LogGrows
  <2> QED
    BY <2>1 DEF LogGrows
<1> QED
  BY <1>3, <1>4, <1>5, SeqEqual

LEMMA PrefixStays ==
  ASSUME LogInv, LogInv', LogGrows, NEW n \in 0 .. Len(log)
  PROVE  SubSeq(log', 1, n) = SubSeq(log, 1, n) /\ n \in 0 .. Len(log')
<1>1. 1 \in 1 .. Len(log) + 1 /\ n \in 1 - 1 .. Len(log) /\ n \in 0 .. Len(log')
  BY DEF LogGrows
<1> QED
  BY <1>1, PartStays

LEMMA RejectedStays ==
  ASSUME LogGrows, NEW i \in Rejected(log)
  PROVE  i \in Rejected(log')
BY DEF LogGrows, Rejected, Written

\* The stream when the reader does nothing.
LEMMA StreamWaits ==
  ASSUME LogInv, LogInv', LogGrows, StreamInv, UNCHANGED streamVars, reader' = "stream" => log' # <<>>
  PROVE  StreamInv'
<1>1. PICK n \in 0 .. Len(log) :
             /\ delivered = Events(Prefix(n))
             /\ streamEnd = "none" => n = Whole(position)
             /\ streamEnd = "done" => n = Whole(position + 2)
             /\ streamEnd = "thrown" => n + 1 \in Rejected(log)
             /\ Rejected(Prefix(n)) = {}
  BY DEF StreamInv
<1>2. Prefix(n)' = Prefix(n) /\ n \in 0 .. Len(log')
  BY PrefixStays DEF Prefix
<1>3. position' = position /\ delivered' = delivered /\ streamEnd' = streamEnd
  BY DEF streamVars
<1>4. position' \in 0 .. 3 * Len(log')
  BY <1>3 DEF StreamInv, LogGrows
<1>5. streamEnd' = "thrown" => n + 1 \in Rejected(log')
  BY <1>1, <1>3, RejectedStays
<1> QED
  BY <1>1, <1>2, <1>3, <1>4, <1>5 DEF StreamInv, Whole

\* The stream when the reader gets the text to a position.
LEMMA StreamReads ==
  ASSUME LogInv, StreamInv, streamEnd = "none", log' = log, reader' = reader, log # <<>>,
         NEW to, to \in position .. 3 * Len(log), position' = to,
         NEW n \in Whole(position) .. Len(log), NEW end \in {"none", "done"},
         Deliver(Whole(position) + 1, n, end),
         n = IF end = "none" THEN Whole(to) ELSE Whole(to + 2)
  PROVE  StreamInv'
<1> DEFINE m == Whole(position)
           part == SubSeq(log, m + 1, n)
<1>1. /\ Len(log) \in Nat /\ position \in 0 .. 3 * Len(log) /\ m \in 0 .. Len(log)
      /\ n \in m .. Len(log) /\ n \in 0 .. Len(log) /\ to \in 0 .. 3 * Len(log)
  BY DEF LogInv, StreamInv, Whole
<1>2. delivered = Events(Prefix(m)) /\ Rejected(Prefix(m)) = {}
  BY DEF StreamInv
<1>3. log \in Seq(LogLine)
  BY DEF LogInv
<1> HIDE DEF m
<1>4. PICK k \in m .. n :
             /\ Events(Prefix(m)) \o EventsUntilError(log, m + 1, n) = Events(Prefix(k))
             /\ Rejected(Prefix(k)) = {}
             /\ Rejected(part) = {} => k = n
             /\ Rejected(part) # {} => k + 1 \in Rejected(log)
  BY <1>1, <1>2, <1>3, ReadOn DEF Prefix
<1>5. delivered' = Events(Prefix(k)) /\ streamEnd' = IF Rejected(part) # {} THEN "thrown" ELSE end
  BY <1>2, <1>4 DEF Deliver, m
<1>6. k \in 0 .. Len(log) /\ (streamEnd' = "thrown" <=> Rejected(part) # {})
  BY <1>1, <1>4, <1>5
<1>7. \A i : Prefix(i)' = Prefix(i)
  BY DEF Prefix
<1>8. /\ delivered' = Events(Prefix(k)')
      /\ streamEnd' = "none" => k = Whole(position')
      /\ streamEnd' = "done" => k = Whole(position' + 2)
      /\ streamEnd' = "thrown" => k + 1 \in Rejected(log')
      /\ Rejected(Prefix(k)') = {}
  BY <1>4, <1>5, <1>6, <1>7
<1> QED
  BY <1>1, <1>5, <1>6, <1>8 DEF StreamInv

LEMMA StreamStep ==
  ASSUME LogInv, LogInv', LogGrows, StreamInv, [Next]_vars
  PROVE  StreamInv'
<1>1. CASE UNCHANGED streamVars
  <2>1. reader' = "stream" => log' # <<>>
    <3>1. reader' = reader \/ (log # <<>> /\ log' = log)
      BY <1>1 DEF Next, vars, Record, WriteIndex, StartReading, ReadChunk, EndStream, OnMessage, Decoded,
                  LoadBundle, Validator, Timer
    <3>2. log # <<>> => log' # <<>>
      BY DEF LogInv, LogGrows
    <3> QED
      BY <3>1, <3>2 DEF StreamInv
  <2> QED
    BY <1>1, <2>1, StreamWaits
<1>2. CASE ReadChunk
  <2>1. PICK to \in position + 1 .. 3 * Len(log) :
                /\ position' = to
                /\ Deliver(Whole(position) + 1, Whole(to), "none")
    BY <1>2 DEF ReadChunk
  <2>2. streamEnd = "none" /\ log' = log /\ reader' = reader /\ log # <<>>
    BY <1>2 DEF ReadChunk, StreamInv
  <2>3. Len(log) \in Nat /\ position \in 0 .. 3 * Len(log)
    BY DEF LogInv, StreamInv
  <2>4. Whole(to) \in Whole(position) .. Len(log) /\ to \in position .. 3 * Len(log)
    BY <2>1, <2>3 DEF Whole
  <2> QED
    BY <2>1, <2>2, <2>4, StreamReads
<1>3. CASE EndStream
  <2>1. /\ streamEnd = "none" /\ log' = log /\ reader' = reader /\ log # <<>> /\ position' = position
        /\ Deliver(Whole(position) + 1, Len(log), "done")
    BY <1>3 DEF EndStream, StreamInv
  <2>2. /\ Len(log) \in Nat /\ position \in 0 .. 3 * Len(log)
        /\ position \in {3 * Len(log) - 1, 3 * Len(log)}
    BY <1>3 DEF LogInv, StreamInv, EndStream
  <2>3. /\ Len(log) \in Whole(position) .. Len(log) /\ position \in position .. 3 * Len(log)
        /\ Len(log) = Whole(position + 2)
    BY <2>2 DEF Whole
  <2> QED
    BY <2>1, <2>2, <2>3, StreamReads
<1> QED
  BY <1>1, <1>2, <1>3 DEF Next, vars, Record, WriteIndex, StartReading, OnMessage, Decoded,
                          LoadBundle, Validator, Timer

LEMMA ConcatPrefix ==
  ASSUME NEW X, NEW s \in Seq(X), NEW t \in Seq(X)
  PROVE  SubSeq(s \o t, 1, Len(s)) = s /\ Len(s) <= Len(s \o t)
<1>1. s \o t \in Seq(X) /\ Len(s \o t) = Len(s) + Len(t) /\ Len(s) \in Nat /\ Len(t) \in Nat
  BY ConcatProperties
<1>2. CASE Len(s) = 0
  <2>1. s = <<>>
    BY <1>2, EmptySeq
  <2>2. SubSeq(s \o t, 1, 0) = <<>>
    BY SubSeqEmpty
  <2> QED
    BY <1>1, <1>2, <2>1, <2>2
<1>3. CASE Len(s) # 0
  <2>1. 1 \in 1 .. Len(s) /\ Len(s) \in 1 .. Len(s)
    BY <1>1, <1>3
  <2> QED
    BY <1>1, <2>1, SubSeqOfConcat1, SubSeqFull
<1> QED
  BY <1>2, <1>3

\* However long the log grows, wherever chunks are cut, and whatever lines are no
\* events: what the chunked reader delivered is how the log's events begin; it threw
\* at the first line that is no event, having delivered the events before; and it
\* ended having delivered what the strict parser finds in the whole text it read, the
\* last line without a newline included (jsonl.ts:62-88).
THEOREM ChunksReadTheLog == Spec => []StreamReadsTheLog
<1>1. Init => LogInv /\ StreamInv
  <2> SUFFICES ASSUME Init PROVE StreamInv
    BY LogInit
  <2>1. /\ log = <<>> /\ position = 0 /\ delivered = <<>> /\ streamEnd = "none" /\ reader = "none"
    BY DEF Init
  <2>2. Prefix(0) = <<>> /\ Len(log) = 0
    BY <2>1, SubSeqEmpty DEF Prefix
  <2>3. Events(<<>>) = <<>>
    BY AmongEmpty DEF Events
  <2>4. Rejected(<<>>) = {}
    BY DEF Rejected, Written
  <2>5. Whole(0) = 0 /\ 0 \in 0 .. 0 /\ 0 \in 0 .. 3 * 0
    BY DEF Whole
  <2> QED
    BY <2>1, <2>2, <2>3, <2>4, <2>5 DEF StreamInv
<1>2. LogInv /\ StreamInv /\ [Next]_vars => (LogInv /\ StreamInv)'
  BY LogStep, StreamStep
<1>3. ASSUME LogInv, StreamInv PROVE StreamReadsTheLog
  <2>1. PICK n \in 0 .. Len(log) :
               /\ delivered = Events(Prefix(n))
               /\ streamEnd = "done" => n = Whole(position + 2)
               /\ streamEnd = "thrown" => n + 1 \in Rejected(log)
               /\ Rejected(Prefix(n)) = {}
    BY <1>3 DEF StreamInv
  <2>2. log \in Seq(LogLine) /\ Len(log) \in Nat /\ DOMAIN log = 1 .. Len(log)
    BY <1>3 DEF LogInv
  <2>3. IsPrefix(delivered, parseJsonlEvents(log).events)
    <3> DEFINE rest == SubSeq(log, n + 1, Len(log))
    <3>1. Len(log) \in n .. Len(log) /\ SubSeq(log, 1, Len(log)) = log
      BY <2>2, SubSeqFull
    <3>2. Events(log) = Events(Prefix(n)) \o Events(rest)
      BY <2>2, <3>1, EventsSplit DEF Prefix
    <3>3. Prefix(n) \in Seq(LogLine) /\ rest \in Seq(LogLine)
      <4>1. 1 \in 1 .. Len(log) + 1 /\ n \in 1 - 1 .. Len(log)
            /\ n + 1 \in 1 .. Len(log) + 1 /\ Len(log) \in (n + 1) - 1 .. Len(log)
        BY <2>2
      <4> QED
        BY <2>2, <4>1, PartOf DEF Prefix
    <3> HIDE DEF rest
    <3>4. Events(Prefix(n)) \in Seq(LogLine) /\ Events(rest) \in Seq(LogLine)
      BY <3>3, EventsAmong
    <3>5. /\ SubSeq(Events(log), 1, Len(delivered)) = delivered
          /\ Len(delivered) <= Len(Events(log))
      BY <2>1, <3>2, <3>4, ConcatPrefix
    <3>6. SubSeq(delivered, 1, Len(delivered)) = delivered
      BY <2>1, <3>4, SubSeqFull
    <3> QED
      BY <3>5, <3>6 DEF IsPrefix, parseJsonlEvents
  <2>4. ASSUME streamEnd = "thrown"
        PROVE  delivered = EventsUntilError(log, 1, Len(log)) /\ Rejected(log) # {}
    <3>1. n + 1 \in Rejected(log) /\ Rejected(log) \in SUBSET Nat
      BY <2>1, <2>2, <2>4 DEF Rejected, Written
    <3>2. \A i \in Rejected(log) : n + 1 <= i
      <4>1. \A i \in 1 .. n : i \notin Rejected(log)
        BY <2>1, <2>2, RejectedPrefix DEF Prefix
      <4>2. Rejected(log) \subseteq 1 .. Len(log)
        BY <2>2 DEF Rejected, Written
      <4> QED
        BY <2>2, <4>1, <4>2
    <3>3. Min(Rejected(log)) = n + 1
      <4>1. \A x \in Rejected(log) : (\A y \in Rejected(log) : x <= y) => x = n + 1
        BY <3>1, <3>2
      <4>2. Min(Rejected(log)) \in Rejected(log) /\ \A y \in Rejected(log) : Min(Rejected(log)) <= y
        BY <3>1, <3>2 DEF Min
      <4> QED
        BY <4>1, <4>2
    <3>4. SubSeq(log, 1, Len(log)) = log
      BY <2>2, SubSeqFull
    <3>5. EventsUntilError(log, 1, Len(log)) = Events(SubSeq(log, 1, (n + 1) - 1))
      BY <3>1, <3>3, <3>4 DEF EventsUntilError
    <3>6. (n + 1) - 1 = n
      BY <2>2
    <3> QED
      BY <2>1, <3>1, <3>5, <3>6 DEF Prefix
  <2>5. ASSUME streamEnd = "done"
        PROVE  LET strict == parseJsonlStrict(TextRead)
               IN  strict.thrownAt = 0 /\ delivered = strict.events
    <3>1. TextRead = Prefix(n)
      BY <2>1, <2>5 DEF TextRead, Prefix
    <3> QED
      BY <2>1, <3>1 DEF parseJsonlStrict
  <2> QED
    BY <2>3, <2>4, <2>5 DEF StreamReadsTheLog
<1> QED
  BY <1>1, <1>2, <1>3, PTL DEF Spec

-----------------------------------------------------------------------------
(* Counting, and selections of everything or nothing *)

LEMMA AmongAll ==
  ASSUME NEW X, NEW A
  PROVE  \A s \in Seq(X) : ToSet(s) \subseteq A => Among(s, A) = s
<1> DEFINE S == {s \in Seq(X) : ToSet(s) \subseteq A => Among(s, A) = s}
<1>1. <<>> \in S
  <2>1. <<>> \in Seq(X)
    OBVIOUS
  <2> QED
    BY <2>1, AmongEmpty
<1>2. ASSUME NEW s \in Seq(X), NEW x \in X, s \in S PROVE Append(s, x) \in S
  <2>1. ToSet(Append(s, x)) = ToSet(s) \cup {x}
    BY AppendToSet
  <2>2. Append(s, x) \in Seq(X)
    BY AppendProperties
  <2>3. Among(Append(s, x), A) = IF x \in A THEN Append(Among(s, A), x) ELSE Among(s, A)
    BY AmongAppend
  <2> QED
    BY <1>2, <2>1, <2>2, <2>3
<1>3. \A s \in Seq(X) : s \in S
  <2> HIDE DEF S
  <2> QED
    BY <1>1, <1>2, SequenceInduction
<1> QED
  BY <1>3

LEMMA AmongNone ==
  ASSUME NEW X, NEW A, NEW s \in Seq(X), ToSet(s) \cap A = {}
  PROVE  Among(s, A) = <<>>
<1>1. Among(s, A) \in Seq(X) /\ ToSet(Among(s, A)) = {}
  BY AmongMembers
<1>2. Len(Among(s, A)) \in Nat /\ DOMAIN Among(s, A) = 1 .. Len(Among(s, A))
  BY <1>1, LenProperties
<1>3. Len(Among(s, A)) = 0
  <2> SUFFICES ASSUME Len(Among(s, A)) # 0 PROVE FALSE
    OBVIOUS
  <2>1. 1 \in DOMAIN Among(s, A)
    BY <1>2
  <2>2. Among(s, A)[1] \in ToSet(Among(s, A))
    BY <2>1 DEF ToSet
  <2> QED
    BY <1>1, <2>2
<1> QED
  BY <1>1, <1>3, EmptySeq

\* A selection is as long as there are places it selects.
LEMMA AmongCount ==
  ASSUME NEW X, NEW A
  PROVE  \A s \in Seq(X) : /\ IsFiniteSet({i \in DOMAIN s : s[i] \in A})
                           /\ Cardinality({i \in DOMAIN s : s[i] \in A}) = Len(Among(s, A))
<1> DEFINE Places(s) == {i \in DOMAIN s : s[i] \in A}
           S == {s \in Seq(X) : IsFiniteSet(Places(s)) /\ Cardinality(Places(s)) = Len(Among(s, A))}
<1>1. <<>> \in S
  <2>1. Places(<<>>) = {} /\ <<>> \in Seq(X) /\ Len(<<>>) = 0
    OBVIOUS
  <2> QED
    BY <2>1, AmongEmpty, FS_EmptySet
<1>2. ASSUME NEW s \in Seq(X), NEW x \in X, s \in S PROVE Append(s, x) \in S
  <2> DEFINE n == Len(s)
             u == Append(s, x)
  <2>1. /\ n \in Nat /\ DOMAIN s = 1 .. n /\ DOMAIN u = 1 .. n + 1 /\ u[n + 1] = x /\ u \in Seq(X)
        /\ \A i \in 1 .. n : u[i] = s[i]
    BY AppendProperties
  <2>2. (\A i \in 1 .. n + 1 : i \in 1 .. n \/ i = n + 1) /\ 1 .. n \subseteq 1 .. n + 1
        /\ n + 1 \in 1 .. n + 1 /\ n + 1 \notin 1 .. n
    BY <2>1
  <2>3. /\ Among(s, A) \in Seq(X)
        /\ Among(u, A) = IF x \in A THEN Append(Among(s, A), x) ELSE Among(s, A)
    <3> HIDE DEF S, Places
    <3> QED
      BY AmongAppend
  <2>4. IsFiniteSet(Places(s)) /\ Cardinality(Places(s)) = Len(Among(s, A))
    BY <1>2
  <2> HIDE DEF n, u
  <2>5. CASE x \in A
    <3>1. Places(u) = Places(s) \cup {n + 1} /\ n + 1 \notin Places(s)
      <4>1. ASSUME NEW i PROVE i \in Places(u) <=> i \in Places(s) \cup {n + 1}
        BY <2>1, <2>2, <2>5, Zenon
      <4>2. n + 1 \notin Places(s)
        BY <2>1, <2>2, Zenon
      <4> QED
        BY <4>1, <4>2
    <3> HIDE DEF Places
    <3>2. IsFiniteSet(Places(u)) /\ Cardinality(Places(u)) = Cardinality(Places(s)) + 1
      BY <2>4, <3>1, FS_AddElement
    <3>3. Len(Among(u, A)) = Len(Among(s, A)) + 1
      BY <2>3, <2>5, AppendProperties
    <3> QED
      BY <2>1, <2>4, <3>2, <3>3 DEF u
  <2>6. CASE x \notin A
    <3>1. Places(u) = Places(s)
      <4>1. ASSUME NEW i PROVE i \in Places(u) <=> i \in Places(s)
        BY <2>1, <2>2, <2>6, Zenon
      <4> QED
        BY <4>1
    <3> HIDE DEF Places
    <3> QED
      BY <2>1, <2>3, <2>4, <2>6, <3>1 DEF u
  <2> QED
    BY <2>5, <2>6
<1>3. \A s \in Seq(X) : s \in S
  <2> HIDE DEF S
  <2> QED
    BY <1>1, <1>2, SequenceInduction
<1> QED
  BY <1>3

\* A log an index can be built of has as many events as lines that are not blank.
LEMMA EventCount ==
  ASSUME NEW s \in Seq(LogLine), CanBuildIndex(s)
  PROVE  Cardinality(Written(s)) = Len(Events(s))
<1>1. \A i \in DOMAIN s : s[i] \in LogLine
  BY LenProperties
<1>2. Written(s) = {i \in DOMAIN s : s[i] \in EventLine}
  <2>1. \A i \in DOMAIN s : s[i].form # "blank" => isMbtEvent(s[i])
    BY DEF CanBuildIndex, Rejected, Written
  <2>2. \A i \in DOMAIN s : isMbtEvent(s[i]) => s[i].form # "blank"
    BY DEF isMbtEvent
  <2> QED
    BY <1>1, <2>1, <2>2 DEF Written, EventLine
<1>3. Cardinality({i \in DOMAIN s : s[i] \in EventLine}) = Len(Among(s, EventLine))
  BY AmongCount
<1> QED
  BY <1>2, <1>3, EventsAmong

-----------------------------------------------------------------------------
(* The ticks of a log in order *)

\* A finite set of numbers can be listed in increasing order.
LEMMA SortedExists ==
  ASSUME NEW T \in SUBSET Nat, IsFiniteSet(T)
  PROVE  \E f \in [1 .. Cardinality(T) -> T] : \A i, j \in DOMAIN f : i < j => f[i] < f[j]
<1> DEFINE Listed(V, n) == \E f \in [1 .. n -> V] : \A i, j \in 1 .. n : i < j => f[i] < f[j]
           S == {n \in Nat : \A V \in SUBSET Nat : IsFiniteSet(V) /\ Cardinality(V) = n => Listed(V, n)}
<1>1. 0 \in S
  <2>1. ASSUME NEW V \in SUBSET Nat PROVE Listed(V, 0)
    <3>1. \A i \in 1 .. 0 : FALSE
      OBVIOUS
    <3>2. [i \in 1 .. 0 |-> 0] \in [1 .. 0 -> V]
      BY <3>1
    <3> QED
      BY <3>1, <3>2, Zenon
  <2> HIDE DEF Listed
  <2> QED
    BY <2>1
<1>2. ASSUME NEW n \in Nat, n \in S PROVE n + 1 \in S
  <2>1. SUFFICES ASSUME NEW V \in SUBSET Nat, IsFiniteSet(V), Cardinality(V) = n + 1
                 PROVE  Listed(V, n + 1)
    <3> HIDE DEF Listed
    <3> QED
      OBVIOUS
  <2>2. V # {}
    BY <2>1, FS_EmptySet
  <2>3. PICK least \in V : \A v \in V : least <= v
    BY <2>2, LeastNatural
  <2> DEFINE W == V \ {least}
  <2>4. IsFiniteSet(W) /\ Cardinality(W) = n
    <3>1. IsFiniteSet(W) /\ Cardinality(W) = (n + 1) - 1
      <4> HIDE DEF S, Listed
      <4> QED
        BY <2>1, <2>3, FS_RemoveElement
    <3> QED
      BY <3>1
  <2>5. Listed(W, n)
    <3> HIDE DEF Listed
    <3> QED
      BY <1>2, <2>4
  <2>6. PICK f \in [1 .. n -> W] : \A i, j \in 1 .. n : i < j => f[i] < f[j]
    BY <2>5
  <2> DEFINE g == [i \in 1 .. n + 1 |-> IF i = 1 THEN least ELSE f[i - 1]]
  <2>7. \A i \in 1 .. n + 1 : i # 1 => i - 1 \in 1 .. n
    OBVIOUS
  <2>8. g \in [1 .. n + 1 -> V]
    BY <2>3, <2>6, <2>7
  <2>9. ASSUME NEW i \in 1 .. n + 1, NEW j \in 1 .. n + 1, i < j PROVE g[i] < g[j]
    <3>1. j # 1 /\ j - 1 \in 1 .. n
      BY <2>7, <2>9
    <3>2. f[j - 1] \in W /\ g[j] = f[j - 1]
      BY <2>6, <3>1
    <3>3. CASE i = 1
      <4>1. g[i] = least
        BY <3>3
      <4>2. g[j] \in Nat /\ least \in Nat /\ least <= g[j] /\ least # g[j]
        BY <2>3, <3>2
      <4> HIDE DEF g
      <4> QED
        BY <4>1, <4>2
    <3>4. CASE i # 1
      <4>1. i - 1 \in 1 .. n /\ i - 1 < j - 1
        BY <2>9, <3>4
      <4>2. g[i] = f[i - 1]
        BY <3>4
      <4> QED
        BY <2>6, <3>1, <3>2, <4>1, <4>2
    <3> QED
      BY <3>3, <3>4
  <2> HIDE DEF g
  <2> QED
    BY <2>8, <2>9
<1>3. \A n \in Nat : n \in S
  <2> HIDE DEF S
  <2> QED
    BY <1>1, <1>2, NaturalInduction
<1>4. Cardinality(T) \in Nat
  BY FS_CardinalityType
<1>5. Listed(T, Cardinality(T))
  <2> HIDE DEF Listed
  <2> QED
    BY <1>3, <1>4
<1> QED
  BY <1>5

\* The ticks of a log, sorted, and where each begins.
LEMMA SortedTicks ==
  ASSUME NEW s \in Seq(LogLine)
  PROVE  \E n \in Nat :
           /\ sortedTicks(s) \in [1 .. n -> {s[i].tick : i \in Ticked(s)}]
           /\ \A i, j \in 1 .. n : i < j => sortedTicks(s)[i] < sortedTicks(s)[j]
<1> DEFINE ticks == {s[i].tick : i \in Ticked(s)}
<1>1. ticks \in SUBSET Nat
  BY DEF Ticked
<1>2. IsFiniteSet(ticks)
  <2> DEFINE f == [i \in Ticked(s) |-> s[i].tick]
  <2>1. f \in Surjection(Ticked(s), ticks)
    BY DEF Surjection
  <2>2. IsFiniteSet(Ticked(s))
    <3>1. Len(s) \in Nat /\ DOMAIN s = 1 .. Len(s)
      BY LenProperties
    <3>2. IsFiniteSet(1 .. Len(s))
      BY <3>1, FS_Interval
    <3>3. Ticked(s) \in SUBSET (1 .. Len(s))
      BY <3>1 DEF Ticked
    <3> QED
      BY <3>2, <3>3, FS_Subset
  <2> HIDE DEF f, ticks
  <2> QED
    BY <2>1, <2>2, FS_Surjection
<1>3. sortedTicks(s) = CHOOSE f \in [1 .. Cardinality(ticks) -> ticks] :
                         \A i, j \in DOMAIN f : i < j => f[i] < f[j]
  BY DEF sortedTicks
<1> HIDE DEF ticks
<1>4. \E f \in [1 .. Cardinality(ticks) -> ticks] : \A i, j \in DOMAIN f : i < j => f[i] < f[j]
  BY <1>1, <1>2, SortedExists
<1>5. /\ sortedTicks(s) \in [1 .. Cardinality(ticks) -> ticks]
      /\ \A i, j \in DOMAIN sortedTicks(s) : i < j => sortedTicks(s)[i] < sortedTicks(s)[j]
  BY <1>3, <1>4
<1>6. Cardinality(ticks) \in Nat
  BY <1>2, FS_CardinalityType
<1> QED
  BY <1>5, <1>6 DEF ticks

\* The first line of a tick of the log is a line of the log, and none before has the tick.
LEMMA FirstLine ==
  ASSUME NEW s \in Seq(LogLine), NEW tick, tick \in {s[i].tick : i \in Ticked(s)}
  PROVE  /\ firstLine(s, tick) \in Ticked(s)
         /\ s[firstLine(s, tick)].tick = tick
         /\ \A i \in DOMAIN s : s[i].form = "object" /\ s[i].tick = tick => firstLine(s, tick) <= i
<1> DEFINE own == {i \in DOMAIN s : s[i].form = "object" /\ s[i].tick = tick}
<1>1. own \in SUBSET Nat
  BY LenProperties
<1>2. own # {} /\ tick \in Nat
  BY DEF Ticked
<1>3. \E x \in own : \A y \in own : x <= y
  <2> HIDE DEF own
  <2> QED
    BY <1>1, <1>2, LeastNatural
<1>4. firstLine(s, tick) \in own /\ \A y \in own : firstLine(s, tick) <= y
  <2>1. firstLine(s, tick) = Min(own)
    BY DEF firstLine
  <2> HIDE DEF own
  <2> QED
    BY <1>3, <2>1 DEF Min
<1> QED
  BY <1>2, <1>4 DEF Ticked

-----------------------------------------------------------------------------
(* Reading a log range by range *)

\* Where the k-th range of the index of a log starts, and the one before it ends.
Bound(s, k) ==
  IF k = 0 THEN 0
  ELSE IF k <= Len(sortedTicks(s)) THEN firstLine(s, sortedTicks(s)[k]) - 1 ELSE Len(s)

LEMMA IndexRanges ==
  ASSUME NEW s \in Seq(LogLine)
  PROVE  LET N == Len(sortedTicks(s))
             entries == buildTickSidecarIndex(s).tick_entries
         IN  /\ N \in Nat /\ DOMAIN entries = 1 .. N /\ Len(entries) = N
             /\ \A k \in 1 .. N : entries[k] = [tick |-> sortedTicks(s)[k], start |-> Bound(s, k),
                                                end |-> Bound(s, k + 1)]
             /\ \A k \in 1 .. N : sortedTicks(s)[k] \in {s[i].tick : i \in Ticked(s)}
             /\ \A k \in 0 .. N + 1 : Bound(s, k) \in 0 .. Len(s)
             /\ Bound(s, 0) = 0 /\ Bound(s, N + 1) = Len(s)
             /\ IsIndex(buildTickSidecarIndex(s)) => \A k \in 0 .. N : Bound(s, k) <= Bound(s, k + 1)
<1> DEFINE T == sortedTicks(s)
           entries == buildTickSidecarIndex(s).tick_entries
<1>1. PICK N \in Nat : T \in [1 .. N -> {s[i].tick : i \in Ticked(s)}]
  BY SortedTicks
<1>2. Len(T) = N /\ DOMAIN T = 1 .. N /\ \A k \in 1 .. N : T[k] \in {s[i].tick : i \in Ticked(s)}
  BY <1>1
<1>3. entries = [k \in DOMAIN T |-> rangeOfTick(s, T, k)]
  BY DEF buildTickSidecarIndex
<1>4. Len(s) \in Nat /\ DOMAIN s = 1 .. Len(s)
  BY LenProperties
<1>5. \A k \in 1 .. N : firstLine(s, T[k]) \in 1 .. Len(s)
  <2>1. \A k \in 1 .. N : firstLine(s, T[k]) \in Ticked(s)
    BY <1>2, FirstLine
  <2> QED
    BY <1>4, <2>1 DEF Ticked
<1> HIDE DEF T, entries
<1>6. /\ Bound(s, 0) = 0 /\ Bound(s, N + 1) = Len(s)
      /\ \A k \in 1 .. N : Bound(s, k) = firstLine(s, T[k]) - 1
  BY <1>2 DEF Bound, T
<1>7. \A k \in 0 .. N + 1 : Bound(s, k) \in 0 .. Len(s)
  <2>1. \A k \in 0 .. N + 1 : k = 0 \/ k = N + 1 \/ k \in 1 .. N
    OBVIOUS
  <2>2. \A k \in 1 .. N : Bound(s, k) \in 0 .. Len(s)
    BY <1>4, <1>5, <1>6
  <2> QED
    BY <1>4, <1>6, <2>1, <2>2
<1>8. ASSUME NEW k \in 1 .. N
      PROVE  entries[k] = [tick |-> T[k], start |-> Bound(s, k), end |-> Bound(s, k + 1)]
  <2>1. entries[k] = [tick |-> T[k], start |-> firstLine(s, T[k]) - 1,
                      end |-> IF k < N THEN firstLine(s, T[k + 1]) - 1 ELSE Len(s)]
    BY <1>2, <1>3 DEF rangeOfTick
  <2>2. CASE k < N
    <3>1. k + 1 \in 1 .. N
      BY <2>2
    <3> QED
      BY <1>6, <2>1, <2>2, <3>1
  <2>3. CASE ~(k < N)
    <3>1. k = N
      BY <2>3
    <3> QED
      BY <1>6, <2>1, <2>3, <3>1
  <2> QED
    BY <2>2, <2>3
<1>9. DOMAIN entries = 1 .. N /\ Len(entries) = N
  BY <1>2, <1>3
<1>10. ASSUME IsIndex(buildTickSidecarIndex(s)), NEW k \in 0 .. N
       PROVE  Bound(s, k) <= Bound(s, k + 1)
  <2>1. CASE k = 0
    <3>1. Bound(s, 1) \in 0 .. Len(s)
      BY <1>7
    <3> QED
      BY <1>6, <2>1, <3>1
  <2>2. CASE k # 0
    <3>1. k \in 1 .. N
      BY <2>2
    <3>2. entries[k].start <= entries[k].end
      BY <1>9, <1>10, <3>1 DEF IsIndex, entries
    <3> DEFINE entry == entries[k]
               from == Bound(s, k)
               to == Bound(s, k + 1)
    <3>3. entry = [tick |-> T[k], start |-> from, end |-> to] /\ entry.start <= entry.end
      BY <1>8, <3>1, <3>2
    <3> HIDE DEF entry, from, to
    <3>4. entry.start = from /\ entry.end = to
      BY <3>3
    <3>5. from <= to
      BY <3>3, <3>4
    <3> QED
      BY <3>5 DEF from, to
  <2> QED
    BY <2>1, <2>2
<1> QED
  BY <1>2, <1>6, <1>7, <1>8, <1>9, <1>10 DEF T, entries

\* A range of a log that an index can be built of is read without errors.
LEMMA RangeRead ==
  ASSUME NEW s \in Seq(LogLine), NEW n \in 0 .. Len(s), Rejected(SubSeq(s, 1, n)) = {},
         NEW a \in 0 .. n, NEW b \in a .. n
  PROVE  parseRange(s, a, b) = [events |-> Events(SubSeq(s, a + 1, b)), errors |-> {}]
<1> DEFINE part == SubSeq(s, a + 1, b)
<1>1. /\ Len(s) \in Nat /\ n \in Nat /\ a \in Nat /\ b \in Nat /\ b <= Len(s)
      /\ a + 1 \in 1 .. Len(s) + 1 /\ b \in (a + 1) - 1 .. Len(s) /\ b - (a + 1) + 1 = b - a
      /\ 1 \in 1 .. Len(s) + 1 /\ n \in 1 - 1 .. Len(s) /\ n - 1 + 1 = n
  OBVIOUS
<1>2. Min({b, Len(s)}) = b
  BY <1>1 DEF Min
<1>3. Slice(s, a, b) = part
  BY <1>2 DEF Slice
<1>4. Rejected(part) = {}
  <2>1. /\ Rejected(part) \subseteq 1 .. b - a
        /\ \A i \in 1 .. b - a : i \in Rejected(part) <=> (a + 1) + i - 1 \in Rejected(s)
    BY <1>1, RejectedPart
  <2>2. \A i \in 1 .. n : i \notin Rejected(s)
    <3>1. \A i \in 1 .. n - 1 + 1 : i \in Rejected(SubSeq(s, 1, n)) <=> 1 + i - 1 \in Rejected(s)
      BY <1>1, RejectedPart
    <3>2. \A i \in 1 .. n : i \in 1 .. n - 1 + 1 /\ 1 + i - 1 = i
      BY <1>1
    <3> QED
      BY <3>1, <3>2
  <2>3. \A i \in 1 .. b - a : (a + 1) + i - 1 \in 1 .. n
    BY <1>1
  <2> QED
    BY <2>1, <2>2, <2>3
<1> HIDE DEF part
<1>5. parseJsonlEvents(part) = [events |-> Events(part), errors |-> {}]
  BY <1>4 DEF parseJsonlEvents
<1>6. parseRange(s, a, b) = [events |-> Events(part), errors |-> {a + i : i \in {}}]
  BY <1>3, <1>5 DEF parseRange
<1>7. {a + i : i \in {}} = {}
  OBVIOUS
<1> QED
  BY <1>6, <1>7 DEF part

\* What is read from ranges that follow each other is what is read from all of them.
LEMMA RangesRead ==
  ASSUME NEW s \in Seq(LogLine), NEW P \in Seq(Seq(LogLine)), NEW b, b[0] = 0,
         \A k \in 1 .. Len(P) : /\ b[k - 1] \in 0 .. Len(s) /\ b[k] \in b[k - 1] .. Len(s)
                                /\ P[k] = Events(SubSeq(s, b[k - 1] + 1, b[k]))
  PROVE  FlattenSeq(P) = Events(SubSeq(s, 1, b[Len(P)]))
<1> DEFINE S == {j \in Nat : j <= Len(P) => FlattenSeq(SubSeq(P, 1, j)) = Events(SubSeq(s, 1, b[j]))}
<1>1. 0 \in S
  <2>1. SubSeq(P, 1, 0) = <<>> /\ SubSeq(s, 1, 0) = <<>>
    BY SubSeqEmpty
  <2>2. FlattenSeq(<<>>) = <<>> /\ Events(<<>>) = <<>>
    BY AmongEmpty DEF FlattenSeq, Events
  <2> QED
    BY <2>1, <2>2
<1>2. ASSUME NEW j \in Nat, j \in S PROVE j + 1 \in S
  <2> DEFINE k == j + 1
  <2>1. SUFFICES ASSUME k <= Len(P) PROVE FlattenSeq(SubSeq(P, 1, k)) = Events(SubSeq(s, 1, b[k]))
    OBVIOUS
  <2>2. /\ Len(P) \in Nat /\ k \in 1 .. Len(P) /\ k - 1 = j /\ 1 \in 1 .. Len(P) /\ j <= Len(P)
        /\ 1 \in 1 .. Len(P) + 1 /\ j \in 1 - 1 .. Len(P)
    BY <2>1
  <2>3. /\ b[j] \in 0 .. Len(s) /\ b[k] \in b[j] .. Len(s)
        /\ P[k] = Events(SubSeq(s, b[j] + 1, b[k]))
    BY <2>2
  <2>4. FlattenSeq(SubSeq(P, 1, j)) = Events(SubSeq(s, 1, b[j]))
    BY <1>2, <2>2
  <2> HIDE DEF k
  <2>5. SubSeq(P, 1, k) = Append(SubSeq(P, 1, j), P[k])
    <3>1. SubSeq(P, 1, k) = SubSeq(P, 1, k - 1) \o <<P[k]>>
      BY <2>2, SubSeqRecursiveSecond
    <3>2. SubSeq(P, 1, j) \in Seq(Seq(LogLine)) /\ P[k] \in Seq(LogLine)
      BY <2>2, PartOf, ElementOfSeq
    <3> QED
      BY <2>2, <3>1, <3>2, AppendIsConcat
  <2>6. FlattenSeq(Append(SubSeq(P, 1, j), P[k])) = FlattenSeq(SubSeq(P, 1, j)) \o P[k]
    <3>1. SubSeq(P, 1, j) \in Seq(Seq(LogLine)) /\ P[k] \in Seq(LogLine)
      BY <2>2, PartOf, ElementOfSeq
    <3> QED
      BY <3>1, FlattenAppend
  <2>7. Events(SubSeq(s, 1, b[k])) = Events(SubSeq(s, 1, b[j])) \o Events(SubSeq(s, b[j] + 1, b[k]))
    BY <2>3, EventsSplit
  <2> QED
    BY <2>3, <2>4, <2>5, <2>6, <2>7
<1>3. \A j \in Nat : j \in S
  <2> HIDE DEF S
  <2> QED
    BY <1>1, <1>2, NaturalInduction
<1>4. Len(P) \in Nat /\ SubSeq(P, 1, Len(P)) = P
  BY SubSeqFull
<1>5. Len(P) \in S /\ Len(P) <= Len(P)
  <2> HIDE DEF S
  <2> QED
    BY <1>3, <1>4
<1>6. FlattenSeq(SubSeq(P, 1, Len(P))) = Events(SubSeq(s, 1, b[Len(P)]))
  BY <1>5, Zenon
<1> QED
  BY <1>4, <1>6, Zenon

-----------------------------------------------------------------------------
(* Reading a log with an index of what it began with *)

LEMMA IndexRead ==
  ASSUME NEW t \in Seq(LogLine), NEW n \in 0 .. Len(t), Rejected(SubSeq(t, 1, n)) = {},
         IsIndex(buildTickSidecarIndex(SubSeq(t, 1, n))), Len(sortedTicks(SubSeq(t, 1, n))) # 0
  PROVE  parseJsonlEventsUsingSidecar(t, buildTickSidecarIndex(SubSeq(t, 1, n)))
           = [events |-> Events(SubSeq(t, 1, n)), errors |-> {}]
<1> DEFINE s == SubSeq(t, 1, n)
           sidecar == buildTickSidecarIndex(s)
           entries == sidecar.tick_entries
           N == Len(sortedTicks(s))
           R == [events : Seq(LogLine), errors : {{}}]
           read(k) == [events |-> Events(SubSeq(t, Bound(s, k) + 1, Bound(s, k + 1))), errors |-> {}]
           ranges == [k \in DOMAIN entries |-> parseRange(t, entries[k].start, entries[k].end)]
           parts == <<parseBootstrap(t, sidecar)>> \o ranges
           P == [k \in DOMAIN parts |-> parts[k].events]
<1>1. s \in Seq(LogLine) /\ Len(s) = n /\ n \in Nat /\ Len(t) \in Nat
  <2>1. 1 \in 1 .. Len(t) + 1 /\ n \in 1 - 1 .. Len(t) /\ n - 1 + 1 = n
    OBVIOUS
  <2> QED
    BY <2>1, PartOf
<1>2. /\ N \in Nat /\ DOMAIN entries = 1 .. N /\ Len(entries) = N
      /\ \A k \in 1 .. N : entries[k] = [tick |-> sortedTicks(s)[k], start |-> Bound(s, k),
                                         end |-> Bound(s, k + 1)]
      /\ \A k \in 0 .. N + 1 : Bound(s, k) \in 0 .. Len(s)
      /\ Bound(s, 0) = 0 /\ Bound(s, N + 1) = Len(s)
      /\ IsIndex(sidecar) => \A k \in 0 .. N : Bound(s, k) <= Bound(s, k + 1)
  <2> HIDE DEF s
  <2> QED
    BY <1>1, IndexRanges
<1>3. Rejected(SubSeq(t, 1, n)) = {} /\ IsIndex(sidecar) /\ N # 0
  OBVIOUS
<1> HIDE DEF s, sidecar, entries, N
<1>4. \A k \in 0 .. N : /\ k + 1 \in 0 .. N + 1 /\ k \in 0 .. N + 1
                        /\ Bound(s, k) \in 0 .. n /\ Bound(s, k + 1) \in Bound(s, k) .. n
  <2>1. \A k \in 0 .. N : k + 1 \in 0 .. N + 1 /\ k \in 0 .. N + 1
    BY <1>2
  <2>2. ASSUME NEW k \in 0 .. N PROVE Bound(s, k) \in 0 .. n /\ Bound(s, k + 1) \in Bound(s, k) .. n
    <3>1. Bound(s, k) \in 0 .. n /\ Bound(s, k + 1) \in 0 .. n /\ Bound(s, k) <= Bound(s, k + 1)
      BY <1>1, <1>2, <1>3, <2>1
    <3> QED
      BY <1>1, <3>1
  <2> QED
    BY <2>1, <2>2
<1>5. \A k \in 0 .. N : /\ parseRange(t, Bound(s, k), Bound(s, k + 1)) = read(k)
                        /\ read(k) \in R
  <2> TAKE k \in 0 .. N
  <2> DEFINE a == Bound(s, k)
             b == Bound(s, k + 1)
  <2>1. a \in 0 .. n /\ b \in a .. n
    BY <1>4
  <2> HIDE DEF a, b
  <2>2. parseRange(t, a, b) = [events |-> Events(SubSeq(t, a + 1, b)), errors |-> {}]
    BY <1>3, <2>1, RangeRead
  <2>3. a + 1 \in 1 .. Len(t) + 1 /\ b \in (a + 1) - 1 .. Len(t)
    BY <1>1, <2>1
  <2>4. Events(SubSeq(t, a + 1, b)) \in Seq(LogLine)
    BY <2>3, PartOf, EventsAmong
  <2> QED
    BY <2>2, <2>4 DEF a, b
<1>6. parseBootstrap(t, sidecar) = read(0)
  <2>1. Len(<<>>) = 0
    OBVIOUS
  <2>2. entries # <<>> /\ 1 \in 1 .. N
    BY <1>2, <1>3, <2>1
  <2>3. bootstrapEnd(t, sidecar) = Bound(s, 1)
    <3> DEFINE from == Bound(s, 1)
               to == Bound(s, 1 + 1)
               entry == entries[1]
    <3>1. entry = [tick |-> sortedTicks(s)[1], start |-> from, end |-> to]
      BY <1>2, <2>2
    <3>2. bootstrapEnd(t, sidecar) = entry.start
      BY <2>2 DEF bootstrapEnd, entries
    <3> HIDE DEF entry, from, to
    <3>3. entry.start = from
      BY <3>1
    <3> QED
      BY <3>2, <3>3 DEF from
  <2>4. 0 \in 0 .. N /\ 0 + 1 = 1
    BY <1>2
  <2> QED
    BY <1>2, <1>5, <2>3, <2>4 DEF parseBootstrap
<1>7. ranges \in Seq(R) /\ Len(ranges) = N /\ \A k \in 1 .. N : ranges[k] = read(k)
  <2>1. \A k \in 1 .. N : k \in 0 .. N
    BY <1>2
  <2>2. ASSUME NEW k \in 1 .. N PROVE parseRange(t, entries[k].start, entries[k].end) = read(k)
    <3>1. entries[k].start = Bound(s, k) /\ entries[k].end = Bound(s, k + 1)
      <4> DEFINE from == Bound(s, k)
                 to == Bound(s, k + 1)
                 entry == entries[k]
      <4>1. entry = [tick |-> sortedTicks(s)[k], start |-> from, end |-> to]
        BY <1>2
      <4> HIDE DEF entry, from, to
      <4>2. entry.start = from /\ entry.end = to
        BY <4>1
      <4> QED
        BY <4>2 DEF entry, from, to
    <3> HIDE DEF read
    <3> QED
      BY <1>5, <2>1, <3>1
  <2> HIDE DEF read, R
  <2>3. ranges \in [1 .. N -> R] /\ \A k \in 1 .. N : ranges[k] = read(k)
    BY <1>2, <1>5, <2>1, <2>2
  <2> HIDE DEF ranges
  <2> QED
    BY <1>2, <2>3
<1> HIDE DEF ranges, read
<1>8. parts \in Seq(R) /\ Len(parts) = N + 1 /\ \A k \in 1 .. N + 1 : parts[k] = read(k - 1)
  <2> HIDE DEF R
  <2>1. read(0) \in R /\ <<read(0)>> \in Seq(R) /\ Len(<<read(0)>>) = 1 /\ <<read(0)>>[1] = read(0)
    <3>1. 0 \in 0 .. N
      BY <1>2
    <3>2. read(0) \in R
      BY <1>5, <3>1
    <3> QED
      BY <3>2
  <2>2. /\ parts \in Seq(R) /\ Len(parts) = 1 + N
        /\ \A k \in 1 .. 1 + N : parts[k] = IF k <= 1 THEN <<read(0)>>[k] ELSE ranges[k - 1]
    BY <1>6, <1>7, <2>1, ConcatProperties
  <2> HIDE DEF parts
  <2>3. ASSUME NEW k \in 1 .. N + 1 PROVE parts[k] = read(k - 1)
    <3>1. CASE k = 1
      <4>1. k - 1 = 0 /\ k \in 1 .. 1 + N /\ k <= 1
        BY <1>2, <3>1
      <4>2. parts[k] = <<read(0)>>[1]
        BY <2>2, <3>1, <4>1
      <4> QED
        BY <2>1, <4>1, <4>2
    <3>2. CASE k # 1
      <4>1. k - 1 \in 1 .. N /\ k \in 1 .. 1 + N /\ ~(k <= 1)
        BY <1>2, <3>2
      <4> QED
        BY <1>7, <2>2, <4>1
    <3> QED
      BY <3>1, <3>2
  <2> QED
    BY <1>2, <2>2, <2>3
<1> HIDE DEF parts
<1>9. /\ P \in Seq(Seq(LogLine)) /\ Len(P) = N + 1
      /\ \A k \in 1 .. N + 1 : P[k] = Events(SubSeq(t, Bound(s, k - 1) + 1, Bound(s, k)))
      /\ \A k \in 1 .. N + 1 : parts[k].errors = {}
  <2>1. DOMAIN parts = 1 .. N + 1 /\ \A k \in 1 .. N + 1 : parts[k] \in R
    BY <1>2, <1>8, LenProperties, ElementOfSeq
  <2>2. \A k \in 1 .. N + 1 : parts[k].events \in Seq(LogLine) /\ parts[k].errors = {}
    BY <2>1
  <2>3. P \in [1 .. N + 1 -> Seq(LogLine)] /\ \A k \in 1 .. N + 1 : P[k] = parts[k].events
    BY <2>1, <2>2
  <2>4. ASSUME NEW k \in 1 .. N + 1
        PROVE  parts[k].events = Events(SubSeq(t, Bound(s, k - 1) + 1, Bound(s, k)))
    <3> DEFINE j == k - 1
    <3>1. j + 1 = k /\ parts[k] = read(j)
      BY <1>2, <1>8
    <3> HIDE DEF j
    <3>2. read(j).events = Events(SubSeq(t, Bound(s, j) + 1, Bound(s, j + 1)))
      BY DEF read
    <3>3. parts[k].events = Events(SubSeq(t, Bound(s, j) + 1, Bound(s, k)))
      BY <3>1, <3>2
    <3> QED
      BY <3>3 DEF j
  <2> HIDE DEF P
  <2>5. P \in Seq(Seq(LogLine)) /\ Len(P) = N + 1
    BY <1>2, <2>3
  <2> QED
    BY <2>2, <2>3, <2>4, <2>5, Zenon
<1>10. FlattenSeq(P) = Events(s)
  <2> DEFINE b == [k \in 0 .. N + 1 |-> Bound(s, k)]
  <2>1. b[0] = 0 /\ b[N + 1] = n
    <3>1. 0 \in 0 .. N + 1 /\ N + 1 \in 0 .. N + 1
      BY <1>2
    <3> QED
      BY <1>1, <1>2, <3>1
  <2>2. ASSUME NEW k \in 1 .. Len(P)
        PROVE  /\ b[k - 1] \in 0 .. Len(t) /\ b[k] \in b[k - 1] .. Len(t)
               /\ P[k] = Events(SubSeq(t, b[k - 1] + 1, b[k]))
    <3> DEFINE j == k - 1
    <3>1. j \in 0 .. N /\ j + 1 = k /\ k \in 1 .. N + 1 /\ j \in 0 .. N + 1 /\ k \in 0 .. N + 1
      BY <1>2, <1>9
    <3> HIDE DEF P
    <3>2. P[k] = Events(SubSeq(t, Bound(s, j) + 1, Bound(s, k)))
      BY <1>9, <3>1
    <3> HIDE DEF j
    <3>3. b[j] = Bound(s, j) /\ b[k] = Bound(s, k)
      BY <3>1
    <3> HIDE DEF b
    <3>4. Bound(s, j) \in 0 .. n /\ Bound(s, k) \in Bound(s, j) .. n
      BY <1>4, <3>1
    <3>5. b[j] \in 0 .. Len(t) /\ b[k] \in b[j] .. Len(t)
      BY <1>1, <3>3, <3>4
    <3>6. P[k] = Events(SubSeq(t, b[j] + 1, b[k]))
      BY <3>2, <3>3
    <3> QED
      BY <3>5, <3>6 DEF j
  <2> HIDE DEF b, P
  <2>3. FlattenSeq(P) = Events(SubSeq(t, 1, b[Len(P)]))
    BY <1>9, <2>1, <2>2, RangesRead
  <2> QED
    BY <1>9, <2>1, <2>3 DEF s
<1>11. UNION {parts[k].errors : k \in DOMAIN parts} = {}
  <2>1. DOMAIN parts = 1 .. N + 1
    BY <1>2, <1>8, LenProperties
  <2> QED
    BY <1>9, <2>1
<1>12. parseJsonlEventsUsingSidecar(t, sidecar)
         = [events |-> FlattenSeq(P), errors |-> UNION {parts[k].errors : k \in DOMAIN parts}]
  BY DEF parseJsonlEventsUsingSidecar, parts, ranges, entries
<1> QED
  BY <1>10, <1>11, <1>12 DEF s, sidecar

\* An index without ticks has the whole log read.
LEMMA EmptyIndexRead ==
  ASSUME NEW t \in Seq(LogLine), NEW sidecar, sidecar.tick_entries = <<>>
  PROVE  parseJsonlEventsUsingSidecar(t, sidecar) = [events |-> Events(t), errors |-> Rejected(t)]
<1> DEFINE entries == sidecar.tick_entries
           ranges == [k \in DOMAIN entries |-> parseRange(t, entries[k].start, entries[k].end)]
           parts == <<parseBootstrap(t, sidecar)>> \o ranges
           P == [k \in DOMAIN parts |-> parts[k].events]
           whole == [events |-> Events(t), errors |-> Rejected(t)]
<1>1. parseBootstrap(t, sidecar) = whole
  <2>1. bootstrapEnd(t, sidecar) = Len(t) /\ Len(t) \in Nat
    BY DEF bootstrapEnd
  <2>2. Slice(t, 0, Len(t)) = t
    <3>1. Min({Len(t), Len(t)}) = Len(t)
      BY <2>1 DEF Min
    <3>2. SubSeq(t, 1, Len(t)) = t /\ 0 + 1 = 1
      BY SubSeqFull
    <3> QED
      BY <3>1, <3>2 DEF Slice
  <2>3. {0 + i : i \in Rejected(t)} = Rejected(t)
    <3>1. \A i \in Rejected(t) : 0 + i = i
      BY DEF Rejected, Written
    <3> QED
      BY <3>1
  <2>4. parseRange(t, 0, Len(t)) = [events |-> Events(t), errors |-> {0 + i : i \in Rejected(t)}]
    <3>1. /\ parseJsonlEvents(t).events = Events(t)
          /\ parseJsonlEvents(t).errors = Rejected(t)
      BY DEF parseJsonlEvents
    <3> QED
      BY <2>2, <3>1 DEF parseRange
  <2> QED
    BY <2>1, <2>3, <2>4 DEF parseBootstrap
<1>2. ranges = <<>>
  OBVIOUS
<1> HIDE DEF whole, ranges
<1>3. parts = <<whole>>
  BY <1>1, <1>2, ConcatEmptySeq
<1>4. whole.events = Events(t) /\ whole.errors = Rejected(t) /\ Events(t) \in Seq(LogLine)
  BY EventsAmong DEF whole
<1> HIDE DEF parts
<1>5. P = Append(<<>>, Events(t))
  BY <1>3, <1>4
<1>6. FlattenSeq(P) = Events(t)
  <2>1. <<>> \in Seq(Seq(LogLine)) /\ FlattenSeq(<<>>) = <<>>
    BY DEF FlattenSeq
  <2>2. FlattenSeq(Append(<<>>, Events(t))) = FlattenSeq(<<>>) \o Events(t)
    BY <1>4, <2>1, FlattenAppend
  <2> QED
    BY <1>4, <1>5, <2>1, <2>2, ConcatEmptySeq
<1>7. UNION {parts[k].errors : k \in DOMAIN parts} = Rejected(t)
  <2>1. DOMAIN parts = {1} /\ parts[1] = whole
    BY <1>3
  <2> QED
    BY <1>4, <2>1
<1> QED
  BY <1>6, <1>7 DEF parseJsonlEventsUsingSidecar, parts, ranges, whole

\* Read with an index of what it began with, a log shows everything or what was indexed.
LEMMA ReadIndexed ==
  ASSUME NEW t \in Seq(LogLine), NEW n \in 0 .. Len(t), CanBuildIndex(SubSeq(t, 1, n)),
         NEW file, file = buildTickSidecarIndex(SubSeq(t, 1, n))
  PROVE  LET read == parseJsonlEventsWithOptionalSidecar(t, file)
         IN  \/ read.events = Events(t) /\ read.errors = Rejected(t)
             \/ read.index_used /\ read.events = Events(SubSeq(t, 1, n)) /\ read.errors = {}
<1> DEFINE read == parseJsonlEventsWithOptionalSidecar(t, file)
           s == SubSeq(t, 1, n)
<1>1. CASE ~IsIndex(file)
  <2>1. read.events = parseJsonlEvents(t).events /\ read.errors = parseJsonlEvents(t).errors
    BY <1>1 DEF parseJsonlEventsWithOptionalSidecar
  <2> QED
    BY <2>1 DEF parseJsonlEvents
<1>2. CASE IsIndex(file)
  <2>1. /\ read.events = parseJsonlEventsUsingSidecar(t, file).events /\ read.index_used
        /\ read.errors = parseJsonlEventsUsingSidecar(t, file).errors
    BY <1>2 DEF parseJsonlEventsWithOptionalSidecar
  <2> HIDE DEF read
  <2>2. CASE Len(sortedTicks(s)) # 0
    <3>1. parseJsonlEventsUsingSidecar(t, file) = [events |-> Events(s), errors |-> {}]
      BY <1>2, <2>2, IndexRead DEF CanBuildIndex
    <3>2. /\ parseJsonlEventsUsingSidecar(t, file).events = Events(s)
          /\ parseJsonlEventsUsingSidecar(t, file).errors = {}
      BY <3>1
    <3> QED
      BY <2>1, <3>2 DEF read
  <2>3. CASE Len(sortedTicks(s)) = 0
    <3>1. s \in Seq(LogLine)
      <4>1. 1 \in 1 .. Len(t) + 1 /\ n \in 1 - 1 .. Len(t)
        OBVIOUS
      <4> QED
        BY <4>1, PartOf
    <3>2. file.tick_entries = <<>>
      <4> DEFINE entries == file.tick_entries
      <4>1. entries = [k \in DOMAIN sortedTicks(s) |-> rangeOfTick(s, sortedTicks(s), k)]
        BY DEF buildTickSidecarIndex
      <4>2. DOMAIN sortedTicks(s) = 1 .. 0
        <5>1. PICK m \in Nat : sortedTicks(s) \in [1 .. m -> {s[i].tick : i \in Ticked(s)}]
          BY <3>1, SortedTicks
        <5>2. Len(sortedTicks(s)) = m
          BY <5>1
        <5> QED
          BY <2>3, <5>1, <5>2
      <4> HIDE DEF entries, s
      <4>3. entries = [k \in 1 .. 0 |-> rangeOfTick(s, sortedTicks(s), k)]
        BY <4>1, <4>2
      <4> QED
        BY <4>3 DEF entries
    <3>3. parseJsonlEventsUsingSidecar(t, file) = [events |-> Events(t), errors |-> Rejected(t)]
      BY <3>2, EmptyIndexRead
    <3>4. /\ parseJsonlEventsUsingSidecar(t, file).events = Events(t)
          /\ parseJsonlEventsUsingSidecar(t, file).errors = Rejected(t)
      BY <3>3
    <3> QED
      BY <2>1, <3>4 DEF read
  <2> QED
    BY <2>2, <2>3
<1> QED
  BY <1>1, <1>2

LEMMA IndexInit == ASSUME Init PROVE IndexInv
BY DEF Init, IndexInv

LEMMA IndexStep ==
  ASSUME LogInv, LogInv', LogGrows, IndexInv, [Next]_vars
  PROVE  IndexInv'
<1>1. CASE UNCHANGED index
  <2>1. CASE index \in {NoFile, NotAnIndex}
    BY <1>1, <2>1 DEF IndexInv
  <2>2. CASE index \notin {NoFile, NotAnIndex}
    <3>1. PICK n \in DOMAIN log : CanBuildIndex(Prefix(n)) /\ index = buildTickSidecarIndex(Prefix(n))
      BY <2>2 DEF IndexInv
    <3>2. n \in 0 .. Len(log) /\ n \in DOMAIN log'
      BY DEF LogGrows
    <3>3. Prefix(n)' = Prefix(n)
      BY <3>2, PrefixStays DEF Prefix
    <3> QED
      BY <1>1, <3>1, <3>2, <3>3 DEF IndexInv
  <2> QED
    BY <2>1, <2>2
<1>2. CASE WriteIndex
  <2>1. log # <<>> /\ log' = log
        /\ index' = IF CanBuildIndex(log) THEN buildTickSidecarIndex(log) ELSE NotAnIndex
    BY <1>2 DEF WriteIndex
  <2>2. Len(log) \in DOMAIN log /\ Prefix(Len(log)) = log
    <3>1. log \in Seq(LogLine) /\ Len(log) \in Nat /\ DOMAIN log = 1 .. Len(log)
      BY DEF LogInv
    <3>2. Len(log) # 0
      BY <2>1, <3>1, EmptySeq
    <3> QED
      BY <3>1, <3>2, SubSeqFull DEF Prefix
  <2>3. CASE CanBuildIndex(log)
    <3>1. PICK n \in DOMAIN log : n = Len(log)
      BY <2>2
    <3>2. n \in DOMAIN log' /\ SubSeq(log', 1, n) = log
      BY <2>1, <2>2, <3>1 DEF Prefix
    <3>3. /\ CanBuildIndex(SubSeq(log', 1, n))
          /\ index' = buildTickSidecarIndex(SubSeq(log', 1, n))
      BY <2>1, <2>3, <3>2
    <3> QED
      BY <3>2, <3>3 DEF IndexInv, Prefix
  <2>4. CASE ~CanBuildIndex(log)
    BY <2>1, <2>4 DEF IndexInv
  <2> QED
    BY <2>3, <2>4
<1> QED
  BY <1>1, <1>2 DEF Next, vars, Record, StartReading, ReadChunk, EndStream, OnMessage, Decoded,
                    LoadBundle, Validator, Timer

\* The events of a log up to the number of events an index was built from.
LEMMA IndexedEvents ==
  ASSUME NEW t \in Seq(LogLine), NEW n \in 0 .. Len(t), CanBuildIndex(SubSeq(t, 1, n))
  PROVE  LET count == buildTickSidecarIndex(SubSeq(t, 1, n)).event_count
         IN  /\ SubSeq(Events(t), 1, count) = Events(SubSeq(t, 1, n))
             /\ Min({count, Len(Events(t))}) = count
<1> DEFINE s == SubSeq(t, 1, n)
           rest == SubSeq(t, n + 1, Len(t))
           count == buildTickSidecarIndex(s).event_count
<1>1. s \in Seq(LogLine) /\ rest \in Seq(LogLine)
  <2>1. 1 \in 1 .. Len(t) + 1 /\ n \in 1 - 1 .. Len(t)
        /\ n + 1 \in 1 .. Len(t) + 1 /\ Len(t) \in (n + 1) - 1 .. Len(t)
    OBVIOUS
  <2> QED
    BY <2>1, PartOf
<1>2. Events(t) = Events(s) \o Events(rest)
  <2>1. Len(t) \in n .. Len(t) /\ SubSeq(t, 1, Len(t)) = t
    BY SubSeqFull
  <2> QED
    BY <2>1, EventsSplit
<1>3. count = Cardinality(Written(s))
  BY DEF buildTickSidecarIndex
<1> HIDE DEF s, rest, count
<1>4. count = Len(Events(s))
  BY <1>1, <1>3, EventCount DEF s
<1>5. Events(s) \in Seq(LogLine) /\ Events(rest) \in Seq(LogLine)
  BY <1>1, EventsAmong
<1>6. SubSeq(Events(t), 1, count) = Events(s) /\ count <= Len(Events(t))
  BY <1>2, <1>4, <1>5, ConcatPrefix
<1>7. count \in Nat /\ Len(Events(t)) \in Nat
  BY <1>2, <1>4, <1>5
<1>8. Min({count, Len(Events(t))}) = count
  BY <1>6, <1>7 DEF Min
<1> QED
  BY <1>6, <1>8 DEF s, count

\* Whatever lines a log holds and in whatever order its ticks come: read with the
\* index that is made of it, it shows all of its events and errors
\* (tick-index.ts:163-263).
THEOREM IndexedLogsLoseNothing == Spec => []FreshIndexLosesNothing
<1>1. Init => LogInv
  BY LogInit
<1>2. LogInv /\ [Next]_vars => LogInv'
  BY LogStep
<1>3. ASSUME LogInv PROVE FreshIndexLosesNothing
  <2> DEFINE read == parseJsonlEventsWithOptionalSidecar(log, index)
             all == parseJsonlEvents(log)
  <2> SUFFICES ASSUME CanBuildIndex(log), index = buildTickSidecarIndex(log)
               PROVE  read.events = all.events /\ read.errors = all.errors
    BY Zenon DEF FreshIndexLosesNothing
  <2>1. log \in Seq(LogLine) /\ Len(log) \in 0 .. Len(log) /\ SubSeq(log, 1, Len(log)) = log
    <3>1. log \in Seq(LogLine) /\ Len(log) \in Nat
      BY <1>3 DEF LogInv
    <3> QED
      BY <3>1, SubSeqFull
  <2>2. \/ read.events = Events(log) /\ read.errors = Rejected(log)
        \/ read.index_used /\ read.events = Events(log) /\ read.errors = {}
    <3> DEFINE first == SubSeq(log, 1, Len(log))
    <3>1. CanBuildIndex(first) /\ index = buildTickSidecarIndex(first) /\ first = log
      BY <2>1
    <3>2. \/ read.events = Events(log) /\ read.errors = Rejected(log)
          \/ read.index_used /\ read.events = Events(first) /\ read.errors = {}
      <4> HIDE DEF read
      <4> QED
        BY <2>1, <3>1, ReadIndexed DEF read
    <3> HIDE DEF first, read
    <3> QED
      BY <3>1, <3>2
  <2>3. Rejected(log) = {}
    BY DEF CanBuildIndex
  <2>4. all.events = Events(log) /\ all.errors = Rejected(log)
    BY DEF parseJsonlEvents
  <2> HIDE DEF read, all
  <2> QED
    BY <2>2, <2>3, <2>4
<1> QED
  BY <1>1, <1>2, <1>3, PTL DEF Spec

-----------------------------------------------------------------------------
(* Sequences without repetition *)

LEMMA ConcatToSet ==
  ASSUME NEW X, NEW s \in Seq(X), NEW t \in Seq(X)
  PROVE  ToSet(s \o t) = ToSet(s) \cup ToSet(t)
<1> DEFINE m == Len(s)
           n == Len(t)
           u == s \o t
<1>1. /\ m \in Nat /\ n \in Nat /\ DOMAIN s = 1 .. m /\ DOMAIN t = 1 .. n /\ DOMAIN u = 1 .. m + n
      /\ \A i \in 1 .. m + n : u[i] = IF i <= m THEN s[i] ELSE t[i - m]
  BY ConcatProperties, LenProperties
<1> HIDE DEF m, n, u
<1>2. \A i \in 1 .. m : i \in 1 .. m + n /\ u[i] = s[i]
  BY <1>1
<1>3. \A i \in 1 .. n : m + i \in 1 .. m + n /\ u[m + i] = t[i]
  <2>1. \A i \in 1 .. n : m + i \in 1 .. m + n /\ ~(m + i <= m) /\ (m + i) - m = i
    BY <1>1
  <2> QED
    BY <1>1, <2>1
<1>4. \A i \in 1 .. m + n : i \in 1 .. m \/ (i - m \in 1 .. n /\ m + (i - m) = i)
  BY <1>1
<1>5. ToSet(u) = ToSet(s) \cup ToSet(t)
  <2>1. ASSUME NEW i \in 1 .. m + n PROVE u[i] \in ToSet(s) \cup ToSet(t)
    <3>1. CASE i \in 1 .. m
      BY <1>1, <1>2, <3>1 DEF ToSet
    <3>2. CASE i \notin 1 .. m
      <4>1. i - m \in DOMAIN t /\ u[i] = t[i - m]
        BY <1>1, <1>4, <3>2
      <4> QED
        BY <4>1, Zenon DEF ToSet
    <3> QED
      BY <3>1, <3>2
  <2>2. \A i \in 1 .. m : s[i] \in ToSet(u)
    <3>1. \A i \in 1 .. m : s[i] = u[i] /\ i \in DOMAIN u
      BY <1>1, <1>2
    <3> QED
      BY <3>1 DEF ToSet
  <2>3. \A i \in 1 .. n : t[i] \in ToSet(u)
    <3>1. \A i \in 1 .. n : t[i] = u[m + i] /\ m + i \in DOMAIN u
      BY <1>1, <1>3
    <3> QED
      BY <3>1 DEF ToSet
  <2>4. \A v : (v \in ToSet(u) <=> \E i \in 1 .. m + n : v = u[i])
               /\ (v \in ToSet(s) <=> \E i \in 1 .. m : v = s[i])
               /\ (v \in ToSet(t) <=> \E i \in 1 .. n : v = t[i])
    BY <1>1 DEF ToSet
  <2> QED
    BY <2>1, <2>2, <2>3, <2>4
<1> QED
  BY <1>5 DEF u

LEMMA ConcatInjective ==
  ASSUME NEW X, NEW s \in Seq(X), NEW t \in Seq(X), IsInjective(s), IsInjective(t),
         ToSet(s) \cap ToSet(t) = {}
  PROVE  IsInjective(s \o t)
<1> DEFINE m == Len(s)
           n == Len(t)
           u == s \o t
<1>1. /\ m \in Nat /\ n \in Nat /\ DOMAIN s = 1 .. m /\ DOMAIN t = 1 .. n /\ DOMAIN u = 1 .. m + n
      /\ \A i \in 1 .. m + n : u[i] = IF i <= m THEN s[i] ELSE t[i - m]
  BY ConcatProperties, LenProperties
<1> HIDE DEF m, n, u
<1>2. \A i \in 1 .. m + n : \/ i \in 1 .. m /\ u[i] = s[i]
                            \/ i \notin 1 .. m /\ i - m \in 1 .. n /\ u[i] = t[i - m]
  BY <1>1
<1>3. (\A i \in 1 .. m : s[i] \in ToSet(s)) /\ (\A i \in 1 .. n : t[i] \in ToSet(t))
  BY <1>1 DEF ToSet
<1>4. ASSUME NEW i \in 1 .. m + n, NEW j \in 1 .. m + n, u[i] = u[j] PROVE i = j
  <2>1. CASE i \in 1 .. m
    <3>1. j \in 1 .. m
      BY <1>2, <1>3, <1>4, <2>1
    <3> QED
      BY <1>1, <1>2, <1>4, <2>1, <3>1 DEF IsInjective
  <2>2. CASE i \notin 1 .. m
    <3>1. j \notin 1 .. m
      BY <1>2, <1>3, <1>4, <2>2
    <3>2. i - m \in 1 .. n /\ j - m \in 1 .. n /\ t[i - m] = t[j - m]
      BY <1>2, <1>4, <2>2, <3>1
    <3>3. i - m = j - m
      BY <1>1, <3>2 DEF IsInjective
    <3> QED
      BY <1>1, <3>3
  <2> QED
    BY <2>1, <2>2
<1> QED
  BY <1>1, <1>4 DEF IsInjective, u

\* A selection repeats nothing if what it selects stands at one place only.
LEMMA AmongInjective ==
  ASSUME NEW X, NEW A
  PROVE  \A s \in Seq(X) :
           (\A i, j \in DOMAIN s : s[i] \in A /\ s[i] = s[j] => i = j) => IsInjective(Among(s, A))
<1> DEFINE Single(s) == \A i, j \in DOMAIN s : s[i] \in A /\ s[i] = s[j] => i = j
           S == {s \in Seq(X) : Single(s) => IsInjective(Among(s, A))}
<1>1. <<>> \in S
  <2>1. <<>> \in Seq(X) /\ IsInjective(<<>>)
    BY DEF IsInjective
  <2> QED
    BY <2>1, AmongEmpty
<1>2. ASSUME NEW s \in Seq(X), NEW x \in X, s \in S PROVE Append(s, x) \in S
  <2> DEFINE n == Len(s)
             u == Append(s, x)
  <2>1. /\ n \in Nat /\ DOMAIN s = 1 .. n /\ DOMAIN u = 1 .. n + 1 /\ u[n + 1] = x /\ u \in Seq(X)
        /\ \A i \in 1 .. n : u[i] = s[i]
    BY AppendProperties
  <2>2. /\ Among(s, A) \in Seq(X) /\ ToSet(Among(s, A)) = ToSet(s) \cap A
        /\ Among(u, A) = IF x \in A THEN Append(Among(s, A), x) ELSE Among(s, A)
    <3> HIDE DEF S, Single
    <3>1. Among(s, A) \in Seq(X) /\ ToSet(Among(s, A)) = ToSet(s) \cap A
      BY AmongMembers
    <3>2. Among(u, A) = IF x \in A THEN Append(Among(s, A), x) ELSE Among(s, A)
      BY AmongAppend
    <3> QED
      BY <3>1, <3>2
  <2> HIDE DEF n, u
  <2>3. SUFFICES ASSUME Single(u) PROVE IsInjective(Among(u, A))
    BY <2>1 DEF u
  <2>4. \A i \in 1 .. n : i \in DOMAIN u /\ i # n + 1 /\ n + 1 \in DOMAIN u
    BY <2>1
  <2>5. IsInjective(Among(s, A))
    <3>1. Single(s)
      BY <2>1, <2>3, <2>4
    <3> QED
      BY <1>2, <3>1
  <2>6. CASE x \in A
    <3>1. x \notin ToSet(s)
      BY <2>1, <2>3, <2>4, <2>6 DEF ToSet
    <3>2. <<x>> \in Seq(X) /\ IsInjective(<<x>>) /\ ToSet(<<x>>) = {x}
      BY DEF IsInjective, ToSet
    <3>3. Among(u, A) = Among(s, A) \o <<x>>
      BY <2>2, <2>6, AppendIsConcat
    <3> HIDE DEF Single, S
    <3>4. IsInjective(Among(s, A) \o <<x>>)
      BY <2>2, <2>5, <3>1, <3>2, ConcatInjective
    <3> QED
      BY <3>3, <3>4
  <2>7. CASE x \notin A
    BY <2>2, <2>5, <2>7
  <2> QED
    BY <2>6, <2>7
<1>3. \A s \in Seq(X) : s \in S
  <2> HIDE DEF S
  <2> QED
    BY <1>1, <1>2, SequenceInduction
<1> QED
  BY <1>3

-----------------------------------------------------------------------------
(* The live capture *)

\* The events among the lines from .. to.
SentEvents(from, to) == {log[k] : k \in {i \in from .. to : isMbtEvent(log[i])}}

\* Numbered lines differ, so the events of a part of the log do.
LEMMA PartEvents ==
  ASSUME LogInv, NEW m \in 1 .. Len(log) + 1, NEW n \in m - 1 .. Len(log)
  PROVE  /\ Events(SubSeq(log, m, n)) \in Seq(LogLine)
         /\ ToSet(Events(SubSeq(log, m, n))) = SentEvents(m, n)
         /\ IsInjective(Events(SubSeq(log, m, n)))
<1> DEFINE part == SubSeq(log, m, n)
<1>1. /\ part \in Seq(LogLine) /\ DOMAIN part = 1 .. n - m + 1
      /\ \A i \in 1 .. n - m + 1 : part[i] = log[m + i - 1]
  BY PartOf DEF LogInv
<1>2. Len(log) \in Nat /\ m \in Int /\ n \in Int /\ DOMAIN log = 1 .. Len(log)
  BY DEF LogInv
<1> HIDE DEF part
<1>3. \A i \in 1 .. n - m + 1 : m + i - 1 \in m .. n /\ m + i - 1 \in DOMAIN log
  BY <1>2
<1>4. \A k \in m .. n : k - m + 1 \in 1 .. n - m + 1 /\ m + (k - m + 1) - 1 = k
  BY <1>2
<1>5. /\ Events(part) \in Seq(LogLine) /\ Events(part) = Among(part, EventLine)
      /\ ToSet(Events(part)) = {line \in ToSet(part) : isMbtEvent(line)}
  BY <1>1, EventsAmong
<1>6. ToSet(part) = {log[k] : k \in m .. n}
  <2>1. \A i \in 1 .. n - m + 1 : part[i] \in {log[k] : k \in m .. n}
    BY <1>1, <1>3
  <2>2. \A k \in m .. n : log[k] \in ToSet(part)
    <3> TAKE k \in m .. n
    <3>1. k - m + 1 \in DOMAIN part /\ part[k - m + 1] = log[k]
      BY <1>1, <1>4
    <3> QED
      BY <3>1, Zenon DEF ToSet
  <2>3. \A x \in ToSet(part) : \E i \in 1 .. n - m + 1 : x = part[i]
    BY <1>1 DEF ToSet
  <2> QED
    BY <2>1, <2>2, <2>3
<1>7. ToSet(Events(part)) = SentEvents(m, n)
  BY <1>5, <1>6 DEF SentEvents
<1>8. \A i, j \in DOMAIN part : part[i] \in EventLine /\ part[i] = part[j] => i = j
  <2> SUFFICES ASSUME NEW i \in 1 .. n - m + 1, NEW j \in 1 .. n - m + 1,
                      part[i] \in EventLine, part[i] = part[j]
               PROVE  i = j
    BY <1>1
  <2>1. log[m + i - 1] = log[m + j - 1] /\ log[m + i - 1].form = "object"
    BY <1>1 DEF EventLine, isMbtEvent
  <2>2. log[m + i - 1].seq = m + i - 1 /\ log[m + j - 1].seq = m + j - 1
    BY <1>3, <2>1 DEF LogInv
  <2>3. m + i - 1 = m + j - 1
    BY <2>1, <2>2
  <2> QED
    BY <1>2, <2>3
<1>9. IsInjective(Events(part))
  <2>1. (\A i, j \in DOMAIN part : part[i] \in EventLine /\ part[i] = part[j] => i = j)
          => IsInjective(Among(part, EventLine))
    BY <1>1, AmongInjective
  <2> QED
    BY <1>5, <1>8, <2>1
<1> QED
  BY <1>5, <1>7, <1>9 DEF part

\* Capturing the events of some lines, none of which were captured before.
LEMMA CaptureGrows ==
  ASSUME LogInv, captured \in Seq(LogLine), IsInjective(captured),
         NEW m \in 1 .. Len(log) + 1, NEW n \in m - 1 .. Len(log),
         captured' = captured \o Events(SubSeq(log, m, n)),
         ToSet(captured) \cap SentEvents(m, n) = {}
  PROVE  /\ captured' \in Seq(LogLine) /\ IsInjective(captured')
         /\ ToSet(captured') = ToSet(captured) \cup SentEvents(m, n)
<1> DEFINE found == Events(SubSeq(log, m, n))
<1>1. found \in Seq(LogLine) /\ ToSet(found) = SentEvents(m, n) /\ IsInjective(found)
  BY PartEvents
<1> HIDE DEF found
<1>2. captured' = captured \o found
  BY DEF found
<1>3. captured \o found \in Seq(LogLine)
  BY <1>1, ConcatProperties
<1>4. ToSet(captured \o found) = ToSet(captured) \cup SentEvents(m, n)
  BY <1>1, ConcatToSet
<1>5. IsInjective(captured \o found)
  BY <1>1, ConcatInjective
<1> QED
  BY <1>2, <1>3, <1>4, <1>5

\* What was captured is what was sent and is not awaited.
Captured == {log[k] : k \in {i \in 1 .. sent : isMbtEvent(log[i]) /\ ~Awaited(i)}}

\* An event stands at one place of the log.
LEMMA OnePlace ==
  ASSUME LogInv, NEW i \in DOMAIN log, NEW j \in DOMAIN log, isMbtEvent(log[i]), log[i] = log[j]
  PROVE  i = j
BY DEF LogInv, isMbtEvent

LEMMA CaptureStep ==
  ASSUME LogInv, LogInv', LogGrows, CaptureInv, [Next]_vars
  PROVE  CaptureInv'
<1>1. /\ Len(log) \in Nat /\ DOMAIN log = 1 .. Len(log) /\ sent \in Nat /\ sent <= Len(log)
      /\ sent \in 0 .. Len(log)
  BY DEF LogInv, CaptureInv
<1>2. /\ captured \in Seq(LogLine) /\ IsInjective(captured) /\ ToSet(captured) = Captured
      /\ decoding \subseteq (1 .. sent) \X (1 .. sent)
      /\ \A p \in decoding : p[1] <= p[2]
      /\ \A p, q \in decoding : p # q => p[2] < q[1] \/ q[2] < p[1]
  BY DEF CaptureInv, Captured
<1>3. \A p \in decoding : p[1] \in 1 .. sent /\ p[2] \in 1 .. sent
  BY <1>2
<1>4. CASE UNCHANGED liveVars
  <2>1. sent' = sent /\ decoding' = decoding /\ captured' = captured
    BY <1>4 DEF liveVars
  <2>2. sent' \in 0 .. Len(log')
    BY <1>1, <2>1 DEF LogGrows
  <2>3. \A k \in 1 .. sent : log'[k] = log[k]
    <3>1. \A k \in 1 .. sent : k \in 1 .. Len(log)
      BY <1>1
    <3> QED
      BY <3>1 DEF LogGrows
  <2>4. \A k : Awaited(k)' <=> Awaited(k)
    BY <2>1 DEF Awaited
  <2>5. {i \in 1 .. sent' : isMbtEvent(log'[i]) /\ ~Awaited(i)'}
          = {i \in 1 .. sent : isMbtEvent(log[i]) /\ ~Awaited(i)}
    BY <2>1, <2>3, <2>4
  <2>6. Captured' = Captured
    BY <2>3, <2>5 DEF Captured
  <2> QED
    BY <1>2, <2>1, <2>2, <2>6 DEF CaptureInv, Captured
<1>5. CASE OnMessage
  <2>1. PICK to \in sent + 1 .. Len(log) :
          /\ sent' = to
          /\ \/ /\ captured' = captured \o parseLivePayload(SubSeq(log, sent + 1, to)).events
                /\ UNCHANGED decoding
             \/ /\ decoding' = decoding \cup {<<sent + 1, to>>}
                /\ UNCHANGED captured
    BY <1>5 DEF OnMessage
  <2>2. /\ log' = log /\ to \in Nat /\ sent + 1 \in 1 .. to /\ to \in 1 .. to /\ to \in 0 .. Len(log)
        /\ sent + 1 \in 1 .. Len(log) + 1 /\ to \in (sent + 1) - 1 .. Len(log)
        /\ 1 .. sent \subseteq 1 .. to /\ sent + 1 <= to
        /\ \A k \in 1 .. to : k \in 1 .. sent \/ k \in sent + 1 .. to
        /\ \A k \in sent + 1 .. to : k \in 1 .. to /\ k \notin 1 .. sent
    BY <1>1, <1>5, <2>1 DEF OnMessage
  <2>3. \A k \in sent + 1 .. to : ~Awaited(k)
    <3> SUFFICES ASSUME NEW k \in sent + 1 .. to, NEW p \in decoding, p[1] <= k, k <= p[2]
                 PROVE  FALSE
      BY DEF Awaited
    <3>1. p[2] \in 1 .. sent
      BY <1>3
    <3> QED
      BY <1>1, <3>1
  <2>4. CASE /\ captured' = captured \o parseLivePayload(SubSeq(log, sent + 1, to)).events
             /\ UNCHANGED decoding
    <3>1. captured' = captured \o Events(SubSeq(log, sent + 1, to))
      BY <2>4 DEF parseLivePayload, parseJsonlEvents
    <3>2. ToSet(captured) \cap SentEvents(sent + 1, to) = {}
      <4> SUFFICES ASSUME NEW x, x \in Captured, x \in SentEvents(sent + 1, to) PROVE FALSE
        BY <1>2
      <4>1. PICK i \in 1 .. sent : isMbtEvent(log[i]) /\ x = log[i]
        BY DEF Captured
      <4>2. PICK j \in sent + 1 .. to : x = log[j]
        BY DEF SentEvents
      <4>3. i \in DOMAIN log /\ j \in DOMAIN log /\ i # j
        BY <1>1, <4>1, <4>2
      <4> QED
        BY <4>1, <4>2, <4>3, OnePlace
    <3>3. /\ captured' \in Seq(LogLine) /\ IsInjective(captured')
          /\ ToSet(captured') = ToSet(captured) \cup SentEvents(sent + 1, to)
      BY <1>2, <2>2, <3>1, <3>2, CaptureGrows
    <3>4. \A k : Awaited(k)' <=> Awaited(k)
      BY <2>4 DEF Awaited
    <3>5. {i \in 1 .. to : isMbtEvent(log[i]) /\ ~Awaited(i)'}
            = {i \in 1 .. sent : isMbtEvent(log[i]) /\ ~Awaited(i)}
                \cup {i \in sent + 1 .. to : isMbtEvent(log[i])}
      <4>1. ASSUME NEW i
            PROVE  (i \in 1 .. to /\ ~Awaited(i)')
                     <=> (i \in 1 .. sent /\ ~Awaited(i)) \/ i \in sent + 1 .. to
        BY <2>2, <2>3, <3>4
      <4> QED
        BY <4>1
    <3>6. Captured' = Captured \cup SentEvents(sent + 1, to)
      BY <2>1, <2>2, <3>5 DEF Captured, SentEvents
    <3>7. decoding' \subseteq (1 .. sent') \X (1 .. sent')
      BY <1>2, <2>1, <2>2, <2>4
    <3> QED
      BY <1>2, <2>1, <2>2, <2>4, <3>3, <3>6, <3>7 DEF CaptureInv, Captured
  <2>5. CASE decoding' = decoding \cup {<<sent + 1, to>>} /\ UNCHANGED captured
    <3> DEFINE new == <<sent + 1, to>>
    <3>1. /\ new[1] = sent + 1 /\ new[2] = to /\ new \in (1 .. to) \X (1 .. to)
      BY <2>2
    <3> HIDE DEF new
    <3>2. decoding' = decoding \cup {new}
      BY <2>5 DEF new
    <3>3. decoding' \subseteq (1 .. sent') \X (1 .. sent')
      BY <1>2, <2>1, <2>2, <3>1, <3>2
    <3>4. \A p \in decoding' : p[1] <= p[2]
      BY <1>2, <2>2, <3>1, <3>2
    <3>5. \A p, q \in decoding' : p # q => p[2] < q[1] \/ q[2] < p[1]
      <4>1. \A p \in decoding : p[2] < new[1]
        BY <1>1, <1>3, <3>1
      <4> QED
        BY <1>2, <3>2, <4>1
    <3>6. \A k : Awaited(k)' <=> Awaited(k) \/ (sent + 1 <= k /\ k <= to)
      BY <3>1, <3>2 DEF Awaited
    <3>7. ASSUME NEW i
          PROVE  (i \in 1 .. to /\ ~Awaited(i)') <=> (i \in 1 .. sent /\ ~Awaited(i))
      <4>1. i \in sent + 1 .. to => Awaited(i)'
        BY <1>1, <2>2, <3>6
      <4>2. i \in 1 .. sent => ~(sent + 1 <= i)
        BY <1>1
      <4> QED
        BY <2>2, <3>6, <4>1, <4>2
    <3>8. {i \in 1 .. to : isMbtEvent(log[i]) /\ ~Awaited(i)'}
            = {i \in 1 .. sent : isMbtEvent(log[i]) /\ ~Awaited(i)}
      BY <3>7
    <3>9. Captured' = Captured
      BY <2>1, <2>2, <3>8 DEF Captured
    <3> QED
      BY <1>2, <2>1, <2>2, <2>5, <3>3, <3>4, <3>5, <3>9 DEF CaptureInv, Captured
  <2> QED
    BY <2>1, <2>4, <2>5
<1>6. CASE Decoded
  <2>1. PICK payload \in decoding :
          /\ decoding' = decoding \ {payload}
          /\ captured' = captured \o parseLivePayload(SubSeq(log, payload[1], payload[2])).events
    BY <1>6 DEF Decoded
  <2>2. log' = log /\ sent' = sent
    BY <1>6 DEF Decoded
  <2> DEFINE m == payload[1]
             n == payload[2]
  <2>3. m \in 1 .. sent /\ n \in 1 .. sent /\ m <= n
    BY <1>2, <1>3
  <2>4. \A q \in decoding : q # payload => n < q[1] \/ q[2] < m
    BY <1>2
  <2>5. captured' = captured \o Events(SubSeq(log, m, n))
    BY <2>1 DEF parseLivePayload, parseJsonlEvents
  <2>6. \A k : (m <= k /\ k <= n) => Awaited(k)
    BY DEF Awaited
  <2>7. \A k : Awaited(k)' <=> \E q \in decoding : q # payload /\ q[1] <= k /\ k <= q[2]
    BY <2>1 DEF Awaited
  <2> HIDE DEF m, n
  <2>8. m \in 1 .. Len(log) + 1 /\ n \in m - 1 .. Len(log)
        /\ \A k \in m .. n : k \in 1 .. sent /\ m <= k /\ k <= n
    BY <1>1, <2>3
  <2>9. ASSUME NEW i \in 1 .. sent
        PROVE  ~Awaited(i)' <=> ~Awaited(i) \/ i \in m .. n
    <3>1. i \in m .. n => ~Awaited(i)'
      <4> SUFFICES ASSUME i \in m .. n, NEW q \in decoding, q # payload, q[1] <= i, i <= q[2]
                   PROVE  FALSE
        BY <2>7
      <4>1. q[1] \in 1 .. sent /\ q[2] \in 1 .. sent /\ (n < q[1] \/ q[2] < m)
        BY <1>3, <2>4
      <4> QED
        BY <1>1, <2>3, <4>1
    <3>2. Awaited(i)' => Awaited(i)
      BY <2>7 DEF Awaited
    <3>3. Awaited(i) /\ ~Awaited(i)' => i \in m .. n
      <4> SUFFICES ASSUME Awaited(i), ~Awaited(i)' PROVE i \in m .. n
        OBVIOUS
      <4>1. PICK q \in decoding : q[1] <= i /\ i <= q[2]
        BY DEF Awaited
      <4>2. q = payload
        BY <2>7, <4>1
      <4>3. m <= i /\ i <= n
        BY <4>1, <4>2 DEF m, n
      <4> QED
        BY <1>1, <2>3, <4>3
    <3> QED
      BY <3>1, <3>2, <3>3
  <2>10. ToSet(captured) \cap SentEvents(m, n) = {}
    <3> SUFFICES ASSUME NEW x, x \in Captured, x \in SentEvents(m, n) PROVE FALSE
      BY <1>2
    <3>1. PICK i \in 1 .. sent : isMbtEvent(log[i]) /\ x = log[i] /\ ~Awaited(i)
      BY DEF Captured
    <3>2. PICK j \in m .. n : x = log[j]
      BY DEF SentEvents
    <3>3. Awaited(j)
      BY <2>6, <2>8
    <3>4. i \in DOMAIN log /\ j \in DOMAIN log
      BY <1>1, <2>8
    <3>5. i = j
      BY <3>1, <3>2, <3>4, OnePlace
    <3> QED
      BY <3>1, <3>3, <3>5
  <2>11. /\ captured' \in Seq(LogLine) /\ IsInjective(captured')
         /\ ToSet(captured') = ToSet(captured) \cup SentEvents(m, n)
    BY <1>2, <2>5, <2>8, <2>10, CaptureGrows
  <2>12. {i \in 1 .. sent : isMbtEvent(log[i]) /\ ~Awaited(i)'}
           = {i \in 1 .. sent : isMbtEvent(log[i]) /\ ~Awaited(i)} \cup {i \in m .. n : isMbtEvent(log[i])}
    BY <2>8, <2>9
  <2>13. Captured' = Captured \cup SentEvents(m, n)
    BY <2>2, <2>12 DEF Captured, SentEvents
  <2> QED
    BY <1>1, <1>2, <2>1, <2>2, <2>11, <2>13 DEF CaptureInv, Captured
<1> QED
  BY <1>4, <1>5, <1>6 DEF Next, vars, Record, WriteIndex, StartReading, ReadChunk, EndStream,
                          LoadBundle, Validator, Timer

LEMMA CaptureInit == ASSUME Init PROVE CaptureInv
<1>1. log = <<>> /\ sent = 0 /\ decoding = {} /\ captured = <<>>
  BY DEF Init
<1>2. captured \in Seq(LogLine) /\ IsInjective(captured) /\ ToSet(captured) = {}
  BY <1>1 DEF IsInjective, ToSet
<1>3. Captured = {}
  BY <1>1 DEF Captured
<1> QED
  BY <1>1, <1>2, <1>3 DEF CaptureInv, Captured

\* However the log is cut into payloads, whichever of them are binary, and in whatever
\* order their texts arrive: once none is awaited, the saved capture shows every event
\* that was sent, and none twice, when it is opened with the index saved beside it.
THEOREM CapturesReopenComplete == Spec => []CaptureReopensComplete
<1>1. Init => LogInv /\ CaptureInv
  BY LogInit, CaptureInit
<1>2. LogInv /\ CaptureInv /\ [Next]_vars => (LogInv /\ CaptureInv)'
  BY LogStep, CaptureStep
<1>3. ASSUME LogInv, CaptureInv PROVE CaptureReopensComplete
  <2> DEFINE shown == ReopenedCapture.events
             sentLines == SubSeq(log, 1, sent)
  <2>1. SUFFICES ASSUME decoding = {}
                 PROVE  /\ ToSet(shown) = ToSet(parseJsonlEvents(sentLines).events)
                        /\ IsInjective(shown)
    BY DEF CaptureReopensComplete
  <2>2. captured \in Seq(LogLine) /\ IsInjective(captured) /\ ToSet(captured) = SentEvents(1, sent)
    <3>1. \A i : ~Awaited(i)
      BY <2>1 DEF Awaited
    <3> QED
      BY <1>3, <3>1 DEF CaptureInv, SentEvents
  <2>3. ToSet(parseJsonlEvents(sentLines).events) = SentEvents(1, sent)
    <3>1. 1 \in 1 .. Len(log) + 1 /\ sent \in 1 - 1 .. Len(log)
      BY <1>3 DEF LogInv, CaptureInv
    <3>2. ToSet(Events(sentLines)) = SentEvents(1, sent)
      BY <1>3, <3>1, PartEvents
    <3> QED
      BY <3>2 DEF parseJsonlEvents
  <2>4. \A x \in ToSet(captured) : x \in LogLine /\ isMbtEvent(x)
    <3>1. \A x \in ToSet(captured) : x \in LogLine
      BY <2>2, LenProperties DEF ToSet
    <3> QED
      BY <2>2, <3>1 DEF SentEvents
  <2>5. Events(captured) = captured
    <3>1. ToSet(captured) \subseteq EventLine
      BY <2>4 DEF EventLine
    <3>2. Among(captured, EventLine) = captured
      BY <2>2, <3>1, AmongAll
    <3> QED
      BY <2>2, <3>2, EventsAmong
  <2>6. Rejected(captured) = {}
    BY <2>4 DEF Rejected, Written, ToSet
  <2>7. shown = captured
    <3> DEFINE n == Len(captured)
    <3>1. n \in 0 .. Len(captured) /\ SubSeq(captured, 1, n) = captured
      BY <2>2, SubSeqFull
    <3> HIDE DEF n
    <3>2. CanBuildIndex(SubSeq(captured, 1, n))
      BY <2>6, <3>1 DEF CanBuildIndex
    <3> DEFINE file == buildTickSidecarIndex(captured)
               read == parseJsonlEventsWithOptionalSidecar(captured, file)
    <3>3. file = buildTickSidecarIndex(SubSeq(captured, 1, n))
      BY <3>1
    <3> HIDE DEF file
    <3>4. \/ read.events = Events(captured) /\ read.errors = Rejected(captured)
          \/ read.index_used /\ read.events = Events(SubSeq(captured, 1, n)) /\ read.errors = {}
      BY <2>2, <3>1, <3>2, <3>3, ReadIndexed
    <3>5. read.events = captured
      BY <2>5, <3>1, <3>4
    <3> QED
      BY <3>5 DEF ReopenedCapture, file
  <2> QED
    BY <2>2, <2>3, <2>7
<1> QED
  BY <1>1, <1>2, <1>3, PTL DEF Spec

-----------------------------------------------------------------------------
(* Reading one tick of a log *)

TickLine(tick) == {line \in LogLine : line.tick = tick}

LEMMA OfTickAmong ==
  ASSUME NEW s \in Seq(LogLine), NEW tick
  PROVE  OfTick(s, tick) = Among(s, TickLine(tick))
<1>1. ToSet(s) \subseteq LogLine
  BY LenProperties DEF ToSet
<1>2. TickLine(tick) \cap ToSet(s) = {line \in ToSet(s) : line.tick = tick} \cap ToSet(s)
  BY <1>1 DEF TickLine
<1> QED
  BY <1>2, AmongSame DEF OfTick

\* When the other parts hold no event of a tick, the middle one holds them all.
LEMMA MiddlePart ==
  ASSUME LogInv, NEW a \in 0 .. Len(log), NEW b \in a .. Len(log), NEW n \in b .. Len(log), NEW tick,
         \A i \in 1 .. a : isMbtEvent(log[i]) => log[i].tick # tick,
         \A i \in b + 1 .. n : isMbtEvent(log[i]) => log[i].tick # tick
  PROVE  OfTick(Events(SubSeq(log, a + 1, b)), tick) = OfTick(Events(Prefix(n)), tick)
<1> DEFINE before == Events(SubSeq(log, 1, a))
           middle == Events(SubSeq(log, a + 1, b))
           after == Events(SubSeq(log, b + 1, n))
           A == TickLine(tick)
<1>1. /\ log \in Seq(LogLine) /\ Len(log) \in Nat
      /\ 1 \in 1 .. Len(log) + 1 /\ a \in 1 - 1 .. Len(log) /\ n \in 1 - 1 .. Len(log)
      /\ a + 1 \in 1 .. Len(log) + 1 /\ b \in (a + 1) - 1 .. Len(log)
      /\ b + 1 \in 1 .. Len(log) + 1 /\ n \in (b + 1) - 1 .. Len(log)
      /\ a \in 0 .. Len(log) /\ b \in 0 .. Len(log)
  BY DEF LogInv
<1>2. /\ before \in Seq(LogLine) /\ ToSet(before) = SentEvents(1, a)
      /\ middle \in Seq(LogLine)
      /\ after \in Seq(LogLine) /\ ToSet(after) = SentEvents(b + 1, n)
      /\ Events(Prefix(n)) \in Seq(LogLine)
  BY <1>1, PartEvents DEF Prefix
<1>3. Events(Prefix(n)) = (before \o middle) \o after
  BY <1>1, EventsSplit DEF Prefix
<1>4. ToSet(before) \cap A = {} /\ ToSet(after) \cap A = {}
  BY <1>2 DEF SentEvents, TickLine
<1> HIDE DEF before, middle, after, A
<1>5. Among(before, A) = <<>> /\ Among(after, A) = <<>>
  BY <1>2, <1>4, AmongNone
<1>6. before \o middle \in Seq(LogLine) /\ Among(middle, A) \in Seq(LogLine)
  BY <1>2, ConcatProperties, AmongMembers
<1>7. Among((before \o middle) \o after, A) = (Among(before, A) \o Among(middle, A)) \o Among(after, A)
  <2>1. Among(before \o middle, A) = Among(before, A) \o Among(middle, A)
    BY <1>2, AmongConcat
  <2>2. Among((before \o middle) \o after, A) = Among(before \o middle, A) \o Among(after, A)
    BY <1>2, <1>6, AmongConcat
  <2> QED
    BY <2>1, <2>2
<1>8. (Among(before, A) \o Among(middle, A)) \o Among(after, A) = Among(middle, A)
  BY <1>5, <1>6, ConcatEmptySeq
<1>9. OfTick(middle, tick) = Among(middle, A) /\ OfTick(Events(Prefix(n)), tick) = Among(Events(Prefix(n)), A)
  BY <1>2, OfTickAmong DEF A
<1> QED
  BY <1>3, <1>7, <1>8, <1>9 DEF middle

\* Whatever else a log holds: if its ticks come in order, lazy loading of one tick
\* finds, through the index beside the log, all the events of that tick that were
\* indexed, in order and nothing else.
THEOREM LazyTicksAreWhole == Spec => []EachTickIsExtracted
<1>1. Init => LogInv /\ IndexInv
  BY LogInit, IndexInit
<1>2. LogInv /\ IndexInv /\ [Next]_vars => (LogInv /\ IndexInv)'
  BY LogStep, IndexStep
<1>3. ASSUME LogInv, IndexInv PROVE EachTickIsExtracted
  <2>1. SUFFICES ASSUME IsIndex(index), TicksInOrder, NEW k \in DOMAIN index.tick_entries
                 PROVE  LET t == index.tick_entries[k].tick
                        IN  extractTickEventsBySidecar(log, index, t)
                              = OfTick(SubSeq(parseJsonlEvents(log).events, 1, index.event_count), t)
    BY DEF EachTickIsExtracted
  <2>2. PICK n \in DOMAIN log : CanBuildIndex(Prefix(n)) /\ index = buildTickSidecarIndex(Prefix(n))
    BY <1>3, <2>1 DEF IndexInv, IsIndex, NoFile, NotAnIndex
  <2>3. log \in Seq(LogLine) /\ DOMAIN log = 1 .. Len(log) /\ Len(log) \in Nat /\ n \in 0 .. Len(log)
    BY <1>3 DEF LogInv
  <2> DEFINE s == Prefix(n)
             T == sortedTicks(s)
             N == Len(T)
             entries == index.tick_entries
             a == Bound(s, k)
             b == Bound(s, k + 1)
             t == T[k]
  <2>4. s \in Seq(LogLine) /\ Len(s) = n /\ DOMAIN s = 1 .. n /\ \A i \in 1 .. n : s[i] = log[i]
    <3>1. 1 \in 1 .. Len(log) + 1 /\ n \in 1 - 1 .. Len(log) /\ n - 1 + 1 = n
          /\ \A i \in 1 .. n : 1 + i - 1 = i
      BY <2>3
    <3>2. /\ s \in Seq(LogLine) /\ Len(s) = n - 1 + 1 /\ DOMAIN s = 1 .. n - 1 + 1
          /\ \A i \in 1 .. n - 1 + 1 : s[i] = log[1 + i - 1]
      BY <2>3, <3>1, PartOf DEF Prefix
    <3> HIDE DEF s
    <3> QED
      BY <3>1, <3>2
  <2> HIDE DEF s
  <2>5. /\ N \in Nat /\ DOMAIN entries = 1 .. N
        /\ \A i \in 1 .. N : entries[i] = [tick |-> T[i], start |-> Bound(s, i), end |-> Bound(s, i + 1)]
        /\ \A i \in 1 .. N : T[i] \in {s[j].tick : j \in Ticked(s)}
        /\ \A i \in 0 .. N + 1 : Bound(s, i) \in 0 .. Len(s)
        /\ Bound(s, N + 1) = Len(s)
        /\ \A i \in 0 .. N : Bound(s, i) <= Bound(s, i + 1)
    BY <2>1, <2>2, <2>4, IndexRanges DEF s
  <2>6. \A i, j \in 1 .. N : i < j => T[i] < T[j]
    <3>1. PICK m \in Nat : /\ T \in [1 .. m -> {s[i].tick : i \in Ticked(s)}]
                           /\ \A i, j \in 1 .. m : i < j => T[i] < T[j]
      BY <2>4, SortedTicks
    <3>2. N = m
      BY <3>1
    <3> QED
      BY <3>1, <3>2
  <2>7. \A i \in 1 .. N : T[i] \in Nat
    BY <2>5 DEF Ticked
  <2> HIDE DEF T, N, entries
  <2>8. k \in 1 .. N /\ k + 1 \in 0 .. N + 1 /\ k \in 0 .. N /\ k \in 0 .. N + 1
    <3>1. k \in 1 .. N
      BY <2>5 DEF entries
    <3> QED
      BY <2>5, <3>1
  <2>9. a \in 0 .. n /\ b \in a .. n
    <3>1. a \in 0 .. n /\ b \in 0 .. n /\ a <= b
      BY <2>4, <2>5, <2>8
    <3> HIDE DEF a, b
    <3> QED
      BY <2>3, <3>1
  <2>10. firstLine(s, t) = a + 1 /\ \A i \in 1 .. n : log[i].form = "object" /\ log[i].tick = t => a + 1 <= i
    <3>1. /\ firstLine(s, t) \in Ticked(s)
          /\ \A i \in DOMAIN s : s[i].form = "object" /\ s[i].tick = t => firstLine(s, t) <= i
      BY <2>4, <2>5, <2>8, FirstLine
    <3>2. a = firstLine(s, t) - 1
      BY <2>5, <2>8 DEF Bound, T, N
    <3>3. firstLine(s, t) \in 1 .. n
      BY <2>4, <3>1 DEF Ticked
    <3>4. firstLine(s, t) = a + 1
      BY <2>3, <3>2, <3>3
    <3> QED
      BY <2>4, <3>1, <3>4
  <2>11. \A i \in 1 .. a : isMbtEvent(log[i]) => log[i].tick # t
    <3> SUFFICES ASSUME NEW i \in 1 .. a, isMbtEvent(log[i]), log[i].tick = t PROVE FALSE
      OBVIOUS
    <3> HIDE DEF a, t
    <3>1. i \in 1 .. n /\ ~(a + 1 <= i) /\ log[i].form = "object"
      BY <2>3, <2>9 DEF isMbtEvent
    <3> QED
      BY <2>10, <3>1
  <2>12. \A i \in b + 1 .. n : isMbtEvent(log[i]) => log[i].tick # t
    <3> SUFFICES ASSUME NEW i \in b + 1 .. n, isMbtEvent(log[i]), log[i].tick = t PROVE FALSE
      OBVIOUS
    <3>1. CASE k = N
      <4>1. b = n
        BY <2>4, <2>5, <3>1
      <4> HIDE DEF b
      <4> QED
        BY <2>3, <4>1
    <3>2. CASE k # N
      <4> DEFINE next == T[k + 1]
                 j == firstLine(s, next)
      <4>1. k + 1 \in 1 .. N /\ k < k + 1 /\ k + 1 # 0 /\ k + 1 <= N
        <5>1. N \in Nat
          BY <2>5, Zenon
        <5>2. k \in 1 .. N
          BY <2>8, Zenon
        <5> HIDE DEF a, b, t, next, j
        <5> QED
          BY <3>2, <5>1, <5>2
      <4>2. j \in Ticked(s) /\ s[j].tick = next
        BY <2>4, <2>5, <4>1, FirstLine
      <4>3. b = j - 1
        BY <4>1 DEF Bound, T, N
      <4>4. t < next /\ t \in Nat /\ next \in Nat
        BY <2>6, <2>7, <2>8, <4>1
      <4> HIDE DEF b, t, next, j
      <4>5. j \in 1 .. n /\ j \in Ticked(log) /\ log[j].tick = next
        BY <2>3, <2>4, <4>2 DEF Ticked
      <4>6. i \in 1 .. n /\ j <= i
        BY <2>3, <2>9, <4>3, <4>5
      <4>7. i \in Ticked(log)
        BY <2>3, <4>4, <4>6 DEF Ticked, isMbtEvent
      <4>8. log[j].tick <= log[i].tick
        BY <2>1, <4>5, <4>6, <4>7 DEF TicksInOrder
      <4> QED
        BY <4>4, <4>5, <4>8
    <3> QED
      BY <3>1, <3>2
  <2>13. extractTickEventsBySidecar(log, index, t) = OfTick(parseRange(log, a, b).events, t)
    <3> DEFINE entry == CHOOSE e \in ToSet(entries) : e.tick = t
    <3>1. \A i \in 1 .. N : entries[i].tick = T[i]
      <4> TAKE i \in 1 .. N
      <4> DEFINE from == Bound(s, i)
                 to == Bound(s, i + 1)
                 found == entries[i]
      <4>1. found = [tick |-> T[i], start |-> from, end |-> to]
        BY <2>5
      <4> HIDE DEF found, from, to
      <4>2. found.tick = T[i]
        BY <4>1
      <4> QED
        BY <4>2 DEF found
    <3>2. entries[k].start = a /\ entries[k].end = b
      <4> DEFINE found == entries[k]
      <4>1. found = [tick |-> t, start |-> a, end |-> b]
        BY <2>5, <2>8
      <4> HIDE DEF found, t, a, b
      <4>2. found.start = a /\ found.end = b
        BY <4>1
      <4> QED
        BY <4>2 DEF found
    <3> HIDE DEF a, b
    <3>3. \A i \in 1 .. N : T[i] = t => i = k
      <4> SUFFICES ASSUME NEW i \in 1 .. N, T[i] = T[k], i # k PROVE FALSE
        OBVIOUS
      <4>1. i < k \/ k < i
        BY <2>5, <2>8
      <4>2. T[i] < T[k] \/ T[k] < T[i]
        BY <2>6, <2>8, <4>1
      <4> QED
        BY <2>7, <2>8, <4>2
    <3>4. \A e \in ToSet(entries) : e.tick = t => e = entries[k]
      BY <2>5, <3>1, <3>3 DEF ToSet
    <3>5. entries[k] \in ToSet(entries) /\ entries[k].tick = t
      BY <2>5, <2>8, <3>1 DEF ToSet
    <3>6. entry = entries[k]
      BY <3>4, <3>5
    <3>7. extractTickEventsBySidecar(log, index, t)
            = OfTick(parseRange(log, entry.start, entry.end).events, t)
      BY <3>5 DEF extractTickEventsBySidecar, entries
    <3> HIDE DEF entry
    <3> QED
      BY <3>2, <3>6, <3>7
  <2>14. parseRange(log, a, b).events = Events(SubSeq(log, a + 1, b))
    <3> HIDE DEF a, b
    <3>1. Rejected(SubSeq(log, 1, n)) = {}
      BY <2>2 DEF CanBuildIndex, Prefix
    <3>2. parseRange(log, a, b) = [events |-> Events(SubSeq(log, a + 1, b)), errors |-> {}]
      BY <2>3, <2>9, <3>1, RangeRead
    <3> QED
      BY <3>2
  <2>15. OfTick(Events(SubSeq(log, a + 1, b)), t) = OfTick(Events(Prefix(n)), t)
    <3> HIDE DEF a, b, t
    <3>1. a \in 0 .. Len(log) /\ b \in a .. Len(log) /\ n \in b .. Len(log)
      BY <2>3, <2>9
    <3> QED
      BY <1>3, <2>11, <2>12, <3>1, MiddlePart
  <2>16. SubSeq(parseJsonlEvents(log).events, 1, index.event_count) = Events(Prefix(n))
    <3>1. SubSeq(Events(log), 1, index.event_count) = Events(Prefix(n))
      BY <2>2, <2>3, IndexedEvents DEF Prefix
    <3> QED
      BY <3>1 DEF parseJsonlEvents
  <2>17. index.tick_entries[k].tick = t
    <3> DEFINE from == a
               to == b
               found == entries[k]
    <3>1. found = [tick |-> t, start |-> from, end |-> to]
      BY <2>5, <2>8
    <3> HIDE DEF found, t, from, to
    <3>2. found.tick = t
      BY <3>1
    <3> QED
      BY <3>2 DEF found, entries
  <2> HIDE DEF t, a, b
  <2> QED
    BY <2>13, <2>14, <2>15, <2>16, <2>17
<1> QED
  BY <1>1, <1>2, <1>3, PTL DEF Spec

=============================================================================
