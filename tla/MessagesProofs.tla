---------------------------- MODULE MessagesProofs ----------------------------
(***************************************************************************)
(* What the server sees of the tasks of RequestTasks: proofs that the       *)
(* messages of a log stream, a probe, a session and the capabilities task  *)
(* say what the task has done, in its order, whatever the shared queue     *)
(* refuses.  They rest on what Select and Flatten do to a sequence that  *)
(* grows at its end, shown by least counterexamples over its length.       *)
(***************************************************************************)
EXTENDS RequestTasksProofs, WellFoundedInduction

-----------------------------------------------------------------------------
(* Induction: what holds of no least number, or of no shortest sequence.    *)

Below == {p \in Nat \X Nat : p[1] < p[2]}

LEMMA LeastOf ==
  ASSUME NEW T, T \subseteq Nat, T # {}
  PROVE  \E n \in T : \A m \in T : n <= m
  <1>1. IsWellFoundedOn(Below, Nat)
    BY NatLessThanWellFounded DEF OpToRel, Below
  <1>2. PICK n \in T : \A m \in T : ~(<<m, n>> \in Below)
    BY <1>1, WFMin
  <1>3. \A m \in T : ~(m < n)
    BY <1>2 DEF Below
  <1>4. n \in Nat /\ \A m \in T : m \in Nat
    OBVIOUS
  <1>5. QED
    BY <1>3, <1>4

Joins(seqs, n, f) ==
    f = [i \in 1 .. n |-> IF i = 1 THEN seqs[i] ELSE f[i - 1] \o seqs[i]]

Alike(s, t, n) == \A i \in 1 .. n : s[i] = t[i]

LEMMA JoinsExist ==
  ASSUME NEW S, NEW seqs \in Seq(Seq(S))
  PROVE  \A n \in 0 .. Len(seqs) : \E f \in [1 .. n -> Seq(S)] : Joins(seqs, n, f)
  <1> DEFINE Failing == {n \in 0 .. Len(seqs) : ~\E f \in [1 .. n -> Seq(S)] : Joins(seqs, n, f)}
  <1> SUFFICES ASSUME Failing # {} PROVE FALSE
    OBVIOUS
  <1>0. Failing \subseteq Nat /\ Len(seqs) \in Nat
    BY LenProperties
  <1>1. PICK n \in Failing : \A m \in Failing : n <= m
    <2> HIDE DEF Failing
    <2>1. QED
      BY <1>0, LeastOf
  <1>2. n \in 0 .. Len(seqs) /\ ~\E f \in [1 .. n -> Seq(S)] : Joins(seqs, n, f)
    BY <1>1
  <1>3. CASE n = 0
    <2> DEFINE g == [i \in 1 .. 0 |-> <<>>]
    <2>1. g \in [1 .. 0 -> Seq(S)]
      OBVIOUS
    <2>2. Joins(seqs, 0, g)
      BY DEF Joins
    <2>3. QED
      BY <1>2, <1>3, <2>1, <2>2
  <1>4. CASE n # 0
    <2>1. n - 1 \in 0 .. Len(seqs) /\ n - 1 \notin Failing
      <3> HIDE DEF Failing
      <3>1. n - 1 \in 0 .. Len(seqs) /\ n - 1 < n
        BY <1>0, <1>2, <1>4
      <3>2. QED
        BY <1>0, <1>1, <1>2, <3>1
    <2>2. PICK f \in [1 .. n - 1 -> Seq(S)] : Joins(seqs, n - 1, f)
      BY <2>1
    <2> DEFINE g == [i \in 1 .. n |->
                        IF i < n THEN f[i] ELSE IF i = 1 THEN seqs[i] ELSE f[i - 1] \o seqs[i]]
    <2>3. \A i \in 1 .. n : seqs[i] \in Seq(S)
      BY <1>2, ElementOfSeq
    <2>4. \A i \in 1 .. n - 1 : f[i] = IF i = 1 THEN seqs[i] ELSE f[i - 1] \o seqs[i]
      BY <2>2 DEF Joins
    <2>5. \A i \in 1 .. n : i # 1 => f[i - 1] \in Seq(S) /\ g[i-1] = f[i - 1]
      BY <1>2, <2>2
    <2>6. ASSUME NEW i \in 1 .. n
          PROVE  g[i] = IF i = 1 THEN seqs[i] ELSE g[i - 1] \o seqs[i]
      <3>1. CASE i < n
        <4>1. g[i] = f[i] /\ i \in 1 .. n - 1
          BY <1>2, <3>1
        <4>2. QED
          BY <2>4, <2>5, <4>1
      <3>2. CASE ~(i < n)
        <4>1. g[i] = IF i = 1 THEN seqs[i] ELSE f[i - 1] \o seqs[i]
          BY <3>2
        <4> HIDE DEF g
        <4>2. QED
          BY <2>5, <4>1
      <3>3. QED
        BY <3>1, <3>2
    <2>7. g \in [1 .. n -> Seq(S)]
      <3>1. ASSUME NEW i \in 1 .. n PROVE g[i] \in Seq(S)
        BY <1>2, <2>3, <2>5, <2>6, <2>2, ConcatProperties
      <3>2. QED
        BY <3>1
    <2>8. Joins(seqs, n, g)
      BY <2>6, <2>7 DEF Joins
    <2>9. QED
      BY <1>2, <2>7, <2>8
  <1>5. QED
    BY <1>3, <1>4

LEMMA JoinsAgree ==
  ASSUME NEW s, NEW t, NEW n \in Nat, NEW m \in Nat, n <= m,
         \A i \in 1 .. n : s[i] = t[i],
         NEW f, NEW g, Joins(s, n, f), Joins(t, m, g)
  PROVE  \A i \in 1 .. n : f[i] = g[i]
  <1> DEFINE Apart == {i \in 1 .. n : f[i] # g[i]}
  <1> SUFFICES ASSUME Apart # {} PROVE FALSE
    OBVIOUS
  <1>0. Apart \subseteq Nat
    OBVIOUS
  <1>1. PICK i \in Apart : \A k \in Apart : i <= k
    <2> HIDE DEF Apart
    <2>1. QED
      BY <1>0, LeastOf
  <1>2. i \in 1 .. n /\ i \in 1 .. m /\ f[i] # g[i]
    BY <1>1
  <1>3. f[i] = IF i = 1 THEN s[i] ELSE f[i - 1] \o s[i]
    BY <1>2 DEF Joins
  <1>4. g[i] = IF i = 1 THEN t[i] ELSE g[i - 1] \o t[i]
    BY <1>2 DEF Joins
  <1>5. i # 1 => f[i - 1] = g[i - 1]
    BY <1>1, <1>2
  <1>6. QED
    BY <1>2, <1>3, <1>4, <1>5

LEMMA JoinsMeet ==
  ASSUME NEW s, NEW t, NEW n \in Nat, n # 0, Alike(s, t, n),
         NEW m, m = n + 1, NEW f, NEW g, Joins(s, n, f), Joins(t, m, g)
  PROVE  f[n] = g[n]
  <1>1. n + 1 \in Nat /\ n <= n + 1 /\ n \in 1 .. n
    OBVIOUS
  <1>2. \A i \in 1 .. n : f[i] = g[i]
    BY <1>1, JoinsAgree DEF Alike
  <1>3. QED
    BY <1>1, <1>2

LEMMA FlattenIsJoin ==
  ASSUME NEW S, NEW seqs \in Seq(Seq(S))
  PROVE  /\ Len(seqs) = 0 => Flatten(seqs) = <<>>
         /\ Len(seqs) # 0 =>
               \E f \in [1 .. Len(seqs) -> Seq(S)] :
                  Joins(seqs, Len(seqs), f) /\ Flatten(seqs) = f[Len(seqs)]
  <1>1. CASE Len(seqs) = 0
    <2>1. seqs = <<>>
      BY <1>1, EmptySeq
    <2>2. QED
      BY <1>1, <2>1 DEF Flatten
  <1>2. CASE Len(seqs) # 0
    <2> DEFINE n == Len(seqs)
               h == CHOOSE f : f = [i \in 1 .. n |-> IF i = 1 THEN seqs[i] ELSE f[i - 1] \o seqs[i]]
    <2>1. n \in Nat /\ n \in 0 .. n
      BY LenProperties
    <2>2. PICK f \in [1 .. n -> Seq(S)] : Joins(seqs, n, f)
      BY <2>1, JoinsExist
    <2>3. Joins(seqs, n, h)
      BY <2>2 DEF Joins
    <2>4. \A i \in 1 .. n : f[i] = h[i]
      BY <2>1, <2>2, <2>3, JoinsAgree
    <2>5. Flatten(seqs) = h[n]
      BY <1>2 DEF Flatten
    <2> HIDE DEF h
    <2>6. Flatten(seqs) = f[n]
      BY <1>2, <2>1, <2>4, <2>5
    <2>7. QED
      BY <1>2, <2>2, <2>6
  <1>3. QED
    BY <1>1, <1>2

LEMMA FlattenMore ==
  ASSUME NEW S, NEW seqs \in Seq(Seq(S)), NEW more \in Seq(Seq(S)), NEW n \in Nat, n # 0,
         Len(seqs) = n, Len(more) = n + 1, Alike(seqs, more, n)
  PROVE  Flatten(more) = Flatten(seqs) \o more[n + 1]
  <1>1. n \in 1 .. n /\ n + 1 \in 1 .. n + 1 /\ (n + 1) - 1 = n /\ n + 1 # 1 /\ n + 1 # 0
    OBVIOUS
  <1>2. PICK f : Joins(seqs, n, f) /\ Flatten(seqs) = f[n]
    BY FlattenIsJoin
  <1>3. PICK g : Joins(more, n + 1, g) /\ Flatten(more) = g[n + 1]
    BY <1>1, FlattenIsJoin
  <1>4. f[n] = g[n]
    BY <1>2, <1>3, JoinsMeet
  <1>5. g[n + 1] = g[n] \o more[n + 1]
    BY <1>1, <1>3 DEF Joins
  <1>6. QED
    BY <1>2, <1>3, <1>4, <1>5

LEMMA FlattenAppend ==
  ASSUME NEW S, NEW seqs \in Seq(Seq(S)), NEW s \in Seq(S)
  PROVE  /\ Flatten(<<>>) = <<>>
         /\ Flatten(seqs) \in Seq(S)
         /\ Flatten(Append(seqs, s)) = Flatten(seqs) \o s
  <1> DEFINE n == Len(seqs)
             more == Append(seqs, s)
  <1>1. n \in Nat /\ (n = 0 => seqs = <<>>)
    BY EmptySeq, LenProperties
  <1>2. /\ more \in Seq(Seq(S)) /\ Len(more) = n + 1 /\ more[n + 1] = s
        /\ \A i \in 1 .. n : more[i] = seqs[i]
    BY AppendProperties
  <1>3. Flatten(<<>>) = <<>>
    BY DEF Flatten
  <1>4. CASE n = 0
    <2>1. seqs = <<>> /\ <<>> \in Seq(S) /\ Flatten(seqs) = <<>>
      BY <1>1, <1>3, <1>4, EmptySeq
    <2>2. PICK g : Joins(more, 1, g) /\ Flatten(more) = g[1]
      <3> HIDE DEF more
      <3>1. Len(more) = 1 /\ more \in Seq(Seq(S))
        BY <1>2, <1>4
      <3>2. Len(more) # 0
        BY <3>1
      <3>3. \E g \in [1 .. Len(more) -> Seq(S)] :
               Joins(more, Len(more), g) /\ Flatten(more) = g[Len(more)]
        BY <3>1, <3>2, FlattenIsJoin
      <3>4. QED
        BY <3>1, <3>3
    <2>3. g[1] = s
      <3> HIDE DEF more
      <3>1. more[1] = s
        BY <1>2, <1>4
      <3>2. 1 \in 1 .. 1 /\ g = [i \in 1 .. 1 |-> IF i = 1 THEN more[i] ELSE g[i - 1] \o more[i]]
        BY <2>2 DEF Joins
      <3>3. g[1] = more[1]
        BY <3>2
      <3>4. QED
        BY <3>1, <3>3
    <2>4. Flatten(more) = s /\ Flatten(seqs) \o s = s
      BY <2>1, <2>2, <2>3, ConcatEmptySeq
    <2>5. QED
      BY <1>3, <2>1, <2>4
  <1>5. CASE n # 0
    <2>1. PICK f \in [1 .. n -> Seq(S)] : Flatten(seqs) = f[n]
      BY <1>5, FlattenIsJoin
    <2>2. n \in 1 .. n
      BY <1>1, <1>5
    <2>3. Flatten(seqs) \in Seq(S)
      <3> HIDE DEF n
      <3>1. QED
        BY <2>1, <2>2
    <2>4. Alike(seqs, more, n)
      BY <1>2 DEF Alike
    <2>5. Flatten(more) = Flatten(seqs) \o more[n + 1]
      <3> HIDE DEF more
      <3>1. QED
        BY <1>1, <1>2, <1>5, <2>4, FlattenMore
    <2>6. QED
      BY <1>2, <1>3, <2>3, <2>5
  <1>6. QED
    BY <1>4, <1>5

\* Induction on sequences, over a set in place of a predicate.
LEMMA SeqInduct ==
  ASSUME NEW S, NEW G, <<>> \in G,
         \A s \in Seq(S) : s \in G => \A x \in S : Append(s, x) \in G
  PROVE  \A s \in Seq(S) : s \in G
  <1> DEFINE Failing == {n \in Nat : \E s \in Seq(S) : Len(s) = n /\ s \notin G}
  <1>1. CASE Failing = {}
    <2>1. \A s \in Seq(S) : Len(s) \in Nat
      BY LenProperties
    <2>2. QED
      BY <1>1, <2>1
  <1>2. CASE Failing # {}
    <2>1. Failing \subseteq Nat
      OBVIOUS
    <2>2. PICK n \in Failing : \A m \in Failing : n <= m
      <3> HIDE DEF Failing
      <3>1. QED
        BY <1>2, <2>1, LeastOf
    <2>3. PICK s \in Seq(S) : Len(s) = n /\ s \notin G
      BY <2>2
    <2>4. PICK t \in Seq(S), x \in S : s = Append(t, x)
      BY <2>3, SequenceEmptyOrAppend
    <2>5. Len(t) \in Nat /\ Len(t) + 1 = n
      BY <2>3, <2>4, AppendProperties, LenProperties
    <2>6. Len(t) \notin Failing
      <3> HIDE DEF Failing
      <3>1. QED
        BY <2>1, <2>2, <2>5
    <2>7. t \in G
      BY <2>5, <2>6
    <2>8. QED
      BY <2>3, <2>4, <2>7
  <1>3. QED
    BY <1>1, <1>2

-----------------------------------------------------------------------------
(* What Select keeps, of a set in place of a test.                          *)

One(x, T) == IF x \in T THEN <<x>> ELSE <<>>
Ones(s, T) == [n \in 1 .. Len(s) |-> One(s[n], T)]
Kept(s, T) == Flatten(Ones(s, T))

LEMMA OnesTyped ==
  ASSUME NEW S, NEW T, NEW s \in Seq(S)
  PROVE  Ones(s, T) \in Seq(Seq(S)) /\ Len(Ones(s, T)) = Len(s)
  <1>1. \A y \in S : One(y, T) \in Seq(S)
    BY EmptySeq DEF One
  <1>2. Len(s) \in Nat /\ \A n \in 1 .. Len(s) : One(s[n], T) \in Seq(S)
    BY <1>1, LenProperties, ElementOfSeq
  <1>3. QED
    BY <1>2 DEF Ones

LEMMA KeptTyped ==
  ASSUME NEW S, NEW T, NEW s \in Seq(S)
  PROVE  Kept(<<>>, T) = <<>> /\ Kept(s, T) \in Seq(S)
  <1>1. Ones(<<>>, T) = <<>>
    BY EmptySeq DEF Ones
  <1>2. Flatten(<<>>) = <<>>
    BY DEF Flatten
  <1>3. Flatten(Ones(s, T)) \in Seq(S)
    BY OnesTyped, EmptySeq, FlattenAppend
  <1>4. QED
    BY <1>1, <1>2, <1>3 DEF Kept

\* An element more is kept or not.
LEMMA KeptAppend ==
  ASSUME NEW S, NEW T, NEW s \in Seq(S), NEW x \in S
  PROVE  Kept(Append(s, x), T) = IF x \in T THEN Append(Kept(s, T), x) ELSE Kept(s, T)
  <1>1. Append(s, x) \in Seq(S) /\ Len(Append(s, x)) = Len(s) + 1 /\ Len(s) \in Nat
    BY AppendProperties, LenProperties
  <1>2. One(x, T) \in Seq(S)
    BY EmptySeq DEF One
  <1>3. Ones(Append(s, x), T) = Append(Ones(s, T), One(x, T))
    <2>1. /\ Ones(Append(s, x), T) \in Seq(Seq(S)) /\ Len(Ones(Append(s, x), T)) = Len(s) + 1
          /\ Ones(s, T) \in Seq(Seq(S)) /\ Len(Ones(s, T)) = Len(s)
      BY <1>1, OnesTyped
    <2>2. /\ Append(Ones(s, T), One(x, T)) \in Seq(Seq(S))
          /\ Len(Append(Ones(s, T), One(x, T))) = Len(s) + 1
          /\ \A n \in 1 .. Len(s) : Append(Ones(s, T), One(x, T))[n] = Ones(s, T)[n]
          /\ Append(Ones(s, T), One(x, T))[Len(s) + 1] = One(x, T)
      BY <1>2, <2>1, AppendProperties
    <2>3. ASSUME NEW n \in 1 .. Len(s) + 1
          PROVE  Ones(Append(s, x), T)[n] = Append(Ones(s, T), One(x, T))[n]
      <3>1. Ones(Append(s, x), T)[n] = One(Append(s, x)[n], T)
        BY <1>1 DEF Ones
      <3>2. CASE n \in 1 .. Len(s)
        <4>1. Append(s, x)[n] = s[n] /\ Ones(s, T)[n] = One(s[n], T)
          BY <3>2, AppendProperties DEF Ones
        <4>2. QED
          BY <2>2, <3>1, <3>2, <4>1
      <3>3. CASE n = Len(s) + 1
        <4>1. Append(s, x)[n] = x
          BY <3>3, AppendProperties
        <4>2. QED
          BY <2>2, <3>1, <3>3, <4>1
      <3>4. n \in 1 .. Len(s) \/ n = Len(s) + 1
        BY <1>1
      <3>5. QED
        BY <3>2, <3>3, <3>4
    <2>4. QED
      BY <2>1, <2>2, <2>3, SeqEqual
  <1>4. Kept(Append(s, x), T) = Kept(s, T) \o One(x, T)
    BY <1>2, <1>3, OnesTyped, FlattenAppend DEF Kept
  <1>5. Kept(s, T) \in Seq(S)
    BY KeptTyped
  <1>6. QED
    BY <1>4, <1>5, AppendIsConcat, ConcatEmptySeq DEF One

LEMMA KeptOne ==
  ASSUME NEW S, NEW T, NEW x \in S
  PROVE  Kept(<<x>>, T) = IF x \in T THEN <<x>> ELSE <<>>
  <1>1. PICK e \in Seq(S) : e = <<>>
    BY EmptySeq
  <1>2. Kept(e, T) = e
    BY <1>1, KeptTyped
  <1>3. Kept(Append(e, x), T) = IF x \in T THEN Append(e, x) ELSE e
    BY <1>2, KeptAppend
  <1>4. Append(e, x) = <<x>>
    BY <1>1
  <1>5. QED
    BY <1>1, <1>3, <1>4

\* Every element kept is of the set.
LEMMA KeptElements ==
  ASSUME NEW S, NEW T, NEW s \in Seq(S)
  PROVE  Kept(s, T) \in Seq(S \cap T)
  <1> DEFINE G == {t \in Seq(S) : Kept(t, T) \in Seq(S \cap T)}
  <1>1. <<>> \in G
    BY KeptTyped, EmptySeq
  <1>2. ASSUME NEW t \in Seq(S), t \in G, NEW x \in S
        PROVE  Append(t, x) \in G
    <2>1. Append(t, x) \in Seq(S) /\ Kept(t, T) \in Seq(S \cap T)
      BY <1>2, AppendProperties
    <2>2. CASE x \in T
      <3>1. Kept(Append(t, x), T) = Append(Kept(t, T), x) /\ x \in S \cap T
        BY <2>2, KeptAppend
      <3>2. Append(Kept(t, T), x) \in Seq(S \cap T)
        BY <2>1, <3>1, AppendProperties
      <3>3. QED
        BY <2>1, <3>1, <3>2
    <2>3. CASE x \notin T
      BY <2>1, <2>3, KeptAppend
    <2>4. QED
      BY <2>2, <2>3
  <1>3. s \in G
    <2> HIDE DEF G
    <2>1. QED
      BY <1>1, <1>2, SeqInduct
  <1>4. QED
    BY <1>3

LEMMA AppendOfConcat ==
  ASSUME NEW S, NEW s \in Seq(S), NEW t \in Seq(S), NEW x \in S
  PROVE  Append(s \o t, x) = s \o Append(t, x)
  <1>1. s \o t \in Seq(S) /\ <<x>> \in Seq(S)
    BY ConcatProperties
  <1>2. Append(s \o t, x) = (s \o t) \o <<x>> /\ Append(t, x) = t \o <<x>>
    BY <1>1, AppendIsConcat
  <1>3. (s \o t) \o <<x>> = s \o (t \o <<x>>)
    BY <1>1, ConcatAssociative
  <1>4. QED
    BY <1>2, <1>3

\* What is kept of a concatenation.
LEMMA KeptConcat ==
  ASSUME NEW S, NEW T, NEW s \in Seq(S), NEW u \in Seq(S)
  PROVE  Kept(s \o u, T) = Kept(s, T) \o Kept(u, T)
  <1> DEFINE G == {t \in Seq(S) : Kept(s \o t, T) = Kept(s, T) \o Kept(t, T)}
  <1>1. <<>> \in G
    BY KeptTyped, EmptySeq, ConcatEmptySeq
  <1>2. ASSUME NEW t \in Seq(S), t \in G, NEW x \in S
        PROVE  Append(t, x) \in G
    <2> DEFINE st == s \o t
               ks == Kept(s, T)
               kt == Kept(t, T)
    <2>1. Append(t, x) \in Seq(S) /\ st \in Seq(S) /\ ks \in Seq(S) /\ kt \in Seq(S)
      BY AppendProperties, ConcatProperties, KeptTyped
    <2>2. s \o Append(t, x) = Append(st, x)
      BY AppendOfConcat
    <2>3. Kept(st, T) = ks \o kt
      BY <1>2
    <2> SUFFICES Kept(s \o Append(t, x), T) = ks \o Kept(Append(t, x), T)
      BY <2>1
    <2> HIDE DEF st, ks, G
    <2>4. Kept(Append(st, x), T) = IF x \in T THEN Append(Kept(st, T), x) ELSE Kept(st, T)
      BY <2>1, KeptAppend
    <2>5. Kept(Append(t, x), T) = IF x \in T THEN Append(kt, x) ELSE kt
      BY KeptAppend
    <2> HIDE DEF kt
    <2>6. Append(ks \o kt, x) = ks \o Append(kt, x)
      <3>1. ks \in Seq(S) /\ kt \in Seq(S)
        BY <2>1
      <3>2. ks \o Append(kt, x) = Append(ks \o kt, x)
        BY <3>1, AppendOfConcat
      <3>3. QED
        BY <3>2
    <2>7. QED
      BY <2>2, <2>3, <2>4, <2>5, <2>6
  <1>3. u \in G
    <2> HIDE DEF G
    <2>1. QED
      BY <1>1, <1>2, SeqInduct
  <1>4. QED
    BY <1>3

-----------------------------------------------------------------------------
(* The queue: what its steps do to the task's messages.                     *)

Own == {m \in Messages : m.type # "other"}

LEMMA SelectsOwn ==
  ASSUME NEW q \in Seq(Messages)
  PROVE  Select(q, LAMBDA m : m.type # "other") = Kept(q, Own)
  <1>1. Len(q) \in Nat /\ \A n \in 1 .. Len(q) : q[n] \in Messages
    BY LenProperties, ElementOfSeq
  <1>2. [n \in 1 .. Len(q) |-> IF q[n].type # "other" THEN <<q[n]>> ELSE <<>>]
           = Ones(q, Own)
    <2> HIDE DEF Messages
    <2>1. QED
      BY <1>1 DEF Ones, One, Own
  <1>3. QED
    BY <1>2 DEF Select, Kept

LEMMA MessagedTyped ==
  ASSUME QueueTypes
  PROVE  /\ Messaged = delivered \o Kept(queue, Own)
         /\ Messaged \in Seq(Messages)
         /\ Len(Messaged) \in Nat /\ DOMAIN Messaged = 1 .. Len(Messaged)
  <1> USE DEF QueueTypes
  <1>1. Messaged = delivered \o Kept(queue, Own)
    BY SelectsOwn DEF Messaged
  <1>2. Kept(queue, Own) \in Seq(Messages)
    BY KeptTyped
  <1>3. Messaged \in Seq(Messages)
    BY <1>1, <1>2, ConcatProperties
  <1>4. QED
    BY <1>1, <1>3, LenProperties

LEMMA MessagedNext ==
  ASSUME QueueTypes'
  PROVE  Messaged' = delivered' \o Kept(queue', Own)
  <1>1. queue' \in Seq(Messages)
    BY DEF QueueTypes
  <1>2. Kept(queue', Own) = Select(queue', LAMBDA m : m.type # "other")
    BY <1>1, SelectsOwn
  <1>3. QED
    BY <1>2 DEF Messaged, Select

\* A message of the task's own is told if the queue has room, and not otherwise.
LEMMA MessagedSend ==
  ASSUME QueueTypes, NEW m \in Own, Send(m)
  PROVE  /\ Messaged' = IF HasRoom THEN Append(Messaged, m) ELSE Messaged
         /\ refused' = (refused \/ ~HasRoom)
  <1>1. m \in Messages /\ QueueTypes' /\ delivered' = delivered
        /\ refused' = (refused \/ ~HasRoom)
    BY SendTypes DEF Own, Send
  <1>2. CASE HasRoom
    <2>1. queue' = Append(queue, m)
      BY <1>2 DEF Send
    <2>2. Kept(queue', Own) = Append(Kept(queue, Own), m)
      BY <1>1, <2>1, KeptAppend DEF QueueTypes
    <2>3. delivered \in Seq(Messages) /\ Kept(queue, Own) \in Seq(Messages)
      BY KeptTyped DEF QueueTypes
    <2>4. delivered \o Append(Kept(queue, Own), m) = Append(delivered \o Kept(queue, Own), m)
      BY <1>1, <2>3, AppendOfConcat
    <2>5. QED
      BY <1>1, <1>2, <2>2, <2>4, MessagedTyped, MessagedNext
  <1>3. CASE ~HasRoom
    <2>1. queue' = queue
      BY <1>3 DEF Send
    <2>2. QED
      BY <1>1, <1>3, <2>1, MessagedTyped, MessagedNext
  <1>4. QED
    BY <1>2, <1>3

\* What the main loop and the other producers do leaves the task's messages.
LEMMA MessagedRests ==
  ASSUME QueueTypes, DeliverOne \/ OtherSend \/ Send(Other) \/ UNCHANGED outgoing
  PROVE  Messaged' = Messaged
  <1>1. Other \in Messages /\ Other \notin Own
    BY DEF Messages, Own, Other
  <1>2. QueueTypes' /\ queue \in Seq(Messages) /\ delivered \in Seq(Messages)
    BY <1>1, SendTypes, QueueStepTypes DEF QueueTypes
  <1>3. CASE OtherSend \/ Send(Other) \/ UNCHANGED outgoing
    <2>1. delivered' = delivered /\ (queue' = queue \/ queue' = Append(queue, Other))
      BY <1>3 DEF OtherSend, Send, outgoing
    <2>2. Kept(Append(queue, Other), Own) = Kept(queue, Own)
      <3>1. Kept(Append(queue, Other), Own)
               = IF Other \in Own THEN Append(Kept(queue, Own), Other) ELSE Kept(queue, Own)
        BY <1>1, <1>2, KeptAppend
      <3>2. QED
        BY <1>1, <3>1
    <2>3. Kept(queue', Own) = Kept(queue, Own)
      BY <2>1, <2>2
    <2>4. QED
      BY <1>2, <2>1, <2>3, MessagedTyped, MessagedNext
  <1>4. CASE DeliverOne
    <2> DEFINE m == Head(queue)
    <2>1. /\ queue # <<>> /\ queue' = Tail(queue)
          /\ delivered' = IF m.type = "other" THEN delivered ELSE Append(delivered, m)
      BY <1>4 DEF DeliverOne, Deliver
    <2>2. /\ m \in Messages /\ <<m>> \in Seq(Messages) /\ Tail(queue) \in Seq(Messages)
          /\ queue = <<m>> \o Tail(queue)
      BY <1>2, <2>1, HeadTailProperties
    <2>3. Kept(queue, Own) = Kept(<<m>>, Own) \o Kept(Tail(queue), Own)
      <3> HIDE DEF m
      <3>1. Kept(<<m>> \o Tail(queue), Own) = Kept(<<m>>, Own) \o Kept(Tail(queue), Own)
        BY <2>2, KeptConcat
      <3>2. QED
        BY <2>2, <3>1
    <2>4. Kept(<<m>>, Own) = IF m \in Own THEN <<m>> ELSE <<>>
      <3> HIDE DEF m
      <3>1. QED
        BY <2>2, KeptOne
    <2>5. m \in Own <=> m.type # "other"
      BY <2>2 DEF Own
    <2> DEFINE rest == Kept(Tail(queue), Own)
    <2>6. rest \in Seq(Messages)
      BY <2>2, KeptTyped
    <2> HIDE DEF m, rest
    <2>7. Messaged = delivered \o (IF m \in Own THEN <<m>> \o rest ELSE <<>> \o rest)
      BY <2>3, <2>4, MessagedTyped DEF rest
    <2>8. Messaged' = (IF m \in Own THEN Append(delivered, m) ELSE delivered) \o rest
      BY <1>2, <2>1, <2>5, MessagedNext DEF rest
    <2>9. CASE m \in Own
      <3>1. Append(delivered, m) = delivered \o <<m>>
        BY <1>2, <2>2, AppendIsConcat
      <3>2. (delivered \o <<m>>) \o rest = delivered \o (<<m>> \o rest)
        BY <1>2, <2>2, <2>6, ConcatAssociative
      <3>3. QED
        BY <2>7, <2>8, <2>9, <3>1, <3>2
    <2>10. CASE m \notin Own
      BY <2>6, <2>7, <2>8, <2>10, ConcatEmptySeq
    <2>11. QED
      BY <2>9, <2>10
  <1>5. QED
    BY <1>3, <1>4

-----------------------------------------------------------------------------
(* Each step is of the kind the behaviour follows, or leaves its messages.  *)

Resting == Messaged' = Messaged /\ refused' = refused /\ running' = running

LEMMA Turns ==
  ASSUME TypesInv, [Next]_vars
  PROVE  /\ \/ running = "journal" /\ Journal!Next
            \/ UNCHANGED journalTask /\ (Resting \/ running # "journal")
         /\ \/ running = "pod" /\ PodLog!Next
            \/ UNCHANGED podTask /\ (Resting \/ running # "pod")
         /\ \/ running = "probe" /\ Probe!Next
            \/ UNCHANGED probeTask /\ (Resting \/ running # "probe")
         /\ \/ running = "session" /\ Session!Next
            \/ UNCHANGED sessionTask /\ (Resting \/ running # "session")
         /\ \/ running = "capabilities" /\ Announce!Next
            \/ UNCHANGED capabilityTask /\ (Resting \/ running # "capabilities")
         /\ running' = running
  <1>1. QueueTypes
    BY DEF TypesInv
  <1>2. CASE DeliverOne \/ (OtherSend /\ Rest("queue"))
    <2>1. Messaged' = Messaged
      BY <1>1, <1>2, MessagedRests
    <2>2. refused' = refused /\ Rest("queue")
      BY <1>2 DEF DeliverOne, Deliver, OtherSend
    <2>3. QED
      BY <2>1, <2>2 DEF Rest, Resting
  <1>3. CASE UNCHANGED vars
    <2>1. UNCHANGED <<outgoing, running, journalTask, podTask, probeTask, sessionTask,
                      capabilityTask>>
      BY <1>3 DEF vars
    <2>2. Messaged' = Messaged /\ refused' = refused
      BY <1>1, <2>1, MessagedRests DEF outgoing
    <2>3. QED
      BY <2>1, <2>2 DEF Resting
  <1>4. CASE running = "journal" /\ Journal!Next /\ Rest("journal")
    BY <1>4 DEF Rest
  <1>5. CASE running = "pod" /\ PodLog!Next /\ Rest("pod")
    BY <1>5 DEF Rest
  <1>6. CASE running = "probe" /\ Probe!Next /\ Rest("probe")
    BY <1>6 DEF Rest
  <1>7. CASE running = "session" /\ Session!Next /\ Rest("session")
    BY <1>7 DEF Rest
  <1>8. CASE running = "capabilities" /\ Announce!Next /\ Rest("capabilities")
    BY <1>8 DEF Rest
  <1>9. ASSUME NEW kind \in {"exec", "backup", "restore", "apply", "prune"},
               running = kind, Rest(kind)
        PROVE  /\ UNCHANGED <<journalTask, podTask, probeTask, sessionTask, capabilityTask>>
               /\ running' = running
    BY <1>9 DEF Rest
  <1>10. QED
    BY <1>2, <1>3, <1>4, <1>5, <1>6, <1>7, <1>8, <1>9 DEF Next

-----------------------------------------------------------------------------
(* Capabilities: the last announcement is what the task takes for announced. *)

AnnounceInv ==
    /\ running # "capabilities" => ~registered
    /\ (registered /\ ~refused) => Messaged # <<>> /\ Messaged[Len(Messaged)].found = current

LEMMA AnnounceMessaged == Announce!Messaged = Messaged
  BY DEF Announce!Messaged, Messaged, Announce!Select, Select, Announce!Flatten, Flatten

LEMMA AnnounceTold == AnnounceInv => Announce!ToldIsRemembered
  BY AnnounceMessaged DEF AnnounceInv, Announce!ToldIsRemembered, Announce!Told

LEMMA AnnounceStep == TypesInv /\ AnnounceInv /\ [Next]_vars => AnnounceInv'
  <1> SUFFICES ASSUME TypesInv, AnnounceInv, [Next]_vars
               PROVE  AnnounceInv'
    OBVIOUS
  <1>1. QueueTypes /\ Announce!TypeOK
    BY DEF TypesInv
  <1>2. CASE UNCHANGED capabilityTask /\ (Resting \/ running # "capabilities")
    BY <1>2, Turns DEF AnnounceInv, capabilityTask, Resting
  <1>3. CASE running = "capabilities" /\ Announce!Next
    <2>1. CASE \E s \in Subsystems : Announce!Shift(s)
      <3>1. UNCHANGED <<registered, current, outgoing>>
        BY <2>1 DEF Announce!Shift, Announce!outgoing, outgoing
      <3>2. Messaged' = Messaged /\ refused' = refused
        BY <1>1, <3>1, MessagedRests DEF outgoing
      <3>3. QED
        BY <1>3, <3>1, <3>2, Turns DEF AnnounceInv
    <2>2. CASE Announce!Register \/ Announce!Reprobe
      <3> DEFINE m == Announce!Announcement(present)
      <3>1. Send(m) /\ current' = present
        BY <2>2, SendsAreOne DEF Announce!Register, Announce!Reprobe
      <3>2. m \in Own /\ m.found = present
        BY <1>1 DEF Announce!TypeOK, Announce!Announcement, Own, Messages
      <3> HIDE DEF m
      <3>3. /\ Messaged' = IF HasRoom THEN Append(Messaged, m) ELSE Messaged
            /\ refused' = (refused \/ ~HasRoom)
        BY <1>1, <3>1, <3>2, MessagedSend
      <3>4. CASE HasRoom
        <4>1. Messaged' # <<>> /\ Messaged'[Len(Messaged')] = m
          BY <1>1, <3>2, <3>3, <3>4, MessagedTyped, AppendProperties DEF Own
        <4>2. QED
          BY <1>3, <3>1, <3>2, <4>1, Turns DEF AnnounceInv
      <3>5. CASE ~HasRoom
        BY <1>3, <3>3, <3>5, Turns DEF AnnounceInv
      <3>6. QED
        BY <3>4, <3>5
    <2>3. QED
      BY <1>3, <2>1, <2>2 DEF Announce!Next
  <1>4. QED
    BY <1>2, <1>3, Turns

\* What is kept of the task's messages when one more is sent.
LEMMA KeptSend ==
  ASSUME QueueTypes, NEW T, NEW m \in Own, Send(m)
  PROVE  /\ Kept(Messaged', T) = IF HasRoom /\ m \in T THEN Append(Kept(Messaged, T), m)
                                 ELSE Kept(Messaged, T)
         /\ Kept(Messaged, T) \in Seq(Messages)
  <1>1. Messaged \in Seq(Messages) /\ m \in Messages
    BY MessagedTyped DEF Own
  <1>2. Messaged' = IF HasRoom THEN Append(Messaged, m) ELSE Messaged
    BY MessagedSend
  <1>3. Kept(Append(Messaged, m), T)
           = IF m \in T THEN Append(Kept(Messaged, T), m) ELSE Kept(Messaged, T)
    BY <1>1, KeptAppend
  <1>4. Kept(Messaged, T) \in Seq(Messages)
    BY <1>1, KeptTyped
  <1>5. QED
    BY <1>2, <1>3, <1>4

-----------------------------------------------------------------------------
(* Probes: the map holds the tasks that run, of the last set, and what the   *)
(* server was told last is what the task in the map remembers.               *)

Reports(i) == {m \in Messages : m.type = "report" /\ m.id = i}
LastOf(reports) == IF reports = <<>> THEN Probe!NoState ELSE reports[Len(reports)].state
Runs(probe) == probe.at \in {"sleeping", "sampled"}

ToldOn(i) ==
    (tasks[i] # 0 /\ ~refused /\ i \notin late /\ probes[i][tasks[i]].last # Probe!NoState) =>
        LastOf(Kept(Messaged, Reports(i))) = probes[i][tasks[i]].last

ProbeMap ==
    /\ Probe!RunningIsMapped /\ Probe!LastSetRuns
    /\ ~overlapped => pending \subseteq {Len(received)}

ProbeInv ==
    /\ running # "probe" => \A i \in ProbeIds : tasks[i] = 0
    /\ ProbeMap
    /\ \A i \in ProbeIds : ToldOn(i)

LEMMA SelectsReports ==
  ASSUME NEW q \in Seq(Messages), NEW i
  PROVE  Select(q, LAMBDA m : m.type = "report" /\ m.id = i) = Kept(q, Reports(i))
  <1>1. Len(q) \in Nat /\ \A n \in 1 .. Len(q) : q[n] \in Messages
    BY LenProperties, ElementOfSeq
  <1>2. [n \in 1 .. Len(q) |-> IF q[n].type = "report" /\ q[n].id = i THEN <<q[n]>> ELSE <<>>]
           = Ones(q, Reports(i))
    <2> HIDE DEF Messages
    <2>1. QED
      BY <1>1 DEF Ones, One, Reports
  <1>3. QED
    BY <1>2 DEF Select, Kept

LEMMA ProbeTold == QueueTypes /\ ProbeInv => Probe!ToldIsRemembered
  <1> SUFFICES ASSUME QueueTypes, ProbeInv PROVE Probe!ToldIsRemembered
    OBVIOUS
  <1>1. Probe!Messaged = Messaged
    BY DEF Probe!Messaged, Messaged, Probe!Select, Select, Probe!Flatten, Flatten
  <1>2. ASSUME NEW i \in ProbeIds
        PROVE  Probe!Told(i) = LastOf(Kept(Messaged, Reports(i)))
    <2>1. Probe!ReportsOn(i) = Select(Messaged, LAMBDA m : m.type = "report" /\ m.id = i)
      BY <1>1 DEF Probe!ReportsOn, Probe!Select, Select, Probe!Flatten, Flatten
    <2>2. Messaged \in Seq(Messages)
      BY MessagedTyped
    <2>3. Probe!ReportsOn(i) = Kept(Messaged, Reports(i))
      <3> HIDE DEF Messaged
      <3>1. QED
        BY <2>1, <2>2, SelectsReports DEF Select
    <2>4. QED
      BY <2>3 DEF Probe!Told, LastOf, Probe!NoState
  <1>3. QED
    BY <1>2 DEF ProbeInv, ToldOn, Probe!ToldIsRemembered

\* A step of one task of a probe, that keeps its spec and goes on or not as before.
Becomes(i, k, t) ==
    /\ probes' = [probes EXCEPT ![i][k] = t]
    /\ t.spec = probes[i][k].spec /\ (Runs(t) <=> Runs(probes[i][k]))
    /\ UNCHANGED <<received, pending, overlapped, tasks>>

LEMMA ProbeSet ==
  ASSUME ProbeTypes, ProbeMap, NEW i \in ProbeIds, NEW k \in DOMAIN probes[i], NEW t,
         Becomes(i, k, t)
  PROVE  /\ ProbeMap'
         /\ \A j \in ProbeIds : \A m \in DOMAIN probes[j] :
               probes'[j][m] = IF j = i /\ m = k THEN t ELSE probes[j][m]
  <1> USE DEF Becomes
  <1>1. /\ probes \in [ProbeIds -> Seq(Probe!ProbeTask)] /\ tasks \in [ProbeIds -> Nat]
        /\ \A j \in ProbeIds : tasks[j] <= Len(probes[j]) /\ Len(probes[j]) \in Nat
                               /\ DOMAIN probes[j] = 1 .. Len(probes[j])
    BY LenProperties DEF ProbeTypes, Probe!TypeOK
  <1>2. probes'[i] = [probes[i] EXCEPT ![k] = t] /\ \A j \in ProbeIds \ {i} : probes'[j] = probes[j]
    BY <1>1
  <1>3. ASSUME NEW j \in ProbeIds
        PROVE  DOMAIN probes'[j] = DOMAIN probes[j] /\
               \A m \in DOMAIN probes[j] :
               probes'[j][m] = IF j = i /\ m = k THEN t ELSE probes[j][m]
    <2>1. CASE j = i
      BY <1>1, <1>2, <2>1
    <2>2. CASE j # i
      BY <1>2, <2>2
    <2>3. QED
      BY <2>1, <2>2
  <1>4. Probe!RunningIsMapped'
    BY <1>3 DEF Probe!RunningIsMapped, ProbeMap, Runs
  <1>5. ASSUME NEW j \in ProbeIds PROVE Probe!Configured(j)' = Probe!Configured(j)
    <2>1. tasks[j] # 0 => tasks[j] \in DOMAIN probes[j]
      BY <1>1
    <2>2. QED
      BY <1>3, <2>1 DEF Probe!Configured
  <1>6. Probe!LastSetRuns'
    BY <1>5 DEF Probe!LastSetRuns, ProbeMap, Probe!Idle
  <1>7. QED
    BY <1>3, <1>4, <1>6 DEF ProbeMap

LEMMA ProbeStep == TypesInv /\ ProbeInv /\ [Next]_vars => ProbeInv'
  <1> SUFFICES ASSUME TypesInv, ProbeInv, [Next]_vars
               PROVE  ProbeInv'
    OBVIOUS
  <1> DEFINE Tasks == Probe!ProbeTask
  <1>1. /\ QueueTypes /\ ProbeTypes /\ ProbeMap /\ NoSpec \notin Specs /\ Messaged \in Seq(Messages)
        /\ \A set \in ProbeSets : DOMAIN set \subseteq ProbeIds
        /\ \A set \in ProbeSets : \A i \in DOMAIN set : set[i] \in Specs
    BY RequestsAssumption, MessagedTyped DEF TypesInv, Probe!ProbesAssumption, ProbeInv
  <1>2. /\ received \in Seq(ProbeSets) /\ Len(received) \in Nat
        /\ pending \subseteq 1 .. Len(received)
        /\ probes \in [ProbeIds -> Seq(Tasks)] /\ tasks \in [ProbeIds -> Nat]
        /\ \A i \in ProbeIds : tasks[i] <= Len(probes[i]) /\ Len(probes[i]) \in Nat
                               /\ DOMAIN probes[i] = 1 .. Len(probes[i])
    BY <1>1, LenProperties DEF ProbeTypes, Probe!TypeOK
  <1>3. \A i \in ProbeIds : \A k \in 1 .. Len(probes[i]) : probes[i][k] \in Tasks
    BY <1>2, ElementOfSeq
  <1>4. \A i \in ProbeIds : \A k \in 1 .. Len(probes[i]) : Runs(probes[i][k]) <=> k = tasks[i]
    BY <1>1, <1>2 DEF ProbeMap, Probe!RunningIsMapped, Runs
  <1>5. CASE UNCHANGED probeTask /\ (Resting \/ running # "probe")
    <2>1. ProbeMap'
      BY <1>1, <1>5 DEF probeTask, ProbeMap, Probe!RunningIsMapped, Probe!LastSetRuns,
                        Probe!Configured, Probe!Idle
    <2>2. running' = running
      BY Turns
    <2>3. ASSUME NEW i \in ProbeIds PROVE ToldOn(i)'
      <3>1. ToldOn(i) /\ tasks' = tasks /\ probes' = probes /\ late' = late
        BY <1>5 DEF ProbeInv, probeTask
      <3>2. CASE Resting
        BY <3>1, <3>2 DEF ToldOn, Resting
      <3>3. CASE running # "probe"
        BY <3>1, <3>3 DEF ToldOn, ProbeInv
      <3>4. QED
        BY <1>5, <3>2, <3>3
    <2>4. QED
      BY <1>5, <2>1, <2>2, <2>3 DEF ProbeInv, probeTask
  <1>6. ASSUME running = "probe", ProbeMap', \A i \in ProbeIds : ToldOn(i)'
        PROVE  ProbeInv'
    BY <1>6, Turns DEF ProbeInv
  <1>7. ASSUME UNCHANGED <<outgoing, late>>,
               NEW i \in ProbeIds,
               \/ tasks'[i] = 0
               \/ probes'[i][tasks'[i]].last = Probe!NoState
               \/ /\ tasks'[i] = tasks[i]
                  /\ probes'[i][tasks'[i]].last = probes[i][tasks[i]].last
        PROVE  ToldOn(i)'
    <2>1. Messaged' = Messaged /\ refused' = refused
      BY <1>1, <1>7, MessagedRests DEF outgoing
    <2>2. ToldOn(i)
      BY DEF ProbeInv
    <2>3. QED
      BY <1>7, <2>1, <2>2 DEF ToldOn
  <1>8. ASSUME running = "probe", NEW set \in ProbeSets, Probe!Request(set)
        PROVE  ProbeInv'
    <2>1. /\ received' = Append(received, set) /\ overlapped' = (overlapped \/ pending # {})
          /\ pending' = pending \cup {Len(received) + 1}
          /\ UNCHANGED <<probes, tasks, late, outgoing>>
      BY <1>8 DEF Probe!Request, Probe!outgoing, outgoing
    <2>2. Len(received') = Len(received) + 1
      BY <1>2, <2>1, AppendProperties
    <2>3. pending' # {} /\ (~overlapped' => pending' \subseteq {Len(received')})
      BY <2>1, <2>2
    <2>4. ProbeMap'
      BY <1>1, <2>1, <2>3 DEF ProbeMap, Probe!RunningIsMapped, Probe!LastSetRuns
    <2>5. QED
      BY <1>6, <1>7, <1>8, <2>1, <2>4
  <1>9. ASSUME running = "probe", NEW i \in ProbeIds, Probe!Flip(i)
        PROVE  ProbeInv'
    <2>1. UNCHANGED <<received, pending, overlapped, probes, tasks, late, outgoing>>
      BY <1>9 DEF Probe!Flip, Probe!outgoing, outgoing
    <2>2. ProbeMap'
      BY <1>1, <2>1 DEF ProbeMap, Probe!RunningIsMapped, Probe!LastSetRuns,
                        Probe!Configured, Probe!Idle
    <2>3. QED
      BY <1>6, <1>7, <1>9, <2>1, <2>2
  <1>10. ASSUME running = "probe", NEW n \in pending, Probe!Sync(n)
         PROVE  ProbeInv'
    <2> DEFINE set == received[n]
               Left(i) == IF i \in Probe!Superseded(set)
                          THEN [probes[i] EXCEPT ![tasks[i]] = Probe!AbortTask(@)]
                          ELSE probes[i]
    <2>1. /\ pending' = pending \ {n}
          /\ probes' = [i \in ProbeIds |-> IF i \in Probe!Fresh(set)
                                           THEN Append(Left(i), Probe!Spawned(set[i]))
                                           ELSE Left(i)]
          /\ tasks' = [i \in ProbeIds |->
                 IF i \in Probe!Fresh(set) THEN Len(probes[i]) + 1
                 ELSE IF i \in DOMAIN set THEN tasks[i] ELSE 0]
          /\ UNCHANGED <<received, overlapped, late, outgoing>>
      BY <1>10 DEF Probe!Sync, Probe!outgoing, outgoing
    <2>2. set \in ProbeSets /\ DOMAIN set \subseteq ProbeIds
          /\ \A i \in DOMAIN set : set[i] \in Specs
      BY <1>1, <1>2, ElementOfSeq
    <2>3. n = Len(received) => set = received[Len(received)]
      OBVIOUS
    <2> HIDE DEF set, Left
    <2>4. ASSUME NEW i \in ProbeIds
          PROVE  /\ Left(i) \in Seq(Tasks) /\ Len(Left(i)) = Len(probes[i])
                 /\ i \in Probe!Superseded(set) =>
                       \A k \in 1 .. Len(probes[i]) : ~Runs(Left(i)[k])
                 /\ i \notin Probe!Superseded(set) => Left(i) = probes[i]
      <3>1. CASE i \in Probe!Superseded(set)
        <4> DEFINE t == Probe!AbortTask(probes[i][tasks[i]])
        <4>1. tasks[i] \in 1 .. Len(probes[i])
          BY <1>2, <3>1 DEF Probe!Superseded
        <4>2. probes[i][tasks[i]] \in Tasks
          BY <1>3, <4>1
        <4>3. t \in Tasks /\ ~Runs(t)
          BY <4>2 DEF Probe!AbortTask, Probe!ProbeTask, Runs
        <4>4. Left(i) = [probes[i] EXCEPT ![tasks[i]] = t]
          BY <3>1 DEF Left
        <4> HIDE DEF t
        <4>5. Left(i) \in Seq(Tasks) /\ Len(Left(i)) = Len(probes[i])
          BY <1>2, <4>1, <4>3, <4>4, ExceptSeq
        <4>6. \A k \in 1 .. Len(probes[i]) :
                 Left(i)[k] = IF k = tasks[i] THEN t ELSE probes[i][k]
          BY <1>2, <4>4
        <4>7. QED
          BY <1>4, <3>1, <4>3, <4>5, <4>6
      <3>2. CASE i \notin Probe!Superseded(set)
        BY <1>2, <3>2 DEF Left
      <3>3. QED
        BY <3>1, <3>2
    <2>5. ASSUME NEW i \in ProbeIds
          PROVE  /\ i \in Probe!Fresh(set) =>
                       /\ i \in DOMAIN set /\ tasks'[i] = Len(probes[i]) + 1
                       /\ DOMAIN probes'[i] = 1 .. Len(probes[i]) + 1
                       /\ probes'[i][Len(probes[i]) + 1] = Probe!Spawned(set[i])
                       /\ \A k \in 1 .. Len(probes[i]) : ~Runs(probes'[i][k])
                 /\ (i \notin Probe!Fresh(set) /\ i \in DOMAIN set) =>
                       tasks'[i] = tasks[i] /\ tasks[i] # 0 /\ probes'[i] = probes[i]
                       /\ set[i] = Probe!Configured(i)
                 /\ i \notin DOMAIN set =>
                       tasks'[i] = 0 /\ \A k \in DOMAIN probes'[i] : ~Runs(probes'[i][k])
      <3>1. \A k \in 1 .. Len(probes[i]) :
               Runs(Left(i)[k]) => i \notin Probe!Superseded(set) /\ k = tasks[i] /\ tasks[i] # 0
        BY <1>2, <1>4, <2>4
      <3>2. CASE i \in Probe!Fresh(set)
        <4>1. /\ i \in DOMAIN set /\ set[i] # Probe!Configured(i)
              /\ probes'[i] = Append(Left(i), Probe!Spawned(set[i]))
              /\ tasks'[i] = Len(probes[i]) + 1
          BY <2>1, <3>2 DEF Probe!Fresh
        <4>2. Probe!Spawned(set[i]) \in Tasks
          BY <2>2, <4>1 DEF Probe!Spawned, Probe!ProbeTask
        <4>3. /\ probes'[i] \in Seq(Tasks) /\ Len(probes'[i]) = Len(probes[i]) + 1
              /\ probes'[i][Len(probes[i]) + 1] = Probe!Spawned(set[i])
              /\ \A k \in 1 .. Len(probes[i]) : probes'[i][k] = Left(i)[k]
          BY <2>4, <4>1, <4>2, AppendProperties
        <4>4. tasks[i] # 0 => i \in Probe!Superseded(set)
          BY <4>1 DEF Probe!Superseded
        <4>5. DOMAIN probes'[i] = 1 .. Len(probes[i]) + 1
          BY <4>3, LenProperties
        <4>6. QED
          BY <3>1, <3>2, <4>1, <4>3, <4>4, <4>5
      <3>3. CASE i \notin Probe!Fresh(set)
        <4>1. /\ probes'[i] = Left(i) /\ tasks'[i] = IF i \in DOMAIN set THEN tasks[i] ELSE 0
              /\ i \in DOMAIN set => set[i] = Probe!Configured(i)
          BY <2>1, <3>3 DEF Probe!Fresh
        <4>2. CASE i \in DOMAIN set
          <5>1. i \notin Probe!Superseded(set)
            BY <4>1, <4>2 DEF Probe!Superseded
          <5>2. tasks[i] # 0
            BY <1>1, <2>2, <4>1, <4>2 DEF Probe!Configured
          <5>3. QED
            BY <2>4, <3>3, <4>1, <4>2, <5>1, <5>2
        <4>3. CASE i \notin DOMAIN set
          <5>1. tasks[i] # 0 => i \in Probe!Superseded(set)
            BY <4>3 DEF Probe!Superseded
          <5>2. DOMAIN probes'[i] = 1 .. Len(probes[i])
            BY <2>4, <4>1, LenProperties
          <5>3. QED
            BY <3>1, <3>3, <4>1, <4>3, <5>1, <5>2
        <4>4. QED
          BY <4>2, <4>3
      <3>4. QED
        BY <3>2, <3>3
    <2>6. ASSUME NEW i \in ProbeIds, NEW k \in DOMAIN probes'[i]
          PROVE  Runs(probes'[i][k]) <=> k = tasks'[i]
      <3>1. CASE i \in Probe!Fresh(set)
        <4>1. Runs(Probe!Spawned(set[i]))
          BY DEF Runs, Probe!Spawned
        <4>2. k \in 1 .. Len(probes[i]) \/ k = Len(probes[i]) + 1
          BY <1>2, <2>5, <3>1
        <4>3. k \in 1 .. Len(probes[i]) => k # Len(probes[i]) + 1
          BY <1>2
        <4>4. QED
          BY <2>5, <3>1, <4>1, <4>2, <4>3
      <3>2. CASE i \notin Probe!Fresh(set) /\ i \in DOMAIN set
        <4>1. probes'[i] = probes[i] /\ tasks'[i] = tasks[i]
          BY <2>5, <3>2
        <4>2. k \in 1 .. Len(probes[i])
          BY <1>2, <4>1
        <4>3. QED
          BY <1>4, <4>1, <4>2
      <3>3. CASE i \notin DOMAIN set
        <4>1. probes'[i] = Left(i)
          BY <2>1, <3>3 DEF Probe!Fresh
        <4>2. k # 0
          BY <1>2, <2>4, <4>1, LenProperties
        <4>3. QED
          BY <2>5, <3>3, <4>2
      <3>4. QED
        BY <3>1, <3>2, <3>3
    <2>7. Probe!RunningIsMapped'
      BY <2>6 DEF Probe!RunningIsMapped, Runs
    <2>8. ASSUME NEW i \in ProbeIds
          PROVE  Probe!Configured(i)' = IF i \in DOMAIN set THEN set[i] ELSE NoSpec
      <3>1. CASE i \in Probe!Fresh(set)
        <4>1. Probe!Spawned(set[i]).spec = set[i]
          BY DEF Probe!Spawned
        <4>2. probes'[i][tasks'[i]] = Probe!Spawned(set[i]) /\ tasks'[i] # 0 /\ i \in DOMAIN set
          BY <1>2, <2>5, <3>1
        <4>3. QED
          BY <4>1, <4>2 DEF Probe!Configured
      <3>2. CASE i \notin Probe!Fresh(set) /\ i \in DOMAIN set
        BY <2>5, <3>2 DEF Probe!Configured
      <3>3. CASE i \notin DOMAIN set
        BY <2>5, <3>3 DEF Probe!Configured
      <3>4. QED
        BY <3>1, <3>2, <3>3
    <2>9. ~overlapped => n = Len(received) /\ pending' \subseteq {Len(received)}
      BY <1>1, <2>1 DEF ProbeMap
    <2>10. Probe!LastSetRuns'
      BY <2>1, <2>3, <2>8, <2>9 DEF Probe!LastSetRuns
    <2>11. ASSUME NEW i \in ProbeIds PROVE ToldOn(i)'
      <3>1. CASE i \in Probe!Fresh(set)
        <4>1. probes'[i][tasks'[i]].last = Probe!NoState
          <5>1. Probe!Spawned(set[i]).last = Probe!NoState
            BY DEF Probe!Spawned
          <5>2. probes'[i][tasks'[i]] = Probe!Spawned(set[i])
            BY <2>5, <3>1
          <5>3. QED
            BY <5>1, <5>2
        <4>2. QED
          BY <1>7, <2>1, <4>1
      <3>2. CASE i \notin Probe!Fresh(set)
        BY <1>7, <2>1, <2>5, <3>2
      <3>3. QED
        BY <3>1, <3>2
    <2>12. ProbeMap'
      BY <2>1, <2>7, <2>9, <2>10 DEF ProbeMap
    <2>13. QED
      BY <1>6, <1>10, <2>11, <2>12
  <1>11. ASSUME running = "probe", NEW i \in ProbeIds, NEW k \in DOMAIN probes[i],
                Probe!Sample(i, k)
         PROVE  ProbeInv'
    <2> DEFINE t == [probes[i][k] EXCEPT !.at = "sampled", !.sample = health[i]]
    <2>1. /\ probes[i][k].at = "sleeping"
          /\ probes' = [probes EXCEPT ![i][k] = t]
          /\ UNCHANGED <<received, pending, overlapped, tasks, late, outgoing>>
      <3>1. /\ probes[i][k].at = "sleeping"
            /\ probes' = [probes EXCEPT ![i][k].at = "sampled", ![i][k].sample = health[i]]
            /\ UNCHANGED <<received, pending, overlapped, tasks, late, outgoing>>
        BY <1>11 DEF Probe!Sample, Probe!outgoing, outgoing
      <3>2. probes[i][k] \in Tasks /\ k \in 1 .. Len(probes[i])
        BY <1>2, <1>3
      <3>3. QED
        BY <1>2, <3>1, <3>2 DEF Probe!ProbeTask
    <2>2. /\ t.spec = probes[i][k].spec /\ t.last = probes[i][k].last
          /\ Runs(t) <=> Runs(probes[i][k])
      <3>1. probes[i][k] \in Tasks
        BY <1>2, <1>3
      <3>2. QED
        BY <2>1, <3>1 DEF Probe!ProbeTask, Runs
    <2> HIDE DEF t
    <2>3. /\ ProbeMap'
          /\ \A j \in ProbeIds : \A m \in DOMAIN probes[j] :
                probes'[j][m] = IF j = i /\ m = k THEN t ELSE probes[j][m]
      <3>1. ProbeTypes /\ ProbeMap
        BY <1>1
      <3>2. Becomes(i, k, t)
        BY <2>1, <2>2 DEF Becomes
      <3>3. QED
        BY <3>1, <3>2, ProbeSet
    <2>4. ASSUME NEW j \in ProbeIds PROVE ToldOn(j)'
      <3>1. tasks[j] # 0 => probes'[j][tasks[j]].last = probes[j][tasks[j]].last
        <4>1. tasks[j] # 0 => tasks[j] \in DOMAIN probes[j]
          BY <1>2
        <4>2. QED
          BY <2>2, <2>3, <4>1
      <3>2. QED
        BY <1>7, <2>1, <3>1
    <2>5. QED
      BY <1>6, <1>11, <2>3, <2>4
  <1>12. ASSUME running = "probe", NEW i \in ProbeIds, NEW k \in DOMAIN probes[i],
                Probe!Report(i, k)
         PROVE  ProbeInv'
    <2> DEFINE t == Probe!Remember(probes[i][k])
               m == [type |-> "report", id |-> i, state |-> probes[i][k].sample]
    <2>1. /\ probes[i][k].at \in {"sampled", "aborted"}
          /\ probes' = [probes EXCEPT ![i][k] = t]
          /\ \/ /\ Send(m)
                /\ late' = IF probes[i][k].at = "aborted" THEN late \cup {i} ELSE late
             \/ /\ probes[i][k].last = probes[i][k].sample
                /\ UNCHANGED <<late, outgoing>>
          /\ UNCHANGED <<received, pending, overlapped, tasks>>
      BY <1>2, <1>12, SendsAreOne DEF Probe!Report, Probe!Flipped, Probe!outgoing, outgoing
    <2>2. probes[i][k] \in Tasks /\ probes[i][k].sample \in Probe!States
      BY <1>1, <1>2, <1>3, <2>1 DEF ProbeTypes
    <2>3. /\ t.spec = probes[i][k].spec /\ t.last = probes[i][k].sample
          /\ Runs(t) <=> Runs(probes[i][k])
      BY <2>1, <2>2 DEF Probe!Remember, Probe!ProbeTask, Runs
    <2>4. m \in Own /\ m \in Reports(i) /\ m.state = t.last
          /\ \A j \in ProbeIds \ {i} : m \notin Reports(j)
      BY <2>2, <2>3 DEF Messages, Own, Reports
    <2> HIDE DEF t, m
    <2>5. /\ ProbeMap'
          /\ \A j \in ProbeIds : \A q \in DOMAIN probes[j] :
                probes'[j][q] = IF j = i /\ q = k THEN t ELSE probes[j][q]
      <3>1. ProbeTypes /\ ProbeMap
        BY <1>1
      <3>2. Becomes(i, k, t)
        BY <2>1, <2>3 DEF Becomes
      <3>3. QED
        BY <3>1, <3>2, ProbeSet
    <2>6. CASE probes[i][k].last = probes[i][k].sample /\ UNCHANGED <<late, outgoing>>
      <3>1. ASSUME NEW j \in ProbeIds PROVE ToldOn(j)'
        <4>1. tasks[j] # 0 => probes'[j][tasks[j]].last = probes[j][tasks[j]].last
          BY <1>2, <2>3, <2>5, <2>6
        <4>2. QED
          BY <1>7, <2>1, <2>6, <4>1
      <3>2. QED
        BY <1>6, <1>12, <2>5, <3>1
    <2>7. CASE /\ Send(m)
               /\ late' = IF probes[i][k].at = "aborted" THEN late \cup {i} ELSE late
      <3>1. refused' = (refused \/ ~HasRoom)
        BY <1>1, <2>4, <2>7, MessagedSend
      <3>2. ASSUME NEW j \in ProbeIds PROVE ToldOn(j)'
        <4> DEFINE r == Kept(Messaged, Reports(j))
        <4>1. /\ Kept(Messaged', Reports(j)) = IF HasRoom /\ m \in Reports(j) THEN Append(r, m) ELSE r
              /\ r \in Seq(Messages)
          BY <1>1, <2>4, <2>7, KeptSend
        <4> HIDE DEF r
        <4>2. CASE ~HasRoom
          BY <3>1, <4>2 DEF ToldOn
        <4>3. CASE HasRoom /\ j # i
          <5>1. Kept(Messaged', Reports(j)) = Kept(Messaged, Reports(j))
            BY <2>4, <4>1, <4>3 DEF r
          <5>2. tasks[j] # 0 => probes'[j][tasks[j]] = probes[j][tasks[j]]
            BY <1>2, <2>5, <4>3
          <5>3. ToldOn(j) /\ (j \notin late' => j \notin late) /\ tasks' = tasks
            BY <2>1, <2>7 DEF ProbeInv
          <5>4. QED
            BY <3>1, <4>3, <5>1, <5>2, <5>3 DEF ToldOn
        <4>4. CASE HasRoom /\ j = i
          <5>1. CASE probes[i][k].at = "aborted"
            <6>1. i \in late'
              BY <2>7, <5>1
            <6>2. QED
              BY <4>4, <6>1 DEF ToldOn
          <5>2. CASE probes[i][k].at = "sampled"
            <6>1. k = tasks[i]
              BY <1>2, <1>4, <5>2 DEF Runs
            <6>2. probes'[i][tasks'[i]].last = m.state
              BY <2>1, <2>4, <2>5, <6>1
            <6>3. Kept(Messaged', Reports(i)) = Append(r, m) /\ m \in Messages
              BY <2>4, <4>1, <4>4 DEF Own
            <6>4. LastOf(Append(r, m)) = m.state
              BY <4>1, <6>3, AppendProperties DEF LastOf
            <6>5. QED
              BY <4>4, <6>2, <6>3, <6>4 DEF ToldOn
          <5>3. QED
            BY <2>1, <5>1, <5>2
        <4>5. QED
          BY <4>2, <4>3, <4>4
      <3>3. QED
        BY <1>6, <1>12, <2>5, <3>2
    <2>8. QED
      BY <2>1, <2>6, <2>7
  <1>13. CASE running = "probe" /\ Probe!Next
    BY <1>8, <1>9, <1>10, <1>11, <1>12, <1>13 DEF Probe!Next
  <1>14. QED
    BY <1>5, <1>13, Turns

-----------------------------------------------------------------------------
(* Sessions: the banner is the last word, after all that was printed.       *)

Words(k) == {m \in Messages : m.type \in {"data", "banner"} /\ m.from = k}
SaidBy(k) == Kept(Messaged, Words(k))

\* What a session has said, said, agrees with how far it has come.
Spoken(s, said, missed) ==
    /\ s.supervisor \in {"join", "done"} => s.pump = "done"
    /\ (s.pump = "done" /\ ~missed) => s.sent = s.printed /\ s.program = "ended"
    /\ ~missed => Len(said) = s.sent + (IF s.supervisor = "done" THEN 1 ELSE 0)
    /\ \A n \in 1 .. Len(said) :
          said[n].type = "banner" => n = Len(said) /\ s.supervisor = "done"

SessionInv ==
    /\ running # "session" => sessions = <<>>
    /\ running = "session" =>
          /\ \A k \in DOMAIN sessions : Spoken(sessions[k], SaidBy(k), refused)
          /\ \A k \in Len(sessions) + 1 .. MaxSessions : SaidBy(k) = <<>>

LEMMA SelectsWords ==
  ASSUME NEW q \in Seq(Messages), NEW k
  PROVE  Select(q, LAMBDA m : m.type \in {"data", "banner"} /\ m.from = k) = Kept(q, Words(k))
  <1>1. Len(q) \in Nat /\ \A n \in 1 .. Len(q) : q[n] \in Messages
    BY LenProperties, ElementOfSeq
  <1>2. [n \in 1 .. Len(q) |->
            IF q[n].type \in {"data", "banner"} /\ q[n].from = k THEN <<q[n]>> ELSE <<>>]
           = Ones(q, Words(k))
    <2> HIDE DEF Messages
    <2>1. QED
      BY <1>1 DEF Ones, One, Words
  <1>3. QED
    BY <1>2 DEF Select, Kept

LEMMA BannerTold == QueueTypes /\ SessionInv => BannerIsLast
  <1> SUFFICES ASSUME QueueTypes, SessionInv PROVE Session!BannerIsLast
    BY DEF BannerIsLast
  <1>1. Session!Messaged = Messaged
    BY DEF Session!Messaged, Messaged, Session!Select, Select, Session!Flatten, Flatten
  <1>2. ASSUME NEW k \in DOMAIN sessions
        PROVE  Session!Said(k) = SaidBy(k)
    <2>1. Session!Said(k) = Select(Messaged, LAMBDA m : m.type \in {"data", "banner"} /\ m.from = k)
      BY <1>1 DEF Session!Said, Session!Select, Select, Session!Flatten, Flatten
    <2>2. Messaged \in Seq(Messages)
      BY MessagedTyped
    <2> HIDE DEF Messaged
    <2>3. QED
      BY <2>1, <2>2, SelectsWords DEF Select, SaidBy
  <1>3. ASSUME NEW k \in DOMAIN sessions PROVE Spoken(sessions[k], SaidBy(k), refused)
    BY <1>3, EmptySeq DEF SessionInv
  <1>4. ASSUME NEW k \in DOMAIN sessions, NEW n \in 1 .. Len(Session!Said(k)),
               Session!Said(k)[n].type = "banner"
        PROVE  /\ n = Len(Session!Said(k))
               /\ ~refused => n = sessions[k].printed + 1
               /\ sessions[k].supervisor = "done" /\ sessions[k].pump = "done"
    <2>1. Session!Said(k) = SaidBy(k)
      BY <1>2
    <2>2. Spoken(sessions[k], SaidBy(k), refused)
      BY <1>3
    <2>3. QED
      BY <1>4, <2>1, <2>2 DEF Spoken
  <1>5. QED
    BY <1>4 DEF Session!BannerIsLast

\* A step that does not speak, and winds a session up at most.
Calm(s, t) ==
    /\ t.sent = s.sent /\ t.printed = s.printed /\ t.pump = s.pump
    /\ s.program = "ended" => t.program = "ended"
    /\ t.supervisor = s.supervisor \/ (s.supervisor # "done" /\ t.supervisor = "aborted")

LEMMA SpokenCalm ==
  ASSUME NEW s, NEW t, NEW said, NEW missed, Spoken(s, said, missed), Calm(s, t)
  PROVE  Spoken(t, said, missed)
  BY DEF Spoken, Calm

\* A step that says m: a piece of output, or the banner.
Says(s, t, m, room) ==
    \/ /\ m.type # "banner" /\ s.pump = "reading" /\ t.sent = s.sent + 1
       /\ t.printed = s.printed /\ t.supervisor = s.supervisor
       /\ room => t.pump = s.pump
    \/ /\ s.supervisor = "join" /\ t.supervisor = "done"
       /\ t.sent = s.sent /\ t.printed = s.printed /\ t.pump = s.pump
       /\ t.program = s.program

LEMMA SpokenMore ==
  ASSUME NEW s, NEW t, NEW said \in Seq(Messages), NEW missed \in BOOLEAN, Spoken(s, said, missed),
         NEW m \in Messages, NEW room \in BOOLEAN,
         s.sent \in Nat, s.printed \in Nat, Says(s, t, m, room)
  PROVE  Spoken(t, IF room THEN Append(said, m) ELSE said, missed \/ ~room)
  <1> USE DEF Says
  <1>1. s.supervisor # "done" /\ \A n \in 1 .. Len(said) : said[n].type # "banner"
    BY DEF Spoken
  <1>2. Len(said) \in Nat /\ Len(Append(said, m)) = Len(said) + 1
        /\ Append(said, m)[Len(said) + 1] = m
        /\ \A n \in 1 .. Len(said) : Append(said, m)[n] = said[n]
    BY AppendProperties, LenProperties
  <1>3. CASE ~room
    BY <1>1, <1>3 DEF Spoken
  <1>4. CASE room
    <2>1. \A n \in 1 .. Len(said) + 1 : n \in 1 .. Len(said) \/ n = Len(said) + 1
      BY <1>2
    <2>2. \A n \in 1 .. Len(said) + 1 :
             Append(said, m)[n].type = "banner" =>
                n = Len(said) + 1 /\ m.type = "banner"
      BY <1>1, <1>2, <2>1
    <2>3. Spoken(t, Append(said, m), missed)
      BY <1>1, <1>2, <1>4, <2>2 DEF Spoken
    <2>4. (missed \/ ~room) = missed
      BY <1>4
    <2>5. QED
      BY <1>4, <2>3, <2>4
  <1>5. QED
    BY <1>3, <1>4

LEMMA SessionStep == TypesInv /\ SessionInv /\ [Next]_vars => SessionInv'
  <1> SUFFICES ASSUME TypesInv, SessionInv, [Next]_vars
               PROVE  SessionInv'
    OBVIOUS
  <1> DEFINE All == Session!Session
  <1>1. /\ QueueTypes /\ Session!TypeOK /\ Messaged \in Seq(Messages) /\ refused \in BOOLEAN
        /\ HasRoom \in BOOLEAN
    BY MessagedTyped DEF TypesInv, QueueTypes, HasRoom
  <1>2. /\ MaxSessions \in Nat /\ sessions \in Seq(All) /\ Len(sessions) \in Nat
        /\ Len(sessions) <= MaxSessions
        /\ mapped \in [Session!Kinds -> 0 .. Len(sessions)]
        /\ DOMAIN sessions = 1 .. Len(sessions)
    BY <1>1, RequestsAssumption, LenProperties DEF Session!TypeOK, Session!SessionsAssumption
  <1>3. \A k \in 1 .. Len(sessions) : sessions[k] \in All
    BY <1>2, ElementOfSeq
  <1>4. \A k : SaidBy(k) \in Seq(Messages)
    BY <1>1, KeptTyped DEF SaidBy
  <1>5. CASE UNCHANGED sessionTask /\ (Resting \/ running # "session")
    <2>1. running' = running
      BY Turns
    <2>2. CASE running # "session"
      BY <1>5, <2>1, <2>2 DEF SessionInv, sessionTask
    <2>3. CASE Resting
      <3>1. Messaged' = Messaged /\ refused' = refused /\ sessions' = sessions
        BY <1>5, <2>3 DEF Resting, sessionTask
      <3>2. QED
        BY <2>1, <3>1 DEF SessionInv, SaidBy
    <2>4. QED
      BY <1>5, <2>2, <2>3
  <1>6. CASE running = "session" /\ Session!Next
    <2>0. running = "session" /\ running' = "session"
      BY <1>6, Turns
    <2>1. \A k \in 1 .. Len(sessions) : Spoken(sessions[k], SaidBy(k), refused)
      BY <1>2, <2>0 DEF SessionInv
    <2>2. \A k \in Len(sessions) + 1 .. MaxSessions : SaidBy(k) = <<>>
      BY <2>0 DEF SessionInv
    <2>3. \A s \in All : Calm(s, s) /\ Calm(s, Session!Dropped(s))
      BY DEF Calm, Session!Dropped, Session!Session
    <2>4. ASSUME UNCHANGED outgoing \/ Send(Other),
                 DOMAIN sessions' = 1 .. Len(sessions), Len(sessions') = Len(sessions),
                 \A k \in 1 .. Len(sessions) : Spoken(sessions'[k], SaidBy(k), refused)
          PROVE  SessionInv'
      <3>1. Messaged' = Messaged
        BY <1>1, <2>4, MessagedRests
      <3>2. CASE refused' = refused
        BY <2>0, <2>2, <2>4, <3>1, <3>2 DEF SessionInv, SaidBy
      <3>3. CASE refused' = TRUE
        <4>1. \A k \in 1 .. Len(sessions) : Spoken(sessions'[k], SaidBy(k), TRUE)
          BY <2>4 DEF Spoken
        <4>2. QED
          BY <2>0, <2>2, <2>4, <3>1, <3>3, <4>1 DEF SessionInv, SaidBy
      <3>4. refused' = refused \/ refused' = TRUE
        BY <1>1, <2>4 DEF Send, outgoing
      <3>5. QED
        BY <3>2, <3>3, <3>4
    <2>5. ASSUME UNCHANGED outgoing \/ Send(Other),
                 DOMAIN sessions' = 1 .. Len(sessions), Len(sessions') = Len(sessions),
                 \A k \in 1 .. Len(sessions) : Calm(sessions[k], sessions'[k])
          PROVE  SessionInv'
      <3>1. \A k \in 1 .. Len(sessions) : Spoken(sessions'[k], SaidBy(k), refused)
        BY <2>1, <2>5, SpokenCalm
      <3>2. QED
        BY <2>4, <2>5, <3>1
    <2>6. ASSUME NEW kind \in Session!Kinds
          PROVE  /\ Session!DropMapped(kind) \in Seq(All)
                 /\ Len(Session!DropMapped(kind)) = Len(sessions)
                 /\ DOMAIN Session!DropMapped(kind) = 1 .. Len(sessions)
                 /\ \A k \in 1 .. Len(sessions) : Calm(sessions[k], Session!DropMapped(kind)[k])
      <3>1. CASE mapped[kind] = 0
        BY <1>2, <1>3, <2>3, <3>1 DEF Session!DropMapped
      <3>2. CASE mapped[kind] # 0
        <4> DEFINE m == mapped[kind]
                   d == Session!Dropped(sessions[m])
        <4>1. m \in 1 .. Len(sessions) /\ sessions[m] \in All
          BY <1>2, <1>3, <3>2
        <4>2. d \in All /\ Calm(sessions[m], d)
          BY <2>3, <4>1 DEF Session!Dropped, Session!Session
        <4>3. Session!DropMapped(kind) = [sessions EXCEPT ![m] = d]
          BY <3>2 DEF Session!DropMapped
        <4> HIDE DEF d, m
        <4>4. /\ Session!DropMapped(kind) \in Seq(All)
              /\ Len(Session!DropMapped(kind)) = Len(sessions)
          BY <1>2, <4>1, <4>2, <4>3, ExceptSeq
        <4>5. \A k \in 1 .. Len(sessions) :
                 Session!DropMapped(kind)[k] = IF k = m THEN d ELSE sessions[k]
          BY <1>2, <4>3
        <4>6. QED
          BY <1>3, <2>3, <4>2, <4>4, <4>5, LenProperties
      <3>3. QED
        BY <3>1, <3>2
    <2>7. ASSUME UNCHANGED outgoing \/ Send(Other), Len(sessions) < MaxSessions,
                 NEW old \in Seq(All), Len(old) = Len(sessions),
                 \A k \in 1 .. Len(sessions) : Calm(sessions[k], old[k]),
                 NEW kind \in Session!Kinds,
                 sessions' = Append(old, Session!Opened(kind))
          PROVE  SessionInv'
      <3> DEFINE new == Session!Opened(kind)
      <3>1. new \in All /\ Spoken(new, <<>>, FALSE) /\ Spoken(new, <<>>, TRUE)
        <4>1. 0 \in 0 .. MaxPrinted
          BY RequestsAssumption DEF Session!SessionsAssumption
        <4>2. QED
          BY <4>1 DEF Session!Opened, Session!Session, Spoken
      <3> HIDE DEF new
      <3>2. /\ sessions' \in Seq(All) /\ Len(sessions') = Len(sessions) + 1
            /\ \A k \in 1 .. Len(sessions) : sessions'[k] = old[k]
            /\ sessions'[Len(sessions) + 1] = new
        BY <2>7, <3>1, AppendProperties DEF new
      <3>3. DOMAIN sessions' = 1 .. Len(sessions) + 1
        BY <3>2, LenProperties
      <3>4. \A k \in 1 .. Len(sessions) : Spoken(sessions'[k], SaidBy(k), refused)
        BY <2>1, <2>7, <3>2, SpokenCalm
      <3>5. SaidBy(Len(sessions) + 1) = <<>>
        BY <1>2, <2>2, <2>7
      <3>6. Spoken(sessions'[Len(sessions) + 1], SaidBy(Len(sessions) + 1), refused)
        BY <1>1, <3>1, <3>2, <3>5
      <3>7. \A k \in DOMAIN sessions' : Spoken(sessions'[k], SaidBy(k), refused)
        <4>1. \A k \in DOMAIN sessions' : k \in 1 .. Len(sessions) \/ k = Len(sessions) + 1
          BY <1>2, <3>3
        <4>2. QED
          BY <3>4, <3>6, <4>1
      <3>8. \A k \in Len(sessions') + 1 .. MaxSessions : SaidBy(k) = <<>>
        BY <1>2, <2>2, <3>2
      <3>9. Messaged' = Messaged
        BY <1>1, <2>7, MessagedRests
      <3>10. CASE refused' = refused
        BY <2>0, <3>7, <3>8, <3>9, <3>10 DEF SessionInv, SaidBy
      <3>11. CASE refused' = TRUE
        <4>1. \A k \in DOMAIN sessions' : Spoken(sessions'[k], SaidBy(k), TRUE)
          BY <3>7 DEF Spoken
        <4>2. QED
          BY <2>0, <3>8, <3>9, <3>11, <4>1 DEF SessionInv, SaidBy
      <3>12. refused' = refused \/ refused' = TRUE
        BY <1>1, <2>7 DEF Send, outgoing
      <3>13. QED
        BY <3>10, <3>11, <3>12
    <2>8. CASE Session!StartTerminal
      <3>1. /\ Len(sessions) < MaxSessions
            /\ sessions' = Append(sessions, Session!Opened("terminal"))
            /\ UNCHANGED outgoing
        BY <2>8 DEF Session!StartTerminal, Session!outgoing, outgoing
      <3>2. "terminal" \in Session!Kinds
        BY DEF Session!Kinds
      <3>3. \A k \in 1 .. Len(sessions) : Calm(sessions[k], sessions[k])
        BY <1>3, <2>3
      <3>4. QED
        BY <1>2, <2>7, <3>1, <3>2, <3>3
    <2>9. ASSUME NEW kind \in {"container", "pod"}, NEW ok \in BOOLEAN,
                 Session!StartExec(kind, ok)
          PROVE  SessionInv'
      <3>1. kind \in Session!Kinds
        BY DEF Session!Kinds
      <3>2. Len(sessions) < MaxSessions /\ Send(Other)
        BY <2>9, SendsAreOne DEF Session!StartExec, Session!Other, Other
      <3>3. CASE ok
        <4>1. sessions' = Append(Session!DropMapped(kind), Session!Opened(kind))
          BY <2>9, <3>3 DEF Session!StartExec
        <4>2. QED
          BY <2>6, <2>7, <3>1, <3>2, <4>1
      <3>4. CASE ~ok
        <4>1. sessions' = Session!DropMapped(kind)
          BY <2>9, <3>4 DEF Session!StartExec
        <4>2. QED
          BY <2>5, <2>6, <3>1, <3>2, <4>1
      <3>5. QED
        BY <3>3, <3>4
    <2>10. ASSUME NEW kinds \in SUBSET Session!Kinds, Session!Stop(kinds)
           PROVE  SessionInv'
      <3>1. /\ sessions' = [k \in DOMAIN sessions |->
                   IF \E kind \in kinds : mapped[kind] = k THEN Session!Dropped(sessions[k])
                   ELSE sessions[k]]
            /\ UNCHANGED outgoing
        BY <2>10 DEF Session!Stop, Session!outgoing, outgoing
      <3>2. \A k \in 1 .. Len(sessions) : Calm(sessions[k], sessions'[k])
        BY <1>2, <1>3, <2>3, <3>1
      <3>3. DOMAIN sessions' = 1 .. Len(sessions) /\ Len(sessions') = Len(sessions)
        BY <1>2, <3>1
      <3>4. QED
        BY <2>5, <3>1, <3>2, <3>3
    <2>11. ASSUME NEW k \in 1 .. Len(sessions), NEW t, sessions' = [sessions EXCEPT ![k] = t]
           PROVE  /\ DOMAIN sessions' = 1 .. Len(sessions) /\ Len(sessions') = Len(sessions)
                  /\ \A j \in 1 .. Len(sessions) : sessions'[j] = IF j = k THEN t ELSE sessions[j]
      BY <1>2, <2>11
    <2>12. ASSUME NEW k \in 1 .. Len(sessions),
                  \/ Session!Prints(k) \/ Session!Occupied(k) \/ Session!Ends(k)
                  \/ Session!PumpEof(k) \/ Session!PumpJoined(k)
           PROVE  SessionInv'
      <3> DEFINE s == sessions[k]
      <3>0. s \in All /\ Spoken(s, SaidBy(k), refused) /\ UNCHANGED outgoing
        BY <1>3, <2>1, <2>12 DEF Session!Prints, Session!Occupied, Session!Ends,
               Session!PumpEof, Session!PumpJoined, Session!outgoing, outgoing
      <3>1. ASSUME NEW t, sessions' = [sessions EXCEPT ![k] = t], Spoken(t, SaidBy(k), refused)
            PROVE  SessionInv'
        <4>1. /\ DOMAIN sessions' = 1 .. Len(sessions) /\ Len(sessions') = Len(sessions)
              /\ \A j \in 1 .. Len(sessions) : sessions'[j] = IF j = k THEN t ELSE sessions[j]
          BY <2>11, <3>1
        <4>2. \A j \in 1 .. Len(sessions) : Spoken(sessions'[j], SaidBy(j), refused)
          BY <2>1, <3>1, <4>1
        <4>3. QED
          BY <2>4, <3>0, <4>1, <4>2
      <3>2. CASE Session!Prints(k)
        <4> DEFINE t == [s EXCEPT !.printed = @ + 1]
        <4>1. s.program # "ended" /\ sessions' = [sessions EXCEPT ![k] = t]
          BY <3>2 DEF Session!Prints
        <4>2. Spoken(t, SaidBy(k), refused)
          BY <3>0, <4>1 DEF Spoken, Session!Session
        <4> HIDE DEF t
        <4>3. QED
          BY <3>1, <4>1, <4>2
      <3>3. CASE Session!Occupied(k) \/ Session!Ends(k)
        <4> DEFINE to == IF Session!Ends(k) THEN "ended" ELSE "busy"
                   t == [s EXCEPT !.program = to]
        <4>1. /\ sessions' = [sessions EXCEPT ![k] = t]
              /\ to = "ended" \/ (to = "busy" /\ s.program = "running")
          BY <3>3 DEF Session!Occupied, Session!Ends, Session!Set
        <4> HIDE DEF to
        <4>2. Spoken(t, SaidBy(k), refused)
          BY <3>0, <4>1 DEF Spoken, Session!Session
        <4> HIDE DEF t
        <4>3. QED
          BY <3>1, <4>1, <4>2
      <3>4. CASE Session!PumpEof(k)
        <4> DEFINE t == [s EXCEPT !.pump = "done"]
        <4>1. /\ s.program = "ended" /\ s.sent = s.printed
              /\ sessions' = [sessions EXCEPT ![k] = t]
          BY <3>4 DEF Session!PumpEof, Session!Set
        <4>2. Spoken(t, SaidBy(k), refused)
          BY <3>0, <4>1 DEF Spoken, Session!Session
        <4> HIDE DEF t
        <4>3. QED
          BY <3>1, <4>1, <4>2
      <3>5. CASE Session!PumpJoined(k)
        <4> DEFINE t == [s EXCEPT !.supervisor = "join", !.input = "closed"]
        <4>1. /\ s.supervisor = "pump" /\ s.pump = "done"
              /\ sessions' = [sessions EXCEPT ![k] = t]
          BY <1>2, <3>0, <3>5 DEF Session!PumpJoined, Session!Session
        <4>2. Spoken(t, SaidBy(k), refused)
          BY <3>0, <4>1 DEF Spoken, Session!Session
        <4> HIDE DEF t
        <4>3. QED
          BY <3>1, <4>1, <4>2
      <3>6. QED
        BY <2>12, <3>2, <3>3, <3>4, <3>5
    <2>13. ASSUME NEW k \in 1 .. Len(sessions), NEW t, NEW m \in Own, m \in Words(k), Send(m),
                  sessions' = [sessions EXCEPT ![k] = t],
                  Says(sessions[k], t, m, HasRoom)
           PROVE  SessionInv'
      <3>1. /\ DOMAIN sessions' = 1 .. Len(sessions) /\ Len(sessions') = Len(sessions)
            /\ \A j \in 1 .. Len(sessions) : sessions'[j] = IF j = k THEN t ELSE sessions[j]
        BY <2>11, <2>13
      <3>2. refused' = (refused \/ ~HasRoom) /\ m \in Messages
        BY <1>1, <2>13, MessagedSend DEF Own
      <3>3. \A j : j # k => m \notin Words(j)
        BY <2>13 DEF Words
      <3>4. \A j : Kept(Messaged', Words(j)) = IF HasRoom /\ m \in Words(j)
                                              THEN Append(SaidBy(j), m) ELSE SaidBy(j)
        BY <1>1, <2>13, KeptSend DEF SaidBy
      <3>5. sessions[k].sent \in Nat /\ sessions[k].printed \in Nat
        BY <1>3 DEF Session!Session
      <3>6. Spoken(t, IF HasRoom THEN Append(SaidBy(k), m) ELSE SaidBy(k), refused \/ ~HasRoom)
        <4>1. SaidBy(k) \in Seq(Messages) /\ Spoken(sessions[k], SaidBy(k), refused)
          BY <1>4, <2>1
        <4>2. QED
          BY <1>1, <2>13, <3>2, <3>5, <4>1, SpokenMore
      <3>7. \A j \in 1 .. Len(sessions) : Spoken(sessions'[j], Kept(Messaged', Words(j)), refused')
        <4>1. ASSUME NEW j \in 1 .. Len(sessions)
              PROVE  Spoken(sessions'[j], Kept(Messaged', Words(j)), refused')
          <5>1. CASE j = k
            <6>1. sessions'[j] = t
              BY <3>1, <5>1
            <6>2. Kept(Messaged', Words(j)) = IF HasRoom THEN Append(SaidBy(k), m) ELSE SaidBy(k)
              BY <2>13, <3>4, <5>1
            <6>3. QED
              BY <3>2, <3>6, <6>1, <6>2
          <5>2. CASE j # k
            <6>1. Kept(Messaged', Words(j)) = SaidBy(j) /\ sessions'[j] = sessions[j]
              BY <3>1, <3>3, <3>4, <5>2
            <6>2. Spoken(sessions[j], SaidBy(j), refused)
              BY <2>1
            <6>3. Spoken(sessions[j], SaidBy(j), refused \/ ~HasRoom)
              BY <1>1, <6>2 DEF Spoken
            <6>4. QED
              BY <3>2, <6>1, <6>3
          <5>3. QED
            BY <5>1, <5>2
        <4>2. QED
          BY <4>1
      <3>8. \A j \in Len(sessions) + 1 .. MaxSessions : Kept(Messaged', Words(j)) = <<>>
        <4>1. \A j \in Len(sessions) + 1 .. MaxSessions : j # k
          BY <1>2
        <4>2. QED
          BY <2>2, <3>3, <3>4, <4>1
      <3>9. QED
        BY <2>0, <3>1, <3>7, <3>8 DEF SessionInv, SaidBy
    <2>14. ASSUME NEW k \in 1 .. Len(sessions), Session!PumpData(k)
           PROVE  SessionInv'
      <3> DEFINE s == sessions[k]
                 t == [s EXCEPT !.sent = @ + 1,
                          !.pump = IF s.kind = "pod" /\ ~HasRoom THEN "done" ELSE @]
                 m == Session!Data(k, s.sent + 1)
      <3>1. s \in All /\ k \in 1 .. MaxSessions
        BY <1>2, <1>3
      <3>2. /\ s.pump = "reading" /\ s.sent < s.printed /\ Send(m)
            /\ sessions' = [sessions EXCEPT ![k].sent = @ + 1,
                  ![k].pump = IF s.kind = "pod" /\ ~HasRoom THEN "done" ELSE @]
        BY <2>14, SendsAreOne DEF Session!PumpData, Session!HasRoom, HasRoom
      <3>3. sessions' = [sessions EXCEPT ![k] = t]
        BY <1>2, <3>1, <3>2 DEF Session!Session
      <3>4. /\ t.sent = s.sent + 1 /\ t.printed = s.printed /\ t.supervisor = s.supervisor
            /\ HasRoom => t.pump = s.pump
        BY <3>1 DEF Session!Session
      <3>5. m \in Own /\ m \in Words(k) /\ m.type # "banner"
        <4>1. s.sent \in 0 .. MaxPrinted /\ s.printed \in 0 .. MaxPrinted
          BY <3>1 DEF Session!Session
        <4>2. s.sent + 1 \in 1 .. MaxPrinted
          BY <3>2, <4>1, RequestsAssumption DEF Session!SessionsAssumption
        <4>3. m \in Messages /\ m.type = "data" /\ m.from = k
          <5>1. m \in [type : {"data"}, from : 1 .. MaxSessions, n : 1 .. MaxPrinted]
            BY <3>1, <4>2 DEF Session!Data
          <5>2. m.type = "data" /\ m.from = k
            BY DEF Session!Data
          <5> HIDE DEF m
          <5>3. QED
            BY <5>1, <5>2 DEF Messages
        <4> HIDE DEF m
        <4>4. QED
          BY <4>3 DEF Own, Words
      <3>6. Says(s, t, m, HasRoom)
        BY <3>2, <3>4, <3>5 DEF Says
      <3> HIDE DEF t, m
      <3>7. QED
        BY <2>13, <3>2, <3>3, <3>5, <3>6
    <2>15. ASSUME NEW k \in 1 .. Len(sessions), Session!SendBanner(k)
           PROVE  SessionInv'
      <3> DEFINE s == sessions[k]
                 t == [s EXCEPT !.supervisor = "done"]
                 m == Session!Banner(k)
      <3>1. s \in All /\ k \in 1 .. MaxSessions
        BY <1>2, <1>3
      <3>2. /\ s.supervisor = "join" /\ Send(m) /\ sessions' = [sessions EXCEPT ![k] = t]
        BY <2>15, SendsAreOne DEF Session!SendBanner, Session!Set
      <3>3. /\ t.sent = s.sent /\ t.printed = s.printed /\ t.supervisor = "done"
            /\ t.pump = s.pump /\ t.program = s.program
        BY <3>1 DEF Session!Session
      <3>4. m \in Own /\ m \in Words(k)
        BY <3>1 DEF Own, Words, Messages, Session!Banner
      <3>5. Says(s, t, m, HasRoom)
        BY <3>2, <3>3 DEF Says
      <3> HIDE DEF t, m
      <3>6. QED
        BY <2>13, <3>2, <3>4, <3>5
    <2>16. /\ {"terminal", "pod"} \in SUBSET Session!Kinds
           /\ {"container"} \in SUBSET Session!Kinds
      BY DEF Session!Kinds
    <2>17. QED
      BY <1>2, <1>6, <2>8, <2>9, <2>10, <2>12, <2>14, <2>15, <2>16
         DEF Session!Next, Session!StopTerminal, Session!StopContainer, Session!Pump,
             Session!Supervise
  <1>7. QED
    BY <1>5, <1>6, Turns

-----------------------------------------------------------------------------
(* Voices: a message of a log stream comes from the stream followed.         *)

Voice(kind) ==
    {m \in Messages : /\ m.type = "chunk" => kind = "journal"
                      /\ m.type = "logs" => kind = "pod"
                      /\ m.type = "end" => kind \in {"journal", "pod"}
                      /\ m.type = "failed" => kind = "pod"}

\* A step sends one message of the set at most, Other apart.
Speaks(set) == UNCHANGED outgoing \/ Send(Other) \/ \E m \in set : Send(m)

Talk == {m \in Own : m.type \notin {"chunk", "logs", "end", "failed"}}

VoiceInv == Messaged \in Seq(Voice(running))

LEMMA TasksTalk ==
  ASSUME TypesInv
  PROVE  /\ Exec!Next => Speaks(Talk)
         /\ Probe!Next => Speaks(Talk)
         /\ Backup!Next => Speaks(Talk)
         /\ Restoring!Next => Speaks(Talk)
         /\ Apply!Next => Speaks(Talk)
         /\ Session!Next => Speaks(Talk)
         /\ Prune!Next => Speaks(Talk)
         /\ Announce!Next => Speaks(Talk)
  <1>0. /\ [type |-> "result"] \in Talk /\ [type |-> "restore"] \in Talk
        /\ [type |-> "applied"] \in Talk /\ [type |-> "preview"] \in Talk
        /\ [type |-> "pruned"] \in Talk
    BY DEF Messages, Own, Talk
  <1>1. ASSUME Exec!Next PROVE Speaks(Talk)
    <2>1. CASE Exec!Answer
      BY <1>0, <2>1, SendsAreOne DEF Exec!Answer, Speaks
    <2>2. CASE ~Exec!Answer
      BY <1>1, <2>2
         DEF Speaks, Exec!Next, Exec!Write, Exec!Read, Exec!ReaderStops, Exec!Leave, Exec!Exit,
             Exec!Refuse, Exec!Start, Exec!Exited, Exec!TimesOut, Exec!LimitReached,
             Exec!JoinBoth, Exec!GraceOver, Exec!io, Exec!outgoing, outgoing
    <2>3. QED
      BY <2>1, <2>2
  <1>2. ASSUME Probe!Next PROVE Speaks(Talk)
    <2>1. ASSUME NEW i \in ProbeIds, NEW k \in DOMAIN probes[i], Probe!Report(i, k)
          PROVE  Speaks(Talk)
      <3> DEFINE m == [type |-> "report", id |-> i, state |-> probes[i][k].sample]
      <3>1. probes[i][k].at \in {"sampled", "aborted"} /\ (Send(m) \/ UNCHANGED outgoing)
        BY <2>1, SendsAreOne DEF Probe!Report, Probe!outgoing, outgoing
      <3>2. probes[i][k].sample \in Probe!States
        BY <3>1 DEF TypesInv, ProbeTypes
      <3>3. m \in Talk
        BY <3>2 DEF Messages, Own, Talk
      <3> HIDE DEF m
      <3>4. QED
        BY <3>1, <3>3 DEF Speaks
    <2>2. ASSUME \A i \in ProbeIds : \A k \in DOMAIN probes[i] : ~Probe!Report(i, k)
          PROVE  UNCHANGED outgoing
      BY <1>2, <2>2 DEF Probe!Next, Probe!Request, Probe!Sync, Probe!Flip, Probe!Sample,
                        Probe!outgoing, outgoing
    <2>3. QED
      BY <2>1, <2>2 DEF Speaks
  <1>3. ASSUME Backup!Next PROVE Speaks(Talk)
    <2>1. ASSUME NEW b \in Backups, Backup!Response(b)
          PROVE  Speaks(Talk)
      <3>1. [type |-> "backup", by |-> b] \in Talk
        BY DEF Messages, Own, Talk
      <3>2. QED
        BY <2>1, <3>1, SendsAreOne DEF Backup!Response, Speaks
    <2>2. ASSUME \A b \in Backups : ~Backup!Response(b)
          PROVE  UNCHANGED outgoing
      BY <1>3, <2>2 DEF Backup!Next, Backup!Step, Backup!Passes, Backup!Request,
         Backup!CheckFails, Backup!StartTar, Backup!UploadPart, Backup!PartsEnd,
         Backup!TarExits, Backup!AbortUpload, Backup!Put, Backup!Create, Backup!Complete,
         Backup!outgoing, outgoing
    <2>3. QED
      BY <2>1, <2>2 DEF Speaks
  <1>4. ASSUME Restoring!Next PROVE Speaks(Talk)
    <2>1. CASE Restoring!Respond
      BY <1>0, <2>1, SendsAreOne DEF Restoring!Respond, Speaks
    <2>2. CASE ~Restoring!Respond
      BY <1>4, <2>2 DEF Speaks, Restoring!Next, Restoring!Request, Restoring!CheckFails,
         Restoring!RestoreLocal, Restoring!StartTar, Restoring!Extract, Restoring!Warn,
         Restoring!TarExits, Restoring!Fetch, Restoring!BodyEnds, Restoring!WriteChunk,
         Restoring!CloseStdin, Restoring!TarReaped, Restoring!Stop, Restoring!outgoing,
         outgoing
    <2>3. QED
      BY <2>1, <2>2
  <1>5. ASSUME Apply!Next PROVE Speaks(Talk)
    <2>1. CASE Apply!Respond
      BY <1>0, <2>1, SendsAreOne DEF Apply!Respond, Speaks
    <2>2. CASE ~Apply!Respond
      BY <1>5, <2>2 DEF Speaks, Apply!Next, Apply!Request, Apply!Open, Apply!Skip,
         Apply!Reject, Apply!Patch, Apply!AllApplied, Apply!Fail, Apply!outgoing, outgoing
    <2>3. QED
      BY <2>1, <2>2
  <1>6. ASSUME Session!Next PROVE Speaks(Talk)
    <2>1. /\ sessions \in Seq(Session!Session) /\ Len(sessions) \in Nat
          /\ MaxSessions \in Nat /\ MaxPrinted \in Nat
          /\ Len(sessions) <= MaxSessions /\ DOMAIN sessions = 1 .. Len(sessions)
      BY RequestsAssumption, LenProperties
         DEF TypesInv, Session!TypeOK, Session!SessionsAssumption
    <2>2. ASSUME NEW k \in DOMAIN sessions, Session!PumpData(k)
          PROVE  Speaks(Talk)
      <3> DEFINE s == sessions[k]
                 m == Session!Data(k, s.sent + 1)
      <3>1. s.sent < s.printed /\ Send(m)
        BY <2>2, SendsAreOne DEF Session!PumpData
      <3>2. s \in Session!Session /\ k \in 1 .. MaxSessions
        BY <2>1, ElementOfSeq
      <3>3. s.sent + 1 \in 1 .. MaxPrinted
        <4>1. s.sent \in 0 .. MaxPrinted /\ s.printed \in 0 .. MaxPrinted
          BY <3>2 DEF Session!Session
        <4>2. QED
          BY <2>1, <3>1, <4>1
      <3>4. m \in [type : {"data"}, from : 1 .. MaxSessions, n : 1 .. MaxPrinted]
            /\ m.type = "data"
        BY <3>2, <3>3 DEF Session!Data
      <3> HIDE DEF m
      <3>5. m \in Talk
        BY <3>4 DEF Messages, Own, Talk
      <3>6. QED
        BY <3>1, <3>5 DEF Speaks
    <2>3. ASSUME NEW k \in DOMAIN sessions, Session!SendBanner(k)
          PROVE  Speaks(Talk)
      <3>1. Session!Banner(k) \in Talk
        BY <2>1 DEF Session!Banner, Messages, Own, Talk
      <3>2. QED
        BY <2>3, <3>1, SendsAreOne DEF Session!SendBanner, Speaks
    <2>4. ASSUME NEW kind, NEW ok, Session!StartExec(kind, ok)
          PROVE  Speaks(Talk)
      BY <2>4, SendsAreOne DEF Session!StartExec, Session!Other, Other, Speaks
    <2>5. ASSUME \A k \in DOMAIN sessions : ~Session!PumpData(k) /\ ~Session!SendBanner(k),
                 \A kind \in {"container", "pod"}, ok \in BOOLEAN : ~Session!StartExec(kind, ok)
          PROVE  UNCHANGED outgoing
      BY <1>6, <2>5 DEF Session!Next, Session!StartTerminal, Session!StopTerminal,
         Session!StopContainer, Session!Stop, Session!Prints, Session!Occupied,
         Session!Ends, Session!Pump,
         Session!PumpEof, Session!Supervise, Session!PumpJoined, Session!outgoing, outgoing
    <2>6. QED
      BY <2>2, <2>3, <2>4, <2>5 DEF Speaks
  <1>7. ASSUME Prune!Next PROVE Speaks(Talk)
    <2>1. ASSUME NEW volumes \in BOOLEAN, NEW said \in BOOLEAN, Prune!Preview(volumes, said)
          PROVE  Speaks(Talk)
      BY <1>0, <2>1, SendsAreOne DEF Prune!Preview, Speaks
    <2>2. CASE Prune!Respond
      BY <1>0, <2>2, SendsAreOne DEF Prune!Respond, Speaks
    <2>3. ASSUME \A volumes, said \in BOOLEAN : ~Prune!Preview(volumes, said), ~Prune!Respond
          PROVE  UNCHANGED outgoing
      BY <1>7, <2>3 DEF Prune!Next, Prune!Change, Prune!Request, Prune!PruneContainers,
         Prune!PruneNetworks, Prune!PruneVolumes, Prune!PruneImages, Prune!PruneCache,
         Prune!RemoveUnused, Prune!PruneFails, Prune!outgoing, outgoing
    <2>4. QED
      BY <2>1, <2>2, <2>3 DEF Speaks
  <1>8. ASSUME Announce!Next PROVE Speaks(Talk)
    <2>1. CASE Announce!Register \/ Announce!Reprobe
      <3>1. Announce!Announcement(present) \in Talk
        BY DEF TypesInv, Announce!TypeOK, Announce!Announcement, Messages, Own, Talk
      <3>2. QED
        BY <2>1, <3>1, SendsAreOne DEF Announce!Register, Announce!Reprobe, Speaks
    <2>2. ASSUME NEW s \in Subsystems, Announce!Shift(s)
          PROVE  Speaks(Talk)
      BY <2>2 DEF Announce!Shift, Announce!outgoing, outgoing, Speaks
    <2>3. QED
      BY <1>8, <2>1, <2>2 DEF Announce!Next
  <1>9. QED
    BY <1>1, <1>2, <1>3, <1>4, <1>5, <1>6, <1>7, <1>8

\* What a step that speaks does to the messages.
LEMMA SpeaksMessaged ==
  ASSUME QueueTypes, NEW T \in SUBSET Own, Speaks(T)
  PROVE  Messaged' = Messaged \/ \E m \in T : Messaged' = Append(Messaged, m)
  <1>1. CASE UNCHANGED outgoing \/ Send(Other)
    BY <1>1, MessagedRests
  <1>2. CASE \E m \in T : Send(m)
    <2>1. PICK m \in T : Send(m)
      BY <1>2
    <2>2. m \in Own
      OBVIOUS
    <2>3. QED
      BY <2>1, <2>2, MessagedSend
  <1>3. QED
    BY <1>1, <1>2 DEF Speaks

LEMMA VoiceKeeps ==
  ASSUME QueueTypes, VoiceInv, running' = running, NEW T \in SUBSET Own,
         T \subseteq Voice(running), Speaks(T)
  PROVE  VoiceInv'
  <1>1. Messaged' = Messaged \/ \E m \in T : Messaged' = Append(Messaged, m)
    BY SpeaksMessaged
  <1>2. Messaged \in Seq(Voice(running))
    BY DEF VoiceInv
  <1>3. \A m \in T : Append(Messaged, m) \in Seq(Voice(running))
    BY <1>2, AppendProperties
  <1>4. Messaged' \in Seq(Voice(running))
    BY <1>1, <1>2, <1>3
  <1>5. QED
    BY <1>4 DEF VoiceInv

LEMMA TalkIsOwn == Talk \in SUBSET Own /\ \A kind : Talk \subseteq Voice(kind)
  BY DEF Talk, Own, Voice

-----------------------------------------------------------------------------
(* The lines of a stream's chunks, in the order they were sent.             *)

JournalChunks == {m \in Messages : m.type = "chunk"}
PodChunks == {m \in Messages : m.type = "logs"}
LinesOf(chunks) == Flatten([i \in 1 .. Len(chunks) |-> chunks[i].lines])
JournalLines(said) == LinesOf(Kept(said, JournalChunks))
PodLines(said) == LinesOf(Kept(said, PodChunks))

Carries(S, L) == \A m \in S : m.lines \in Seq(L)

LEMMA ChunksCarry == Carries(JournalChunks, Journal!Lines) /\ Carries(PodChunks, 1 .. MaxLines)
  <1>1. ASSUME NEW m \in JournalChunks PROVE m.lines \in Seq(Journal!Lines)
    BY DEF JournalChunks, Messages, Other, Journal!Chunk, PodLog!Chunk
  <1>2. ASSUME NEW m \in PodChunks PROVE m.lines \in Seq(1 .. MaxLines)
    BY DEF PodChunks, Messages, Other, Journal!Chunk, PodLog!Chunk
  <1>3. QED
    BY <1>1, <1>2 DEF Carries

LEMMA LinesAppend ==
  ASSUME NEW S, NEW L, Carries(S, L), NEW cs \in Seq(S), NEW m \in S
  PROVE  /\ LinesOf(<<>>) = <<>>
         /\ LinesOf(cs) \in Seq(L)
         /\ LinesOf(Append(cs, m)) = LinesOf(cs) \o m.lines
  <1> DEFINE all(q) == [i \in 1 .. Len(q) |-> q[i].lines]
  <1>1. /\ Len(cs) \in Nat /\ \A i \in 1 .. Len(cs) : cs[i] \in S
        /\ Append(cs, m) \in Seq(S) /\ Len(Append(cs, m)) = Len(cs) + 1
        /\ Append(cs, m)[Len(cs) + 1] = m
        /\ \A i \in 1 .. Len(cs) : Append(cs, m)[i] = cs[i]
    BY LenProperties, ElementOfSeq, AppendProperties
  <1>2. all(cs) \in Seq(Seq(L)) /\ Len(all(cs)) = Len(cs)
    BY <1>1 DEF Carries
  <1>3. m.lines \in Seq(L)
    BY DEF Carries
  <1>4. all(Append(cs, m)) = Append(all(cs), m.lines)
    <2>1. /\ Append(all(cs), m.lines) \in Seq(Seq(L))
          /\ Len(Append(all(cs), m.lines)) = Len(cs) + 1
          /\ Append(all(cs), m.lines)[Len(cs) + 1] = m.lines
          /\ \A i \in 1 .. Len(cs) : Append(all(cs), m.lines)[i] = all(cs)[i]
      <3> HIDE DEF all
      <3>1. QED
        BY <1>2, <1>3, AppendProperties
    <2>2. all(Append(cs, m)) \in Seq(Seq(L)) /\ Len(all(Append(cs, m))) = Len(cs) + 1
      <3> DEFINE more == Append(cs, m)
      <3>1. \A i \in 1 .. Len(cs) + 1 : more[i] \in S
        BY <1>1, ElementOfSeq
      <3>2. more \in Seq(S) /\ Len(more) = Len(cs) + 1
        BY <1>1
      <3> HIDE DEF more
      <3>3. all(more) \in Seq(Seq(L)) /\ Len(all(more)) = Len(cs) + 1
        BY <1>1, <3>1, <3>2 DEF Carries
      <3>4. QED
        BY <3>3 DEF more
    <2>3. ASSUME NEW i \in 1 .. Len(cs) + 1
          PROVE  all(Append(cs, m))[i] = Append(all(cs), m.lines)[i]
      <3>1. all(Append(cs, m))[i] = Append(cs, m)[i].lines
        BY <1>1
      <3>2. CASE i \in 1 .. Len(cs)
        <4>1. all(cs)[i] = cs[i].lines
          BY <3>2
        <4> HIDE DEF all
        <4>2. QED
          BY <1>1, <2>1, <3>1, <3>2, <4>1
      <3>3. CASE i = Len(cs) + 1
        <4> HIDE DEF all
        <4>1. QED
          BY <1>1, <2>1, <3>1, <3>3
      <3>4. i \in 1 .. Len(cs) \/ i = Len(cs) + 1
        BY <1>1
      <3>5. QED
        BY <3>2, <3>3, <3>4
    <2> HIDE DEF all
    <2>4. QED
      BY <2>1, <2>2, <2>3, SeqEqual
  <1>5. all(<<>>) = <<>>
    BY EmptySeq
  <1>6. LinesOf(<<>>) = Flatten(<<>>) /\ LinesOf(cs) = Flatten(all(cs))
        /\ LinesOf(Append(cs, m)) = Flatten(all(Append(cs, m)))
    BY <1>5 DEF LinesOf
  <1> HIDE DEF all
  <1>7. QED
    BY <1>2, <1>3, <1>4, <1>6, FlattenAppend

LEMMA LinesTold ==
  ASSUME NEW said \in Seq(Messages), NEW m \in Messages
  PROVE  /\ JournalLines(said) \in Seq(Journal!Lines)
         /\ PodLines(said) \in Seq(1 .. MaxLines)
         /\ JournalLines(Append(said, m)) = IF m.type = "chunk" THEN JournalLines(said) \o m.lines
                                            ELSE JournalLines(said)
         /\ PodLines(Append(said, m)) = IF m.type = "logs" THEN PodLines(said) \o m.lines
                                        ELSE PodLines(said)
  <1>1. ASSUME NEW T \in SUBSET Messages, NEW L, Carries(T, L), T # {}
        PROVE  /\ LinesOf(Kept(said, T)) \in Seq(L)
               /\ LinesOf(Kept(Append(said, m), T))
                     = IF m \in T THEN LinesOf(Kept(said, T)) \o m.lines
                       ELSE LinesOf(Kept(said, T))
    <2>1. Kept(said, T) \in Seq(T)
      <3>1. Kept(said, T) \in Seq(Messages \cap T)
        BY KeptElements
      <3>2. Messages \cap T = T
        OBVIOUS
      <3>3. QED
        BY <3>1, <3>2
    <2>2. Kept(Append(said, m), T) = IF m \in T THEN Append(Kept(said, T), m) ELSE Kept(said, T)
      BY KeptAppend
    <2>3. PICK x \in T : TRUE
      BY <1>1
    <2>4. LinesOf(Kept(said, T)) \in Seq(L)
      BY <1>1, <2>1, <2>3, LinesAppend
    <2>5. m \in T => LinesOf(Append(Kept(said, T), m)) = LinesOf(Kept(said, T)) \o m.lines
      BY <1>1, <2>1, LinesAppend
    <2>6. QED
      BY <2>2, <2>4, <2>5
  <1>2. JournalChunks \in SUBSET Messages /\ PodChunks \in SUBSET Messages
    BY DEF JournalChunks, PodChunks
  <1>3. Journal!Chunk(<<>>) \in JournalChunks /\ PodLog!Chunk(<<>>) \in PodChunks
    <2>1. <<>> \in Seq(Journal!Lines) /\ <<>> \in Seq(1 .. MaxLines)
      BY EmptySeq
    <2>2. Journal!Chunk(<<>>) \in Messages /\ PodLog!Chunk(<<>>) \in Messages
      BY <2>1 DEF Messages
    <2>3. Journal!Chunk(<<>>).type = "chunk" /\ PodLog!Chunk(<<>>).type = "logs"
      BY DEF Journal!Chunk, PodLog!Chunk
    <2>4. QED
      BY <2>2, <2>3 DEF JournalChunks, PodChunks
  <1>4. (m \in JournalChunks <=> m.type = "chunk") /\ (m \in PodChunks <=> m.type = "logs")
    BY DEF JournalChunks, PodChunks
  <1>5. JournalChunks # {} /\ PodChunks # {}
    BY <1>3
  <1>6. /\ JournalLines(said) \in Seq(Journal!Lines)
        /\ JournalLines(Append(said, m)) = IF m \in JournalChunks
                                           THEN JournalLines(said) \o m.lines
                                           ELSE JournalLines(said)
    BY <1>1, <1>2, <1>5, ChunksCarry DEF JournalLines
  <1>7. /\ PodLines(said) \in Seq(1 .. MaxLines)
        /\ PodLines(Append(said, m)) = IF m \in PodChunks THEN PodLines(said) \o m.lines
                                       ELSE PodLines(said)
    BY <1>1, <1>2, <1>5, ChunksCarry DEF PodLines
  <1>8. QED
    BY <1>4, <1>6, <1>7

\* A message of a set that no voice has is not there.
LEMMA VoicesSilent ==
  ASSUME QueueTypes, VoiceInv
  PROVE  /\ running # "journal" => JournalLines(Messaged) = <<>>
         /\ running # "pod" => PodLines(Messaged) = <<>>
         /\ running \notin {"journal", "pod"} =>
               \A i \in 1 .. Len(Messaged) : Messaged[i].type \notin {"end", "failed"}
  <1>1. Messaged \in Seq(Voice(running))
    BY DEF VoiceInv
  <1>2. \A T : Kept(Messaged, T) \in Seq(Voice(running) \cap T)
    BY <1>1, KeptElements
  <1>3. ASSUME NEW q \in Seq({}) PROVE q = <<>>
    BY EmptySeq, SeqDef
  <1>4. LinesOf(<<>>) = <<>>
    <2>1. [i \in 1 .. Len(<<>>) |-> <<>>[i].lines] = <<>>
      BY EmptySeq
    <2>2. QED
      BY <2>1 DEF LinesOf, Flatten
  <1>5. running # "journal" => Voice(running) \cap JournalChunks = {}
    BY DEF Voice, JournalChunks
  <1>6. running # "pod" => Voice(running) \cap PodChunks = {}
    BY DEF Voice, PodChunks
  <1>7. running \notin {"journal", "pod"} => 
           \A m \in Voice(running) : m.type \notin {"end", "failed"}
    BY DEF Voice
  <1>8. \A i \in 1 .. Len(Messaged) : Messaged[i] \in Voice(running)
    BY <1>1, ElementOfSeq
  <1>9. running # "journal" => Kept(Messaged, JournalChunks) = <<>>
    BY <1>2, <1>3, <1>5
  <1>10. running # "pod" => Kept(Messaged, PodChunks) = <<>>
    BY <1>2, <1>3, <1>6
  <1>11. QED
    BY <1>4, <1>7, <1>8, <1>9, <1>10 DEF JournalLines, PodLines

-----------------------------------------------------------------------------
(* A pod's log: the lines sent are a prefix of it, and End follows them all. *)

EndMessages == {PodLog!End, PodLog!FailedEnd}
NoEnd(said) == \A i \in 1 .. Len(said) : said[i] \notin EndMessages
EndLast(said) == \A i \in 1 .. Len(said) : said[i] \in EndMessages => i = Len(said)

\* Not even an End without an error has been said.
NotOver(said) == \A i \in 1 .. Len(said) : said[i] # PodLog!End
Ordered(lines) == \A n \in 1 .. Len(lines) : lines[n] = n

\* The lines held follow the n already sent.
Follows(lines, n) == \A i \in 1 .. Len(lines) : lines[i] = n + i

PodSent(lines) ==
    /\ Ordered(lines)
    /\ reading \in {"idle", "opening"} => taken = 0 /\ held = <<>> /\ lines = <<>>
    /\ reading = "streaming" => Len(lines) + Len(held) = taken /\ Follows(held, Len(lines))

PodEnd(said, missed) ==
    /\ reading # "returned" => NoEnd(said)
    /\ EndLast(said)
    /\ (reading = "returned" /\ ~missed) => ~NoEnd(said)

PodWhole(said, lines, missed) ==
    (~missed /\ (reading = "ending" \/ ~NotOver(said))) =>
        Len(lines) = taken /\ taken = logged /\ source # "open"

PodInv ==
    /\ running # "pod" => reading = "idle" /\ logged = 0
    /\ running = "pod" =>
          /\ PodSent(PodLines(Messaged)) /\ PodEnd(Messaged, refused)
          /\ PodWhole(Messaged, PodLines(Messaged), refused)

LEMMA EndsAppend ==
  ASSUME NEW said \in Seq(Messages), NEW m \in Messages
  PROVE  /\ NoEnd(said) /\ m \notin EndMessages => NoEnd(Append(said, m))
         /\ NoEnd(said) => EndLast(said) /\ EndLast(Append(said, m)) /\ NotOver(said)
         /\ m \in EndMessages => ~NoEnd(Append(said, m))
         /\ NoEnd(said) /\ m # PodLog!End => NotOver(Append(said, m))
  <1>1. /\ Len(said) \in Nat /\ Len(Append(said, m)) = Len(said) + 1
        /\ Append(said, m)[Len(said) + 1] = m
        /\ \A i \in 1 .. Len(said) : Append(said, m)[i] = said[i]
    BY LenProperties, AppendProperties
  <1>2. \A i \in 1 .. Len(said) + 1 : i \in 1 .. Len(said) \/ i = Len(said) + 1
    BY <1>1
  <1>3. Len(said) + 1 \in 1 .. Len(said) + 1
    BY <1>1
  <1>4. QED
    BY <1>1, <1>2, <1>3 DEF NoEnd, EndLast, NotOver, EndMessages

LEMMA OrderedMore ==
  ASSUME NEW s \in Seq(1 .. MaxLines), NEW t \in Seq(1 .. MaxLines), Ordered(s),
         Follows(t, Len(s))
  PROVE  Ordered(s \o t) /\ Len(s \o t) = Len(s) + Len(t)
  <1>1. /\ Len(s) \in Nat /\ Len(t) \in Nat /\ Len(s \o t) = Len(s) + Len(t)
        /\ \A i \in 1 .. Len(s) + Len(t) :
              (s \o t)[i] = IF i <= Len(s) THEN s[i] ELSE t[i - Len(s)]
    BY LenProperties, ConcatProperties
  <1>2. ASSUME NEW i \in 1 .. Len(s) + Len(t) PROVE (s \o t)[i] = i
    <2>1. CASE i <= Len(s)
      <3>1. i \in 1 .. Len(s)
        BY <1>1, <2>1
      <3>2. QED
        BY <1>1, <2>1, <3>1 DEF Ordered
    <2>2. CASE ~(i <= Len(s))
      <3>1. i - Len(s) \in 1 .. Len(t) /\ Len(s) + (i - Len(s)) = i
        BY <1>1, <2>2
      <3>2. t[i - Len(s)] = Len(s) + (i - Len(s))
        BY <3>1 DEF Follows
      <3>3. QED
        BY <1>1, <2>2, <3>1, <3>2
    <2>3. QED
      BY <2>1, <2>2
  <1>3. QED
    BY <1>1, <1>2 DEF Ordered

\* The chunk of the lines held, sent or refused.
LEMMA PodFlushed ==
  ASSUME QueueTypes, NEW lines \in Seq(1 .. MaxLines), Send(PodLog!Chunk(lines)),
         Ordered(PodLines(Messaged)), Follows(lines, Len(PodLines(Messaged))),
         NoEnd(Messaged)
  PROVE  /\ Ordered(PodLines(Messaged')) /\ NoEnd(Messaged') /\ EndLast(Messaged')
         /\ refused' = (refused \/ ~HasRoom)
         /\ HasRoom => Len(PodLines(Messaged')) = Len(PodLines(Messaged)) + Len(lines)
         /\ PodLog!Chunk(lines) \in Own \cap Voice("pod")
  <1> DEFINE m == PodLog!Chunk(lines)
  <1>1. m \in Messages /\ m.type = "logs" /\ m.lines = lines /\ m \notin EndMessages
    BY DEF Messages, PodLog!Chunk, PodLog!End, PodLog!FailedEnd, EndMessages
  <1> HIDE DEF m
  <1>2. m \in Own /\ m \in Voice("pod")
    BY <1>1 DEF Own, Voice
  <1>3. /\ Messaged' = IF HasRoom THEN Append(Messaged, m) ELSE Messaged
        /\ refused' = (refused \/ ~HasRoom) /\ Messaged \in Seq(Messages)
    BY <1>2, MessagedSend, MessagedTyped DEF m
  <1>4. /\ PodLines(Messaged) \in Seq(1 .. MaxLines)
        /\ PodLines(Append(Messaged, m)) = PodLines(Messaged) \o lines
    BY <1>1, <1>3, LinesTold
  <1>5. /\ Ordered(PodLines(Messaged) \o lines)
        /\ Len(PodLines(Messaged) \o lines) = Len(PodLines(Messaged)) + Len(lines)
    BY <1>4, OrderedMore
  <1>6. NoEnd(Append(Messaged, m)) /\ EndLast(Append(Messaged, m)) /\ EndLast(Messaged)
    BY <1>1, <1>3, EndsAppend
  <1>7. CASE HasRoom
    BY <1>2, <1>3, <1>4, <1>5, <1>6, <1>7 DEF m
  <1>8. CASE ~HasRoom
    BY <1>2, <1>3, <1>6, <1>8 DEF m
  <1>9. QED
    BY <1>7, <1>8

LEMMA PodStep ==
  ASSUME TypesInv, PodInv, VoiceInv, running = "pod", running' = "pod", PodLog!Next
  PROVE  PodInv' /\ VoiceInv'
  <1> DEFINE told == PodLines(Messaged)
             N == Len(told)
  <1>1. /\ QueueTypes /\ MaxLines \in Nat /\ logged \in Nat /\ taken \in 0 .. MaxLines
        /\ taken <= logged /\ held \in Seq(1 .. MaxLines) /\ Len(held) \in Nat
        /\ Messaged \in Seq(Messages)
    BY RequestsAssumption, MessagedTyped, LenProperties
       DEF TypesInv, PodTypes, PodLog!TypeOK, PodLog!SizesAssumption
  <1>2. told \in Seq(1 .. MaxLines) /\ N \in Nat
    <2>1. PICK m \in Messages : TRUE
      BY DEF Messages
    <2>2. told \in Seq(1 .. MaxLines)
      BY <1>1, LinesTold
    <2>3. QED
      BY <2>2, LenProperties
  <1>3. /\ PodSent(told) /\ PodEnd(Messaged, refused)
        /\ PodWhole(Messaged, told, refused)
    BY DEF PodInv
  <1> HIDE DEF told
  <1>4. /\ Ordered(told)
        /\ reading # "returned" => NoEnd(Messaged) /\ NotOver(Messaged)
    BY <1>3 DEF PodSent, PodEnd, NoEnd, NotOver, EndMessages
  <1>5. ASSUME UNCHANGED outgoing
        PROVE  told' = told /\ Messaged' = Messaged /\ refused' = refused
    BY <1>1, <1>5, MessagedRests DEF told, outgoing
  <1>6. ASSUME UNCHANGED outgoing, PodSent(told)', PodWhole(Messaged, told, refused)',
               reading' = reading \/ (reading # "returned" /\ reading' # "returned")
        PROVE  PodInv' /\ VoiceInv'
    <2>1. told' = told /\ Messaged' = Messaged /\ refused' = refused
      BY <1>5, <1>6
    <2>2. PodEnd(Messaged, refused)'
      BY <1>3, <1>6, <2>1 DEF PodEnd
    <2>3. QED
      BY <1>6, <2>1, <2>2 DEF PodInv, VoiceInv, told
  <1>7. ASSUME NEW lines \in Seq(1 .. MaxLines), Follows(lines, N), reading = "streaming",
               Send(PodLog!Chunk(lines)), held' = <<>>,
               \/ reading' = (IF HasRoom THEN reading ELSE "returned")
                  /\ (HasRoom => N + Len(lines) = taken')
               \/ reading' = "ending" /\ N + Len(lines) = taken' /\ taken' = logged'
                  /\ source' # "open"
               \/ reading' = "failing"
        PROVE  PodInv' /\ VoiceInv'
    <2>1. /\ Ordered(PodLines(Messaged')) /\ NoEnd(Messaged') /\ EndLast(Messaged')
          /\ refused' = (refused \/ ~HasRoom)
          /\ HasRoom => Len(PodLines(Messaged')) = N + Len(lines)
          /\ PodLog!Chunk(lines) \in Own \cap Voice("pod")
      BY <1>1, <1>4, <1>7, PodFlushed DEF told
    <2>2. VoiceInv'
      <3> DEFINE T == {PodLog!Chunk(lines)}
      <3>1. T \in SUBSET Own /\ T \subseteq Voice(running)
        BY <2>1
      <3>2. Speaks(T)
        BY <1>7 DEF Speaks
      <3> HIDE DEF T
      <3>3. QED
        BY <1>1, <3>1, <3>2, VoiceKeeps
    <2>3. PodEnd(Messaged, refused)'
      BY <1>7, <2>1 DEF PodEnd
    <2>4. PodSent(PodLines(Messaged))'
      <3>1. Follows(<<>>, Len(PodLines(Messaged')))
        BY DEF Follows
      <3>2. CASE HasRoom /\ reading' = "streaming"
        <4>1. Len(PodLines(Messaged')) + Len(held') = taken'
              /\ Len(PodLines(Messaged')) = taken' /\ Len(held') = 0
          BY <1>1, <1>2, <1>7, <2>1, <3>2, LenProperties
        <4>2. QED
          BY <1>7, <2>1, <3>1, <3>2, <4>1 DEF PodSent
      <3>3. CASE ~(HasRoom /\ reading' = "streaming")
        BY <1>7, <2>1, <3>3 DEF PodSent
      <3>4. QED
        BY <3>2, <3>3
    <2>5. PodWhole(Messaged, PodLines(Messaged), refused)'
      <3>1. NotOver(Messaged')
        BY <2>1 DEF NoEnd, NotOver, EndMessages
      <3>2. CASE HasRoom
        BY <1>7, <2>1, <3>1, <3>2 DEF PodWhole
      <3>3. CASE ~HasRoom
        BY <2>1, <3>3 DEF PodWhole
      <3>4. QED
        BY <3>2, <3>3
    <2>6. QED
      BY <2>2, <2>3, <2>4, <2>5 DEF PodInv
  <1>8. CASE PodLog!PodLogs \/ PodLog!SourceEnds
    <2>1. /\ source = "open" /\ UNCHANGED <<taken, reading, held, outgoing>>
      BY <1>8 DEF PodLog!PodLogs, PodLog!SourceEnds, PodLog!outgoing, outgoing
    <2>2. told' = told /\ refused' = refused /\ Messaged' = Messaged
      BY <1>5, <2>1
    <2>3. PodSent(told)' /\ PodWhole(Messaged, told, refused)'
      BY <1>3, <2>1, <2>2 DEF PodSent, PodWhole
    <2>4. QED
      BY <1>6, <2>1, <2>3
  <1>9. CASE PodLog!Request \/ PodLog!Open \/ PodLog!Abort
    <2>1. /\ UNCHANGED <<source, logged, taken, held, outgoing>>
          /\ \/ reading = "idle" /\ reading' = "opening"
             \/ reading = "opening" /\ reading' \in {"streaming", "failing"}
             \/ reading # "returned" /\ reading' = "aborted"
      BY <1>9 DEF PodLog!Request, PodLog!Idle, PodLog!Open, PodLog!Abort, PodLog!pod,
                  PodLog!outgoing, outgoing
    <2>2. told' = told /\ refused' = refused /\ NotOver(Messaged')
      <3>1. told' = told /\ refused' = refused /\ Messaged' = Messaged
        BY <1>5, <2>1
      <3>2. reading # "returned"
        BY <2>1
      <3>3. QED
        BY <1>4, <3>1, <3>2
    <2>3. PodSent(told)'
      <3>1. reading \in {"idle", "opening"} =>
               taken = 0 /\ held = <<>> /\ told = <<>> /\ N = 0 /\ Len(held) = 0
               /\ Follows(held, N)
        BY <1>3 DEF PodSent, Follows
      <3>2. QED
        BY <1>4, <2>1, <2>2, <3>1 DEF PodSent
    <2>4. PodWhole(Messaged, told, refused)'
      BY <2>1, <2>2 DEF PodWhole
    <2>5. QED
      BY <1>6, <2>1, <2>3, <2>4
  <1>10. CASE PodLog!ReadLine
    <2> DEFINE lines == Append(held, taken')
    <2>1. /\ reading = "streaming" /\ taken < logged /\ taken' = taken + 1
          /\ \/ PodLog!Flush(lines)
             \/ held' = lines /\ UNCHANGED <<outgoing, reading>>
          /\ UNCHANGED <<source, logged>>
      BY <1>10 DEF PodLog!ReadLine, PodLog!pod, PodLog!outgoing, outgoing
    <2>2. N + Len(held) = taken /\ Follows(held, N)
      BY <1>3, <2>1 DEF PodSent
    <2>3. taken' \in 1 .. MaxLines
      <3>1. logged <= MaxLines
        BY DEF TypesInv, PodTypes, PodLog!TypeOK
      <3>2. QED
        BY <1>1, <2>1, <3>1
    <2>4. /\ lines \in Seq(1 .. MaxLines) /\ Len(lines) = Len(held) + 1
          /\ lines[Len(held) + 1] = taken'
          /\ \A i \in 1 .. Len(held) : lines[i] = held[i]
      <3>1. held \in Seq(1 .. MaxLines)
        BY <1>1
      <3>2. QED
        BY <2>3, <3>1, AppendProperties
    <2> HIDE DEF lines
    <2>5. Follows(lines, N)
      <3>1. taken' = N + (Len(held) + 1)
        BY <1>1, <1>2, <2>1, <2>2
      <3>2. \A i \in 1 .. Len(held) + 1 : i \in 1 .. Len(held) \/ i = Len(held) + 1
        BY <1>1
      <3>3. QED
        BY <2>2, <2>4, <3>1, <3>2 DEF Follows
    <2>6. N + Len(lines) = taken'
      BY <1>1, <1>2, <2>1, <2>2, <2>4
    <2>7. CASE PodLog!Flush(lines)
      <3>1. Send(PodLog!Chunk(lines)) /\ held' = <<>>
            /\ reading' = IF HasRoom THEN reading ELSE "returned"
        BY <2>7, SendsAreOne DEF PodLog!Flush, PodLog!HasRoom, HasRoom
      <3>2. QED
        BY <1>7, <2>1, <2>4, <2>5, <2>6, <3>1
    <2>8. CASE held' = lines /\ UNCHANGED <<outgoing, reading>>
      <3>1. told' = told /\ refused' = refused /\ NotOver(Messaged')
        BY <1>4, <1>5, <2>1, <2>8
      <3>2. PodSent(told)'
        BY <1>4, <2>1, <2>5, <2>6, <2>8, <3>1 DEF PodSent
      <3>3. PodWhole(Messaged, told, refused)'
        BY <2>1, <2>8, <3>1 DEF PodWhole
      <3>4. QED
        BY <1>6, <2>8, <3>2, <3>3
    <2>9. QED
      BY <2>1, <2>7, <2>8
  <1>11. CASE PodLog!Tick
    <2>1. /\ reading = "streaming" /\ Send(PodLog!Chunk(held)) /\ held' = <<>>
          /\ reading' = (IF HasRoom THEN reading ELSE "returned")
          /\ UNCHANGED <<source, logged, taken>>
      BY <1>11, SendsAreOne DEF PodLog!Tick, PodLog!Flush, PodLog!pod, PodLog!HasRoom, HasRoom
    <2>2. N + Len(held) = taken /\ Follows(held, N)
      BY <1>3, <2>1 DEF PodSent
    <2>3. QED
      BY <1>1, <1>7, <2>1, <2>2
  <1>12. CASE PodLog!LogOver \/ PodLog!ReadFails
    <2>1. /\ reading = "streaming" /\ held' = <<>>
          /\ \/ reading' = "ending" /\ source # "open" /\ taken = logged
             \/ reading' = "failing"
          /\ (IF held = <<>> THEN UNCHANGED outgoing ELSE Send(PodLog!Chunk(held)))
          /\ UNCHANGED <<source, logged, taken>>
      BY <1>12, SendsAreOne
         DEF PodLog!LogOver, PodLog!ReadFails, PodLog!Over, PodLog!pod, PodLog!outgoing, outgoing
    <2>2. N + Len(held) = taken /\ Follows(held, N)
      BY <1>3, <2>1 DEF PodSent
    <2>3. CASE held # <<>>
      <3>1. Send(PodLog!Chunk(held))
        BY <2>1, <2>3
      <3>2. QED
        BY <1>1, <1>7, <2>1, <2>2, <3>1
    <2>4. CASE held = <<>>
      <3>1. UNCHANGED outgoing /\ N = taken
        BY <1>1, <1>2, <2>1, <2>2, <2>4
      <3>2. told' = told /\ refused' = refused /\ NotOver(Messaged')
        BY <1>4, <1>5, <2>1, <3>1
      <3>3. PodSent(told)'
        BY <1>4, <2>1, <3>1, <3>2 DEF PodSent
      <3>4. PodWhole(Messaged, told, refused)'
        BY <2>1, <3>1, <3>2 DEF PodWhole
      <3>5. QED
        BY <1>6, <2>1, <3>1, <3>3, <3>4
    <2>5. QED
      BY <2>3, <2>4
  <1>13. CASE PodLog!SendEnd
    <2> DEFINE m == IF reading = "ending" THEN PodLog!End ELSE PodLog!FailedEnd
    <2>1. /\ reading \in {"ending", "failing"} /\ reading' = "returned" /\ Send(m)
          /\ UNCHANGED <<source, logged, taken, held>>
      BY <1>13, SendsAreOne DEF PodLog!SendEnd, PodLog!pod
    <2>2. /\ m \in Own /\ m \in Voice("pod") /\ m \in Messages /\ m.type # "logs"
          /\ m \in EndMessages /\ (reading # "ending" => m # PodLog!End)
      BY DEF Messages, Own, Voice, PodLog!End, PodLog!FailedEnd, EndMessages
    <2>3. /\ Messaged' = IF HasRoom THEN Append(Messaged, m) ELSE Messaged
          /\ refused' = (refused \/ ~HasRoom)
      <3> HIDE DEF m
      <3>1. QED
        BY <1>1, <2>1, <2>2, MessagedSend
    <2>4. VoiceInv'
      <3> DEFINE T == {m}
      <3>1. T \in SUBSET Own /\ T \subseteq Voice(running)
        BY <2>2
      <3>2. Speaks(T)
        BY <2>1 DEF Speaks
      <3> HIDE DEF T, m
      <3>3. QED
        BY <1>1, <3>1, <3>2, VoiceKeeps
    <2>5. PodEnd(Messaged, refused)'
      <3>1. NoEnd(Messaged)
        BY <1>4, <2>1
      <3>2. EndLast(Messaged) /\ EndLast(Append(Messaged, m)) /\ ~NoEnd(Append(Messaged, m))
        BY <1>1, <2>2, <3>1, EndsAppend
      <3> HIDE DEF m
      <3>3. QED
        BY <2>1, <2>3, <3>2 DEF PodEnd
    <2>6. PodLines(Messaged') = told
      <3>1. PodLines(Append(Messaged, m)) = told
        <4> HIDE DEF m
        <4>1. PodLines(Append(Messaged, m)) = IF m.type = "logs"
                                              THEN PodLines(Messaged) \o m.lines
                                              ELSE PodLines(Messaged)
          BY <1>1, <2>2, LinesTold
        <4>2. QED
          BY <2>2, <4>1 DEF told
      <3> HIDE DEF m
      <3>2. QED
        BY <2>3, <3>1 DEF told
    <2>7. PodSent(PodLines(Messaged))'
      BY <1>4, <2>1, <2>6 DEF PodSent
    <2>8. PodWhole(Messaged, PodLines(Messaged), refused)'
      <3>1. CASE reading = "ending"
        BY <1>3, <2>1, <2>3, <2>6, <3>1 DEF PodWhole
      <3>2. CASE reading # "ending"
        <4>1. NoEnd(Messaged) /\ NotOver(Messaged)
          BY <1>4, <2>1
        <4>2. NotOver(Append(Messaged, m))
          <5> HIDE DEF m
          <5>1. QED
            BY <1>1, <2>2, <3>2, <4>1, EndsAppend
        <4>3. NotOver(Messaged')
          <5> HIDE DEF m
          <5>1. QED
            BY <2>3, <4>1, <4>2
        <4>4. QED
          BY <2>1, <4>3 DEF PodWhole
      <3>3. QED
        BY <3>1, <3>2
    <2>9. QED
      BY <2>4, <2>5, <2>7, <2>8 DEF PodInv
  <1>14. QED
    BY <1>8, <1>9, <1>10, <1>11, <1>12, <1>13 DEF PodLog!Next

-----------------------------------------------------------------------------
(* A journal: of each pipe the lines sent are a prefix, and End follows them. *)

LinesFrom(p) == {l \in Journal!Lines : l[1] = p}
From(p, lines) == Kept(lines, LinesFrom(p))
Upto(p, n) == [i \in 1 .. n |-> <<p, i>>]
InOrder(lines) == \A p \in Journal!Pipes : \A n \in 1 .. Len(From(p, lines)) :
                     From(p, lines)[n] = <<p, n>>

\* What is sent, in the buffer and in the channel.
Passing(told) == (told \o buf) \o channel

JournalSent(told, missed) ==
    /\ batcher = "running" =>
          \A p \in Journal!Pipes : From(p, Passing(told)) = Upto(p, pumped[p])
    /\ batcher = "done" => InOrder(told)
    /\ (batcher = "done" /\ ~missed) =>
          \A p \in Journal!Pipes : pump[p] # "reading" /\ Len(From(p, told)) = pumped[p]
    /\ \A p \in Journal!Pipes :
          (pump[p] = "done" /\ (batcher = "running" \/ ~missed)) =>
              pumped[p] = printed[p] /\ Journal!ChildGone

JournalUnborn(told) ==
    /\ supervisor \in {"idle", "spawn"} => child = "none"
    /\ child = "none" =>
          /\ buf = <<>> /\ channel = <<>> /\ told = <<>>
          /\ \A p \in Journal!Pipes :
                printed[p] = 0 /\ pumped[p] = 0 /\ pump[p] = "reading"
    /\ supervisor \in {"end", "done"} => batcher = "done" \/ child = "none"

JournalEnd(said) ==
    /\ supervisor # "done" => NoEnd(said)
    /\ EndLast(said)

JournalInv ==
    /\ running # "journal" => supervisor = "idle"
    /\ running = "journal" =>
          /\ JournalSent(JournalLines(Messaged), refused)
          /\ JournalUnborn(JournalLines(Messaged))
          /\ JournalEnd(Messaged)

LEMMA UptoMore ==
  ASSUME NEW p \in Journal!Pipes, NEW n \in 0 .. MaxLines, n + 1 \in 1 .. MaxLines
  PROVE  Upto(p, n + 1) = Append(Upto(p, n), <<p, n + 1>>) /\ Len(Upto(p, n)) = n
         /\ Upto(p, n) \in Seq(Journal!Lines)
  <1>0. MaxLines \in Nat /\ n \in Nat
    BY RequestsAssumption DEF Journal!SizesAssumption
  <1>1. /\ Len(Upto(p, n)) = n /\ Len(Upto(p, n + 1)) = n + 1
        /\ Upto(p, n) \in Seq(Journal!Lines) /\ Upto(p, n + 1) \in Seq(Journal!Lines)
        /\ <<p, n + 1>> \in Journal!Lines
    BY <1>0 DEF Upto, Journal!Lines
  <1>2. /\ Append(Upto(p, n), <<p, n + 1>>) \in Seq(Journal!Lines)
        /\ Len(Append(Upto(p, n), <<p, n + 1>>)) = n + 1
        /\ Append(Upto(p, n), <<p, n + 1>>)[n + 1] = <<p, n + 1>>
        /\ \A i \in 1 .. n : Append(Upto(p, n), <<p, n + 1>>)[i] = Upto(p, n)[i]
    BY <1>1, AppendProperties
  <1>3. \A i \in 1 .. n + 1 : Upto(p, n + 1)[i] = Append(Upto(p, n), <<p, n + 1>>)[i]
    <2>1. \A i \in 1 .. n + 1 : Upto(p, n + 1)[i] = <<p, i>>
      BY DEF Upto
    <2>2. \A i \in 1 .. n : Upto(p, n)[i] = <<p, i>>
      BY DEF Upto
    <2>3. \A i \in 1 .. n + 1 : i \in 1 .. n \/ i = n + 1
      BY <1>0
    <2>4. QED
      BY <1>2, <2>1, <2>2, <2>3
  <1>4. QED
    BY <1>1, <1>2, <1>3, SeqEqual

LEMMA UptoPrefix ==
  ASSUME NEW S, NEW s \in Seq(S), NEW t \in Seq(S), NEW p, NEW n \in Nat, s \o t = Upto(p, n)
  PROVE  \A i \in 1 .. Len(s) : s[i] = <<p, i>>
  <1>1. /\ Len(s) \in Nat /\ Len(t) \in Nat /\ Len(s \o t) = Len(s) + Len(t)
        /\ \A i \in 1 .. Len(s) + Len(t) :
              (s \o t)[i] = IF i <= Len(s) THEN s[i] ELSE t[i - Len(s)]
    BY LenProperties, ConcatProperties
  <1>2. Len(Upto(p, n)) = n /\ \A i \in 1 .. n : Upto(p, n)[i] = <<p, i>>
    BY DEF Upto
  <1>3. Len(s) <= n /\ n = Len(s) + Len(t)
    BY <1>1, <1>2
  <1>4. QED
    BY <1>1, <1>2, <1>3

LEMMA SelectsFrom ==
  ASSUME NEW s \in Seq(Journal!Lines), NEW p
  PROVE  Select(s, LAMBDA l : l[1] = p) = From(p, s)
  <1>1. Len(s) \in Nat /\ \A n \in 1 .. Len(s) : s[n] \in Journal!Lines
    BY LenProperties, ElementOfSeq
  <1>2. [n \in 1 .. Len(s) |-> IF s[n][1] = p THEN <<s[n]>> ELSE <<>>] = Ones(s, LinesFrom(p))
    <2> HIDE DEF Journal!Lines
    <2>1. QED
      BY <1>1 DEF Ones, One, LinesFrom
  <1>3. QED
    BY <1>2 DEF Select, Kept, From

LEMMA LinesBridge ==
  ASSUME QueueTypes
  PROVE  /\ PodLog!SentLines = PodLines(Messaged)
         /\ \A p : Journal!SentFrom(p) = From(p, JournalLines(Messaged))
         /\ PodLog!Messaged = Messaged /\ Journal!Messaged = Messaged
  <1>1. Messaged \in Seq(Messages)
    BY MessagedTyped
  <1>2. PodLog!Messaged = Messaged /\ Journal!Messaged = Messaged
    BY DEF PodLog!Messaged, Journal!Messaged, Messaged, PodLog!Select, Journal!Select, Select,
           PodLog!Flatten, Journal!Flatten, Flatten
  <1>3. Len(Messaged) \in Nat /\ \A n \in 1 .. Len(Messaged) : Messaged[n] \in Messages
    BY <1>1, LenProperties, ElementOfSeq
  <1> HIDE DEF Messaged
  <1>4. PodLog!Chunks = Kept(Messaged, PodChunks)
    <2>1. [n \in 1 .. Len(Messaged) |-> IF Messaged[n].type = "logs" THEN <<Messaged[n]>> ELSE <<>>]
             = Ones(Messaged, PodChunks)
      <3> HIDE DEF Messages
      <3>1. QED
        BY <1>3 DEF Ones, One, PodChunks
    <2>2. QED
      <3>1. PodLog!Chunks = Select(Messaged, LAMBDA m : m.type = "logs")
        BY <1>2 DEF PodLog!Chunks, PodLog!Select, Select, PodLog!Flatten, Flatten
      <3>2. QED
        BY <2>1, <3>1 DEF Select, Kept
  <1>5. Journal!Chunks = Kept(Messaged, JournalChunks)
    <2>1. [n \in 1 .. Len(Messaged) |-> IF Messaged[n].type = "chunk" THEN <<Messaged[n]>> ELSE <<>>]
             = Ones(Messaged, JournalChunks)
      <3> HIDE DEF Messages
      <3>1. QED
        BY <1>3 DEF Ones, One, JournalChunks
    <2>2. QED
      <3>1. Journal!Chunks = Select(Messaged, LAMBDA m : m.type = "chunk")
        BY <1>2 DEF Journal!Chunks, Journal!Select, Select, Journal!Flatten, Flatten
      <3>2. QED
        BY <2>1, <3>1 DEF Select, Kept
  <1>6. PodLog!SentLines = PodLines(Messaged)
    BY <1>4 DEF PodLog!SentLines, PodLines, LinesOf, PodLog!Flatten, Flatten
  <1>7. Journal!SentLines = JournalLines(Messaged)
    BY <1>5 DEF Journal!SentLines, JournalLines, LinesOf, Journal!Flatten, Flatten
  <1>8. ASSUME NEW p PROVE Journal!SentFrom(p) = From(p, JournalLines(Messaged))
    <2>1. PICK m \in Messages : TRUE
      BY DEF Messages
    <2>2. JournalLines(Messaged) \in Seq(Journal!Lines)
      BY <1>1, LinesTold
    <2>3. Journal!SentFrom(p) = Select(JournalLines(Messaged), LAMBDA l : l[1] = p)
      BY <1>7 DEF Journal!SentFrom, Journal!Select, Select, Journal!Flatten, Flatten
    <2>4. QED
      BY <2>2, <2>3, SelectsFrom DEF Select
  <1>9. QED
    BY <1>2, <1>6, <1>8

LEMMA PassingTakes ==
  ASSUME NEW S, NEW told \in Seq(S), NEW b \in Seq(S), NEW h \in S, NEW c \in Seq(S)
  PROVE  (told \o b) \o (<<h>> \o c) = (told \o Append(b, h)) \o c
  <1>1. <<h>> \in Seq(S)
    OBVIOUS
  <1>2. Append(b, h) = b \o <<h>>
    BY AppendIsConcat
  <1>3. told \o b \in Seq(S) /\ told \o (b \o <<h>>) = (told \o b) \o <<h>>
    BY <1>1, ConcatAssociative, ConcatProperties
  <1>4. ((told \o b) \o <<h>>) \o c = (told \o b) \o (<<h>> \o c)
    BY <1>1, <1>3, ConcatAssociative
  <1>5. QED
    BY <1>2, <1>3, <1>4

\* What comes before the rest is in order if all of it is.
LEMMA PassingInOrder ==
  ASSUME NEW told \in Seq(Journal!Lines), NEW rest \in Seq(Journal!Lines), NEW p, NEW n \in Nat,
         From(p, told \o rest) = Upto(p, n)
  PROVE  \A i \in 1 .. Len(From(p, told)) : From(p, told)[i] = <<p, i>>
  <1>1. From(p, told \o rest) = From(p, told) \o From(p, rest)
    BY KeptConcat DEF From
  <1>2. From(p, told) \in Seq(Journal!Lines) /\ From(p, rest) \in Seq(Journal!Lines)
    BY KeptTyped DEF From
  <1>3. From(p, told) \o From(p, rest) = Upto(p, n)
    BY <1>1
  <1> DEFINE a == From(p, told)
             b == From(p, rest)
  <1>4. a \in Seq(Journal!Lines) /\ b \in Seq(Journal!Lines) /\ a \o b = Upto(p, n)
    BY <1>2, <1>3
  <1> HIDE DEF a, b
  <1>5. \A i \in 1 .. Len(a) : a[i] = <<p, i>>
    BY <1>4, UptoPrefix
  <1>6. QED
    BY <1>5 DEF a

\* A chunk of lines, sent or refused.
LEMMA JournalFlushed ==
  ASSUME QueueTypes, NEW lines \in Seq(Journal!Lines), Send(Journal!Chunk(lines)),
         NoEnd(Messaged)
  PROVE  /\ JournalLines(Messaged') = IF HasRoom THEN JournalLines(Messaged) \o lines
                                      ELSE JournalLines(Messaged)
         /\ NoEnd(Messaged') /\ EndLast(Messaged')
         /\ refused' = (refused \/ ~HasRoom)
         /\ Journal!Chunk(lines) \in Own \cap Voice("journal")
  <1> DEFINE m == Journal!Chunk(lines)
  <1>1. m \in Messages /\ m.type = "chunk" /\ m.lines = lines /\ m \notin EndMessages
    BY DEF Messages, Journal!Chunk, PodLog!End, PodLog!FailedEnd, EndMessages
  <1> HIDE DEF m
  <1>2. m \in Own /\ m \in Voice("journal")
    BY <1>1 DEF Own, Voice
  <1>3. /\ Messaged' = IF HasRoom THEN Append(Messaged, m) ELSE Messaged
        /\ refused' = (refused \/ ~HasRoom) /\ Messaged \in Seq(Messages)
    BY <1>2, MessagedSend, MessagedTyped DEF m
  <1>4. JournalLines(Append(Messaged, m)) = JournalLines(Messaged) \o lines
    BY <1>1, <1>3, LinesTold
  <1>5. NoEnd(Append(Messaged, m)) /\ EndLast(Append(Messaged, m)) /\ EndLast(Messaged)
    BY <1>1, <1>3, EndsAppend
  <1>6. CASE HasRoom
    BY <1>2, <1>3, <1>4, <1>5, <1>6 DEF m
  <1>7. CASE ~HasRoom
    BY <1>2, <1>3, <1>5, <1>7 DEF m
  <1>8. QED
    BY <1>6, <1>7

LEMMA JournalOrdered ==
  ASSUME TypesInv, JournalInv, running = "journal"
  PROVE  InOrder(JournalLines(Messaged))
  <1> DEFINE told == JournalLines(Messaged)
             All == Journal!Lines
             rest == buf \o channel
  <1>1. /\ QueueTypes /\ pumped \in [Journal!Pipes -> Nat]
        /\ channel \in Seq(All) /\ buf \in Seq(All) /\ batcher \in {"running", "done"}
    BY RequestsAssumption
       DEF TypesInv, JournalTypes, Journal!TypeOK, Journal!SizesAssumption
  <1>2. told \in Seq(All)
    <2>1. Messaged \in Seq(Messages)
      BY <1>1, MessagedTyped
    <2>2. PICK m \in Messages : TRUE
      BY DEF Messages
    <2>3. QED
      BY <2>1, LinesTold
  <1>3. JournalSent(told, refused)
    BY DEF JournalInv
  <1> HIDE DEF told
  <1>4. rest \in Seq(All) /\ Passing(told) = told \o rest
    BY <1>1, <1>2, ConcatProperties, ConcatAssociative DEF Passing
  <1> HIDE DEF rest
  <1>5. CASE batcher = "running"
    <2>1. ASSUME NEW p \in Journal!Pipes
          PROVE  \A i \in 1 .. Len(From(p, told)) : From(p, told)[i] = <<p, i>>
      <3>1. From(p, told \o rest) = Upto(p, pumped[p]) /\ pumped[p] \in Nat
        BY <1>1, <1>3, <1>4, <1>5 DEF JournalSent
      <3>2. QED
        BY <1>2, <1>4, <3>1, PassingInOrder
    <2>2. QED
      BY <2>1 DEF InOrder, told
  <1>6. CASE batcher = "done"
    BY <1>3, <1>6 DEF JournalSent, told
  <1>7. QED
    BY <1>1, <1>5, <1>6

LEMMA JournalStep ==
  ASSUME TypesInv, JournalInv, VoiceInv, running = "journal", running' = "journal",
         Journal!Next
  PROVE  JournalInv' /\ VoiceInv'
  <1> DEFINE told == JournalLines(Messaged)
             All == Journal!Lines
  <1>1. /\ QueueTypes /\ MaxLines \in Nat /\ Messaged \in Seq(Messages)
        /\ printed \in [Journal!Pipes -> 0 .. MaxLines]
        /\ pumped \in [Journal!Pipes -> 0 .. MaxLines]
        /\ pump \in [Journal!Pipes -> {"reading", "done", "failed"}]
        /\ channel \in Seq(All) /\ buf \in Seq(All) /\ batcher \in {"running", "done"}
        /\ \A p \in Journal!Pipes : pumped[p] <= printed[p]
    BY RequestsAssumption, MessagedTyped
       DEF TypesInv, JournalTypes, Journal!TypeOK, Journal!SizesAssumption
  <1>2. told \in Seq(All)
    <2>1. PICK m \in Messages : TRUE
      BY DEF Messages
    <2>2. QED
      BY <1>1, LinesTold
  <1>3. JournalSent(told, refused) /\ JournalUnborn(told) /\ JournalEnd(Messaged)
    BY DEF JournalInv
  <1> HIDE DEF told
  <1>4. supervisor # "done" => NoEnd(Messaged)
    BY <1>3 DEF JournalEnd
  <1>5. ASSUME UNCHANGED outgoing
        PROVE  told' = told /\ Messaged' = Messaged /\ refused' = refused
    BY <1>1, <1>5, MessagedRests DEF told, outgoing
  <1>6. ASSUME UNCHANGED outgoing, JournalSent(told, refused)', JournalUnborn(told)',
               supervisor = "done" => supervisor' = "done"
        PROVE  JournalInv' /\ VoiceInv'
    <2>1. told' = told /\ Messaged' = Messaged /\ refused' = refused
      BY <1>5, <1>6
    <2>2. JournalEnd(Messaged)'
      BY <1>3, <1>6, <2>1 DEF JournalEnd
    <2>3. QED
      BY <1>6, <2>1, <2>2 DEF JournalInv, VoiceInv, told
  <1>7. Passing(told) \in Seq(All) /\ Passing(told) = told \o (buf \o channel)
        /\ buf \o channel \in Seq(All)
    BY <1>1, <1>2, ConcatProperties, ConcatAssociative DEF Passing
  <1>8. InOrder(told)
    BY JournalOrdered DEF told
  <1>9. ASSUME NEW lines \in Seq(All), NEW rest \in Seq(All),
               (told \o lines) \o rest = Passing(told), batcher = "running", child # "none",
               Send(Journal!Chunk(lines)), buf' = <<>>, channel' = rest,
               UNCHANGED <<child, printed, pumped, pump, supervisor>>,
               \/ batcher' = IF HasRoom THEN batcher ELSE "done"
               \/ batcher' = "done" /\ rest = <<>> /\ \A p \in Journal!Pipes : pump[p] # "reading"
        PROVE  JournalInv' /\ VoiceInv'
    <2> DEFINE more == told \o lines
    <2>1. supervisor \notin {"idle", "spawn", "end", "done"}
      BY <1>3, <1>9 DEF JournalUnborn
    <2>2. /\ JournalLines(Messaged') = IF HasRoom THEN more ELSE told
          /\ NoEnd(Messaged') /\ EndLast(Messaged')
          /\ refused' = (refused \/ ~HasRoom)
          /\ Journal!Chunk(lines) \in Own \cap Voice("journal")
      BY <1>1, <1>4, <1>9, <2>1, JournalFlushed DEF told
    <2>3. VoiceInv'
      <3> DEFINE T == {Journal!Chunk(lines)}
      <3>1. T \in SUBSET Own /\ T \subseteq Voice(running)
        BY <2>2
      <3>2. Speaks(T)
        BY <1>9 DEF Speaks
      <3> HIDE DEF T
      <3>3. QED
        BY <1>1, <3>1, <3>2, VoiceKeeps
    <2>4. JournalEnd(Messaged)'
      BY <2>2 DEF JournalEnd
    <2>5. JournalUnborn(JournalLines(Messaged))'
      BY <1>9, <2>1 DEF JournalUnborn
    <2>6. more \in Seq(All) /\ more \o <<>> = more /\ more \o rest = Passing(told)
      BY <1>2, <1>9, ConcatProperties, ConcatEmptySeq
    <2> HIDE DEF more
    <2>7. JournalSent(JournalLines(Messaged), refused)'
      <3>1. CASE HasRoom /\ batcher' = "running"
        <4>1. JournalLines(Messaged') = more /\ refused' = refused
          <5>1. refused \in BOOLEAN
            BY <1>1 DEF QueueTypes
          <5>2. QED
            BY <2>2, <3>1, <5>1
        <4>2. Passing(JournalLines(Messaged))' = Passing(told)
          BY <1>9, <2>6, <4>1 DEF Passing
        <4>3. QED
          BY <1>3, <1>9, <3>1, <4>1, <4>2 DEF JournalSent, Journal!ChildGone
      <3>2. CASE HasRoom /\ batcher' # "running"
        <4>1. /\ JournalLines(Messaged') = more /\ batcher' = "done" /\ rest = <<>>
              /\ \A p \in Journal!Pipes : pump[p] # "reading"
          BY <1>9, <2>2, <3>2
        <4>2. Passing(told) = more
          BY <2>6, <4>1
        <4>3. ASSUME NEW p \in Journal!Pipes
              PROVE  From(p, more) = Upto(p, pumped[p]) /\ pumped[p] \in Nat
          BY <1>1, <1>3, <1>9, <4>2 DEF JournalSent
        <4>4. ASSUME NEW p \in Journal!Pipes
              PROVE  /\ Len(From(p, more)) = pumped[p]
                     /\ \A n \in 1 .. Len(From(p, more)) : From(p, more)[n] = <<p, n>>
          BY <4>3 DEF Upto
        <4>5. InOrder(more)
          BY <4>4 DEF InOrder
        <4>6. QED
          BY <1>3, <1>9, <2>2, <3>2, <4>1, <4>4, <4>5 DEF JournalSent, Journal!ChildGone
      <3>3. CASE ~HasRoom
        <4>1. JournalLines(Messaged)' = told /\ refused' = TRUE /\ batcher' = "done"
          BY <1>9, <2>2, <3>3
        <4>2. QED
          BY <1>8, <1>9, <4>1 DEF JournalSent
      <3>4. QED
        BY <3>1, <3>2, <3>3
    <2>8. QED
      BY <2>3, <2>4, <2>5, <2>7 DEF JournalInv
  <1>10. ASSUME UNCHANGED <<pumped, pump, channel, buf, batcher>>, UNCHANGED outgoing,
                \A p \in Journal!Pipes :
                   (pump[p] = "done" /\ pumped[p] = printed[p] /\ Journal!ChildGone) =>
                      printed'[p] = printed[p] /\ Journal!ChildGone',
                JournalUnborn(told)', supervisor = "done" => supervisor' = "done"
         PROVE  JournalInv' /\ VoiceInv'
    <2>1. told' = told /\ refused' = refused /\ Passing(told)' = Passing(told)
      BY <1>5, <1>10 DEF Passing
    <2>2. JournalSent(told, refused)'
      BY <1>3, <1>10, <2>1 DEF JournalSent
    <2>3. QED
      BY <1>6, <1>10, <2>2
  <1>11. CASE (\E p \in Journal!Pipes : Journal!ChildPrints(p)) \/ Journal!ChildExits
    <2>1. /\ child = "running" /\ child' \in {"running", "exited"}
          /\ UNCHANGED <<pumped, pump, channel, buf, batcher, supervisor, outgoing>>
      BY <1>11 DEF Journal!ChildPrints, Journal!ChildExits, Journal!outgoing, outgoing
    <2>2. told' = told
      BY <1>5, <2>1
    <2>3. JournalUnborn(told)'
      BY <1>3, <2>1, <2>2 DEF JournalUnborn
    <2>4. ~Journal!ChildGone
      BY <2>1 DEF Journal!ChildGone
    <2>5. QED
      BY <1>10, <2>1, <2>3, <2>4
  <1>12. CASE Journal!Request \/ Journal!SpawnChild \/ Journal!SpawnFails
    <2>1. /\ supervisor \in {"idle", "spawn"} /\ supervisor' \in {"spawn", "child", "end"}
          /\ supervisor' = "child" => child' = "running"
          /\ supervisor' # "child" => child' = child
          /\ UNCHANGED <<printed, pumped, pump, channel, buf, batcher, outgoing>>
      BY <1>12 DEF Journal!Request, Journal!Idle, Journal!SpawnChild, Journal!SpawnFails,
                   Journal!process, Journal!outgoing, outgoing
    <2>2. child = "none" /\ told' = told
      BY <1>3, <1>5, <2>1 DEF JournalUnborn
    <2>3. JournalUnborn(told)'
      BY <1>3, <2>1, <2>2 DEF JournalUnborn
    <2>4. ~Journal!ChildGone
      BY <2>2 DEF Journal!ChildGone
    <2>5. QED
      BY <1>10, <2>1, <2>3, <2>4
  <1>13. CASE Journal!Supervise \/ Journal!Abort
    <2>1. /\ UNCHANGED <<printed, pumped, pump, channel, buf, batcher, outgoing>>
          /\ \/ child' = child /\ supervisor \notin {"idle", "spawn", "done"}
                /\ \/ supervisor' \in {"stdout", "stderr", "batcher"}
                   \/ supervisor' = "end" /\ batcher = "done"
             \/ supervisor # "done" /\ supervisor' = "aborted"
                /\ child' = IF child = "running" THEN "killed" ELSE child
      BY <1>13 DEF Journal!Supervise, Journal!Await, Journal!Abort, Journal!process,
                   Journal!outgoing, outgoing
    <2>2. told' = told
      BY <1>5, <2>1
    <2>3. JournalUnborn(told)'
      BY <1>3, <2>1, <2>2 DEF JournalUnborn
    <2>4. Journal!ChildGone => Journal!ChildGone'
      BY <2>1 DEF Journal!ChildGone
    <2>5. QED
      BY <1>10, <2>1, <2>3, <2>4
  <1>14. ASSUME NEW p \in Journal!Pipes, Journal!PumpLine(p)
         PROVE  JournalInv' /\ VoiceInv'
    <2> DEFINE x == <<p, pumped[p] + 1>>
    <2>1. /\ pump[p] = "reading" /\ pumped[p] < printed[p]
          /\ pumped' = [pumped EXCEPT ![p] = @ + 1] /\ pumped'[p] = pumped[p] + 1
          /\ IF batcher = "running" THEN channel' = Append(channel, <<p, pumped'[p]>>) /\ UNCHANGED pump
             ELSE pump' = [pump EXCEPT ![p] = "done"] /\ UNCHANGED channel
          /\ UNCHANGED <<child, printed, buf, batcher, supervisor>> /\ UNCHANGED outgoing
      BY <1>1, <1>14 DEF Journal!PumpLine, Journal!process, Journal!outgoing, outgoing
    <2>2. told' = told /\ refused' = refused
      BY <1>5, <2>1
    <2>3. child # "none"
      <3>1. pumped[p] \in Nat /\ printed[p] \in Nat
        BY <1>1
      <3>2. QED
        BY <1>3, <2>1, <3>1 DEF JournalUnborn
    <2>4. JournalUnborn(told)'
      BY <1>3, <2>1, <2>2, <2>3 DEF JournalUnborn
    <2>5. CASE batcher # "running"
      <3>1. refused /\ batcher = "done"
        BY <1>1, <1>3, <2>1, <2>5 DEF JournalSent
      <3>2. JournalSent(told, refused)'
        BY <1>3, <2>1, <2>2, <3>1 DEF JournalSent
      <3>3. QED
        BY <1>6, <2>1, <2>4, <3>2
    <2>6. CASE batcher = "running"
      <3>1. pumped[p] \in 0 .. MaxLines /\ pumped[p] + 1 \in 1 .. MaxLines /\ x \in All
        BY <1>1, <2>1 DEF Journal!Lines
      <3>2. Passing(told)' = Append(Passing(told), x)
        <4> DEFINE front == told \o buf
        <4>1. channel' = Append(channel, x)
          BY <2>1, <2>6
        <4>2. front \in Seq(All)
          BY <1>1, <1>2, ConcatProperties
        <4>3. channel \in Seq(All)
          BY <1>1
        <4> HIDE DEF x, front
        <4>4. front \o Append(channel, x) = Append(front \o channel, x)
          <5>1. x \in All
            BY <3>1
          <5>2. QED
            BY <4>2, <4>3, <5>1, AppendOfConcat
        <4>5. Passing(told)' = front \o channel'
          BY <2>1, <2>2 DEF Passing, front
        <4>6. Append(Passing(told), x) = Append(front \o channel, x)
          BY DEF Passing, front
        <4>7. QED
          BY <4>1, <4>4, <4>5, <4>6
      <3>3. ASSUME NEW q \in Journal!Pipes
            PROVE  From(q, Passing(told)') = Upto(q, pumped'[q])
        <4>1. From(q, Passing(told)) = Upto(q, pumped[q])
          BY <1>3, <2>6 DEF JournalSent
        <4>2. From(q, Append(Passing(told), x)) = IF x \in LinesFrom(q)
                                                  THEN Append(From(q, Passing(told)), x)
                                                  ELSE From(q, Passing(told))
          <5> DEFINE all == Passing(told)
          <5>1. all \in Seq(All) /\ x \in All
            BY <1>7, <3>1
          <5> HIDE DEF x, all
          <5>2. Kept(Append(all, x), LinesFrom(q)) = IF x \in LinesFrom(q)
                                                     THEN Append(Kept(all, LinesFrom(q)), x)
                                                     ELSE Kept(all, LinesFrom(q))
            BY <5>1, KeptAppend
          <5>3. QED
            BY <5>2 DEF From, all
        <4>3. CASE q = p
          <5>1. x \in LinesFrom(q)
            BY <3>1, <4>3 DEF LinesFrom
          <5>2. Upto(p, pumped[p] + 1) = Append(Upto(p, pumped[p]), x)
            BY <3>1, UptoMore
          <5> HIDE DEF x
          <5>3. QED
            BY <2>1, <3>2, <4>1, <4>2, <4>3, <5>1, <5>2
        <4>4. CASE q # p
          <5>1. x \notin LinesFrom(q) /\ pumped'[q] = pumped[q]
            BY <1>1, <2>1, <4>4 DEF LinesFrom
          <5> HIDE DEF x
          <5>2. QED
            BY <3>2, <4>1, <4>2, <5>1
        <4>5. QED
          BY <4>3, <4>4
      <3>4. ASSUME NEW q \in Journal!Pipes, pump'[q] = "done"
            PROVE  pumped'[q] = printed'[q] /\ Journal!ChildGone'
        <4>1. pump[q] = "done" /\ q # p
          BY <2>1, <2>6, <3>4
        <4>2. pumped'[q] = pumped[q] /\ printed' = printed
          BY <1>1, <2>1, <4>1
        <4>3. QED
          BY <1>3, <2>1, <2>6, <4>1, <4>2 DEF JournalSent, Journal!ChildGone
      <3>5. batcher' = "running"
        BY <2>1, <2>6
      <3>6. JournalSent(told, refused)'
        BY <3>3, <3>4, <3>5 DEF JournalSent
      <3>7. QED
        BY <1>6, <2>1, <2>4, <3>6
    <2>7. QED
      BY <2>5, <2>6
  <1>15. ASSUME NEW p \in Journal!Pipes, Journal!PumpEof(p) \/ Journal!PumpFails(p)
         PROVE  JournalInv' /\ VoiceInv'
    <2>1. /\ pump[p] = "reading" /\ child # "none"
          /\ \/ Journal!ChildGone /\ pumped[p] = printed[p] /\ pump' = [pump EXCEPT ![p] = "done"]
             \/ pump' = [pump EXCEPT ![p] = "failed"]
          /\ UNCHANGED <<child, printed, pumped, channel, buf, batcher, supervisor>>
          /\ UNCHANGED outgoing
      BY <1>15 DEF Journal!PumpEof, Journal!PumpFails, Journal!ChildGone, Journal!process,
                   Journal!outgoing, outgoing
    <2>2. told' = told /\ refused' = refused /\ Passing(told)' = Passing(told)
      BY <1>5, <2>1 DEF Passing
    <2>3. JournalUnborn(told)'
      BY <1>3, <2>1, <2>2 DEF JournalUnborn
    <2>4. \A q \in Journal!Pipes :
             pump'[q] = "done" =>
                pump[q] = "done" \/ (q = p /\ Journal!ChildGone /\ pumped[p] = printed[p])
      BY <1>1, <2>1
    <2>5. \A q \in Journal!Pipes : pump[q] # "reading" => pump'[q] # "reading"
      BY <1>1, <2>1
    <2>6. JournalSent(told, refused)'
      BY <1>3, <2>1, <2>2, <2>4, <2>5 DEF JournalSent, Journal!ChildGone
    <2>7. QED
      BY <1>6, <2>1, <2>3, <2>6
  <1>16. CASE Journal!TakeLine
    <2> DEFINE h == Head(channel)
               lines == Append(buf, h)
               rest == Tail(channel)
    <2>1. /\ batcher = "running" /\ channel # <<>> /\ channel' = rest
          /\ \/ Journal!Flush(lines)
             \/ buf' = lines /\ UNCHANGED batcher /\ UNCHANGED outgoing
          /\ UNCHANGED <<child, printed, pumped, pump, supervisor>>
      BY <1>16 DEF Journal!TakeLine, Journal!process, Journal!outgoing, outgoing
    <2>2. rest \in Seq(All) /\ h \in All /\ channel = <<h>> \o rest
      BY <1>1, <2>1, HeadTailProperties
    <2>3. lines \in Seq(All) /\ (told \o lines) \o rest = Passing(told)
      <3> HIDE DEF h, rest
      <3>1. buf \in Seq(All)
        BY <1>1
      <3>2. lines \in Seq(All)
        BY <2>2, <3>1, AppendProperties
      <3>3. (told \o buf) \o (<<h>> \o rest) = (told \o lines) \o rest
        <4>1. h \in All
          BY <2>2
        <4>2. rest \in Seq(All)
          BY <2>2
        <4>3. QED
          BY <1>2, <3>1, <4>1, <4>2, PassingTakes
      <3>4. QED
        BY <2>2, <3>2, <3>3 DEF Passing
    <2> HIDE DEF lines, rest
    <2>4. child # "none"
      BY <1>3, <2>1 DEF JournalUnborn
    <2>5. CASE Journal!Flush(lines)
      <3>1. Send(Journal!Chunk(lines)) /\ buf' = <<>>
            /\ batcher' = IF HasRoom THEN batcher ELSE "done"
        BY <2>5, SendsAreOne DEF Journal!Flush, Journal!HasRoom, HasRoom
      <3>2. QED
        BY <1>9, <2>1, <2>2, <2>3, <2>4, <3>1
    <2>6. CASE buf' = lines /\ UNCHANGED batcher /\ UNCHANGED outgoing
      <3>1. told' = told /\ refused' = refused /\ Passing(told)' = Passing(told)
        BY <1>5, <2>1, <2>3, <2>6 DEF Passing
      <3>2. JournalUnborn(told)'
        BY <1>3, <2>1, <2>4, <2>6, <3>1 DEF JournalUnborn
      <3>3. JournalSent(told, refused)'
        BY <1>3, <2>1, <2>6, <3>1 DEF JournalSent, Journal!ChildGone
      <3>4. QED
        BY <1>6, <2>1, <2>6, <3>2, <3>3
    <2>7. QED
      BY <2>1, <2>5, <2>6
  <1>17. CASE Journal!Tick
    <2>1. /\ batcher = "running" /\ buf # <<>> /\ Send(Journal!Chunk(buf)) /\ buf' = <<>>
          /\ batcher' = (IF HasRoom THEN batcher ELSE "done")
          /\ UNCHANGED <<child, printed, pumped, pump, channel, supervisor>>
      BY <1>17, SendsAreOne
         DEF Journal!Tick, Journal!Flush, Journal!process, Journal!HasRoom, HasRoom
    <2>2. child # "none"
      BY <1>3, <2>1 DEF JournalUnborn
    <2>3. (told \o buf) \o channel = Passing(told)
      BY DEF Passing
    <2>4. QED
      BY <1>1, <1>9, <2>1, <2>2, <2>3
  <1>18. CASE Journal!LastFlush
    <2>1. /\ batcher = "running" /\ channel = <<>> /\ batcher' = "done" /\ buf' = <<>>
          /\ \A p \in Journal!Pipes : pump[p] # "reading"
          /\ IF buf = <<>> THEN UNCHANGED outgoing ELSE Send(Journal!Chunk(buf))
          /\ UNCHANGED <<child, printed, pumped, pump, channel, supervisor>>
      BY <1>18, SendsAreOne
         DEF Journal!LastFlush, Journal!SendersGone, Journal!process, Journal!outgoing, outgoing
    <2>2. child # "none"
      <3>1. "stdout" \in Journal!Pipes
        BY DEF Journal!Pipes
      <3>2. QED
        BY <1>3, <2>1, <3>1 DEF JournalUnborn
    <2>3. CASE buf # <<>>
      <3>1. Send(Journal!Chunk(buf)) /\ (told \o buf) \o channel = Passing(told)
        BY <2>1, <2>3 DEF Passing
      <3>2. QED
        BY <1>1, <1>9, <2>1, <2>2, <3>1
    <2>4. CASE buf = <<>>
      <3>1. UNCHANGED outgoing /\ told' = told /\ refused' = refused
        BY <1>5, <2>1, <2>4
      <3>2. Passing(told) = told
        BY <1>2, <2>1, <2>4, ConcatEmptySeq DEF Passing
      <3>3. ASSUME NEW p \in Journal!Pipes
            PROVE  From(p, told) = Upto(p, pumped[p]) /\ pumped[p] \in Nat
        BY <1>1, <1>3, <2>1, <3>2 DEF JournalSent
      <3>4. ASSUME NEW p \in Journal!Pipes PROVE Len(From(p, told)) = pumped[p]
        BY <3>3 DEF Upto
      <3>5. JournalSent(told, refused)'
        BY <1>3, <1>8, <2>1, <3>1, <3>4 DEF JournalSent, Journal!ChildGone
      <3>6. JournalUnborn(told)'
        BY <1>3, <2>1, <2>2, <3>1 DEF JournalUnborn
      <3>7. QED
        BY <1>6, <2>1, <3>1, <3>5, <3>6
    <2>5. QED
      BY <2>3, <2>4
  <1>19. CASE Journal!SendEnd
    <2> DEFINE m == PodLog!End
    <2>1. /\ supervisor = "end" /\ supervisor' = "done" /\ Send(m)
          /\ UNCHANGED <<child, printed, pumped, pump, channel, buf, batcher>>
      BY <1>19, SendsAreOne DEF Journal!SendEnd, Journal!process, Journal!End, PodLog!End
    <2>2. m \in Own /\ m \in Voice("journal") /\ m \in Messages /\ m.type = "end"
      BY DEF Messages, Own, Voice, PodLog!End
    <2>3. /\ Messaged' = IF HasRoom THEN Append(Messaged, m) ELSE Messaged
          /\ refused' = (refused \/ ~HasRoom)
      <3> HIDE DEF m
      <3>1. QED
        BY <1>1, <2>1, <2>2, MessagedSend
    <2>4. VoiceInv'
      <3> DEFINE T == {m}
      <3>1. T \in SUBSET Own /\ T \subseteq Voice(running)
        BY <2>2
      <3>2. Speaks(T)
        BY <2>1 DEF Speaks
      <3> HIDE DEF T, m
      <3>3. QED
        BY <1>1, <3>1, <3>2, VoiceKeeps
    <2>5. JournalEnd(Messaged)'
      <3>1. NoEnd(Messaged)
        BY <1>4, <2>1
      <3>2. EndLast(Messaged) /\ EndLast(Append(Messaged, m))
        BY <1>1, <2>2, <3>1, EndsAppend
      <3> HIDE DEF m
      <3>3. QED
        BY <2>1, <2>3, <3>2 DEF JournalEnd
    <2>6. JournalLines(Messaged') = told
      <3>1. JournalLines(Append(Messaged, m)) = told
        <4> HIDE DEF m
        <4>1. JournalLines(Append(Messaged, m)) = IF m.type = "chunk"
                                                  THEN JournalLines(Messaged) \o m.lines
                                                  ELSE JournalLines(Messaged)
          BY <1>1, <2>2, LinesTold
        <4>2. QED
          BY <2>2, <4>1 DEF told
      <3> HIDE DEF m
      <3>2. QED
        BY <2>3, <3>1 DEF told
    <2>7. JournalSent(JournalLines(Messaged), refused)'
      <3>1. Passing(JournalLines(Messaged))' = Passing(told)
        BY <2>1, <2>6 DEF Passing
      <3>2. refused => refused'
        BY <2>3
      <3>3. QED
        BY <1>3, <2>1, <2>6, <3>1, <3>2 DEF JournalSent, Journal!ChildGone
    <2>8. JournalUnborn(JournalLines(Messaged))'
      BY <1>3, <2>1, <2>6 DEF JournalUnborn
    <2>9. QED
      BY <2>4, <2>5, <2>7, <2>8 DEF JournalInv
  <1>20. QED
    BY <1>11, <1>12, <1>13, <1>14, <1>15, <1>16, <1>17, <1>18, <1>19
       DEF Journal!Next, Journal!Pump, Journal!Batch

-----------------------------------------------------------------------------
(* All of it together.                                                      *)

StreamsInv == VoiceInv /\ PodInv /\ JournalInv

LEMMA StreamsStep == TypesInv /\ StreamsInv /\ [Next]_vars => StreamsInv'
  <1> SUFFICES ASSUME TypesInv, StreamsInv, [Next]_vars
               PROVE  StreamsInv'
    OBVIOUS
  <1>1. QueueTypes /\ VoiceInv /\ PodInv /\ JournalInv /\ running' = running
    BY Turns DEF TypesInv, StreamsInv
  <1>2. ASSUME UNCHANGED podTask, Resting \/ running # "pod"
        PROVE  PodInv'
    BY <1>1, <1>2 DEF PodInv, PodSent, PodEnd, PodWhole, podTask, Resting
  <1>3. ASSUME UNCHANGED journalTask, Resting \/ running # "journal"
        PROVE  JournalInv'
    <2>1. CASE running # "journal"
      BY <1>1, <1>3, <2>1 DEF JournalInv, journalTask
    <2>2. CASE running = "journal"
      <3>1. Messaged' = Messaged /\ refused' = refused
        BY <1>3, <2>2 DEF Resting
      <3> DEFINE told == JournalLines(Messaged)
      <3>2. JournalSent(told, refused) /\ JournalUnborn(told) /\ JournalEnd(Messaged)
        BY <1>1, <2>2 DEF JournalInv
      <3>3. told' = told
        BY <3>1
      <3> HIDE DEF told
      <3>4. JournalSent(told, refused)'
        BY <1>3, <3>1, <3>2, <3>3
           DEF JournalSent, Passing, InOrder, Journal!ChildGone, journalTask
      <3>5. JournalUnborn(told)' /\ JournalEnd(Messaged)'
        BY <1>3, <3>1, <3>2, <3>3 DEF JournalUnborn, JournalEnd, journalTask
      <3>6. QED
        BY <1>1, <2>2, <3>4, <3>5 DEF JournalInv, told
    <2>3. QED
      BY <2>1, <2>2
  <1>4. CASE running = "journal" /\ Journal!Next
    <2>1. PodInv'
      BY <1>2, <1>4, Turns
    <2>2. QED
      BY <1>1, <1>4, <2>1, JournalStep DEF StreamsInv
  <1>5. CASE running = "pod" /\ PodLog!Next
    <2>1. JournalInv'
      BY <1>3, <1>5, Turns
    <2>2. QED
      BY <1>1, <1>5, <2>1, PodStep DEF StreamsInv
  <1>6. CASE /\ ~(running = "journal" /\ Journal!Next)
             /\ ~(running = "pod" /\ PodLog!Next)
    <2>1. PodInv' /\ JournalInv'
      BY <1>2, <1>3, <1>6, Turns
    <2>2. CASE DeliverOne \/ OtherSend \/ UNCHANGED vars
      <3>1. DeliverOne \/ OtherSend \/ UNCHANGED outgoing
        BY <2>2 DEF vars
      <3>2. Messaged' = Messaged
        BY <1>1, <3>1, MessagedRests
      <3>3. QED
        BY <1>1, <2>1, <3>2 DEF StreamsInv, VoiceInv
    <2>3. CASE ~(DeliverOne \/ OtherSend \/ UNCHANGED vars)
      <3>1. \/ Exec!Next \/ Probe!Next \/ Backup!Next \/ Restoring!Next
            \/ Apply!Next \/ Session!Next \/ Prune!Next \/ Announce!Next
        BY <1>6, <2>3 DEF Next
      <3>2. Speaks(Talk)
        BY <3>1, TasksTalk
      <3>3. VoiceInv'
        BY <1>1, <3>2, TalkIsOwn, VoiceKeeps
      <3>4. QED
        BY <2>1, <3>3 DEF StreamsInv
    <2>4. QED
      BY <2>2, <2>3
  <1>7. QED
    BY <1>4, <1>5, <1>6

LEMMA LogsTold == TypesInv /\ StreamsInv => LogsAreWhole
  <1> SUFFICES ASSUME TypesInv, StreamsInv
               PROVE  LogsAreWhole
    OBVIOUS
  <1> DEFINE told == JournalLines(Messaged)
             lines == PodLines(Messaged)
  <1>1. QueueTypes /\ VoiceInv /\ PodInv /\ JournalInv
    BY DEF TypesInv, StreamsInv
  <1>2. /\ PodLog!SentLines = lines /\ PodLog!Messaged = Messaged
        /\ Journal!Messaged = Messaged /\ Journal!End = PodLog!End
        /\ \A p : Journal!SentFrom(p) = From(p, told)
    BY <1>1, LinesBridge DEF Journal!End, PodLog!End
  <1>3. ASSUME NEW p, told = <<>> PROVE From(p, told) = <<>> /\ Len(From(p, told)) = 0
    BY <1>3, KeptTyped, EmptySeq DEF From
  <1>4. Journal!ChunksInOrder
    <2>1. CASE running = "journal"
      <3>1. InOrder(told)
        BY <1>1, <2>1, JournalOrdered
      <3>2. QED
        BY <1>2, <3>1 DEF Journal!ChunksInOrder, InOrder
    <2>2. CASE running # "journal"
      <3>1. told = <<>>
        BY <1>1, <2>2, VoicesSilent
      <3> HIDE DEF told
      <3>2. \A p : Len(Journal!SentFrom(p)) = 0
        BY <1>2, <1>3, <3>1
      <3>3. QED
        BY <3>2 DEF Journal!ChunksInOrder
    <2>3. QED
      BY <2>1, <2>2
  <1>5. PodLog!ChunksInOrder
    <2>1. CASE running = "pod"
      <3>1. Ordered(lines)
        BY <1>1, <2>1 DEF PodInv, PodSent
      <3>2. QED
        BY <1>2, <3>1 DEF PodLog!ChunksInOrder, Ordered
    <2>2. CASE running # "pod"
      <3>1. Len(lines) = 0
        BY <1>1, <2>2, VoicesSilent, EmptySeq
      <3>2. QED
        BY <1>2, <3>1 DEF PodLog!ChunksInOrder
    <2>3. QED
      BY <2>1, <2>2
  <1>6. EndLast(Messaged)
    <2>1. CASE running = "journal"
      BY <1>1, <2>1 DEF JournalInv, JournalEnd
    <2>2. CASE running = "pod"
      BY <1>1, <2>2 DEF PodInv, PodEnd
    <2>3. CASE running \notin {"journal", "pod"}
      BY <1>1, <2>3, VoicesSilent DEF EndLast, EndMessages, PodLog!End, PodLog!FailedEnd
    <2>4. QED
      BY <2>1, <2>2, <2>3
  <1>7. Journal!EndIsLast
    BY <1>2, <1>6 DEF Journal!EndIsLast, EndLast, EndMessages
  <1>8. Journal!EndMeansComplete
    <2>1. ASSUME supervisor = "done", ~refused, NEW p \in Journal!Pipes
          PROVE  /\ Len(From(p, told)) = pumped[p]
                 /\ pump[p] # "failed" => pumped[p] = printed[p]
      <3>1. /\ running = "journal" /\ JournalSent(told, refused) /\ JournalUnborn(told)
        BY <1>1, <2>1 DEF JournalInv
      <3>2. CASE batcher = "done"
        <4>1. pump[p] \in {"reading", "done", "failed"}
          BY DEF TypesInv, JournalTypes, Journal!TypeOK
        <4>2. QED
          BY <2>1, <3>1, <3>2, <4>1 DEF JournalSent
      <3>3. CASE child = "none"
        <4>1. told = <<>> /\ pumped[p] = 0 /\ printed[p] = 0
          BY <3>1, <3>3 DEF JournalUnborn
        <4> HIDE DEF told
        <4>2. QED
          BY <1>3, <4>1
      <3>4. QED
        BY <2>1, <3>1, <3>2, <3>3 DEF JournalUnborn
    <2>2. QED
      BY <1>2, <2>1 DEF Journal!EndMeansComplete
  <1>9. PodLog!EndMeansComplete
    <2>1. ASSUME NEW i \in 1 .. Len(Messaged), Messaged[i] = PodLog!End, ~refused
          PROVE  Len(lines) = logged
      <3>1. CASE running = "pod"
        BY <1>1, <2>1, <3>1 DEF PodInv, PodWhole, NotOver
      <3>2. CASE running # "pod"
        BY <1>1, <3>2, VoicesSilent, EmptySeq DEF PodInv
      <3>3. QED
        BY <3>1, <3>2
    <2>2. QED
      BY <1>2, <1>6, <2>1 DEF PodLog!EndMeansComplete, EndLast, EndMessages
  <1>10. PodLog!EndUnlessRefused
    <2>1. ASSUME reading = "returned", ~refused PROVE ~NoEnd(Messaged)
      BY <1>1, <2>1 DEF PodInv, PodEnd
    <2>2. QED
      BY <1>2, <2>1 DEF PodLog!EndUnlessRefused, NoEnd, EndMessages
  <1>11. QED
    BY <1>4, <1>5, <1>7, <1>8, <1>9, <1>10 DEF LogsAreWhole

LEMMA MessagesBegin == Init => AnnounceInv /\ ProbeInv /\ SessionInv /\ StreamsInv
  <1> SUFFICES ASSUME Init
               PROVE  AnnounceInv /\ ProbeInv /\ SessionInv /\ StreamsInv
    OBVIOUS
  <1>1. /\ OutgoingInit /\ Journal!Init /\ PodLog!Init /\ Probe!Init /\ Session!Init
        /\ Announce!Init /\ QueueTypes
    BY TypesBegin DEF Init, TypesInv
  <1>2. Messaged = <<>>
    <2>1. Kept(<<>>, Own) = <<>> /\ delivered = <<>> /\ queue = <<>>
      BY <1>1, KeptTyped, EmptySeq DEF OutgoingInit
    <2>2. <<>> \o <<>> = <<>>
      BY EmptySeq, ConcatEmptySeq
    <2>3. QED
      BY <1>1, <2>1, <2>2, MessagedTyped
  <1>3. \A T : Kept(Messaged, T) = <<>>
    BY <1>2, KeptTyped, EmptySeq
  <1>4. JournalLines(Messaged) = <<>> /\ PodLines(Messaged) = <<>>
    <2>1. [i \in 1 .. Len(<<>>) |-> <<>>[i].lines] = <<>>
      BY EmptySeq
    <2>2. LinesOf(<<>>) = <<>>
      BY <2>1 DEF LinesOf, Flatten
    <2>3. QED
      BY <1>3, <2>2 DEF JournalLines, PodLines
  <1>5. Len(<<>>) = 0 /\ NoEnd(Messaged) /\ EndLast(Messaged) /\ NotOver(Messaged)
    BY <1>2, EmptySeq DEF NoEnd, EndLast, NotOver
  <1>6. AnnounceInv
    BY <1>1 DEF AnnounceInv, Announce!Init
  <1>7. ProbeInv
    <2>1. /\ received = <<>> /\ pending = {}
          /\ \A i \in ProbeIds : probes[i] = <<>> /\ tasks[i] = 0
      BY <1>1 DEF Probe!Init
    <2>2. DOMAIN <<>> = {}
      BY EmptySeq
    <2>3. Probe!RunningIsMapped /\ Probe!LastSetRuns
      BY <2>1, <2>2 DEF Probe!RunningIsMapped, Probe!LastSetRuns, Probe!Idle
    <2>4. \A i \in ProbeIds : ToldOn(i)
      BY <2>1 DEF ToldOn
    <2>5. QED
      BY <2>1, <2>3, <2>4 DEF ProbeInv, ProbeMap
  <1>8. SessionInv
    <2>1. sessions = <<>> /\ DOMAIN <<>> = {}
      BY <1>1, EmptySeq DEF Session!Init
    <2>2. QED
      BY <1>3, <2>1 DEF SessionInv, SaidBy
  <1>9. VoiceInv
    BY <1>2, EmptySeq DEF VoiceInv
  <1>10. PodInv
    <2>1. reading = "idle" /\ taken = 0 /\ logged = 0 /\ held = <<>>
      BY <1>1 DEF PodLog!Init
    <2>2. QED
      BY <1>2, <1>4, <1>5, <2>1 DEF PodInv, PodSent, PodEnd, PodWhole, Ordered
  <1>11. JournalInv
    <2>1. /\ child = "none" /\ channel = <<>> /\ buf = <<>> /\ batcher = "running"
          /\ supervisor = "idle"
          /\ \A p \in Journal!Pipes : printed[p] = 0 /\ pumped[p] = 0 /\ pump[p] = "reading"
      BY <1>1 DEF Journal!Init
    <2>2. ASSUME NEW p \in Journal!Pipes PROVE From(p, Passing(<<>>)) = Upto(p, pumped[p])
      <3>1. Passing(<<>>) = <<>>
        BY <2>1, EmptySeq, ConcatEmptySeq DEF Passing
      <3>2. From(p, <<>>) = <<>>
        BY KeptTyped, EmptySeq DEF From
      <3>3. Upto(p, 0) = <<>>
        BY DEF Upto
      <3>4. QED
        BY <2>1, <3>1, <3>2, <3>3
    <2>3. JournalSent(<<>>, refused)
      BY <2>1, <2>2 DEF JournalSent
    <2>4. JournalUnborn(<<>>)
      BY <2>1 DEF JournalUnborn
    <2>5. QED
      BY <1>4, <1>5, <2>1, <2>3, <2>4 DEF JournalInv, JournalEnd
  <1>12. QED
    BY <1>6, <1>7, <1>8, <1>9, <1>10, <1>11 DEF StreamsInv

\* The messages agree with the state of the task that sent them.
THEOREM MessageInvariance == Spec => [](AnnounceInv /\ ProbeInv /\ SessionInv /\ StreamsInv)
  <1>1. Spec => Init /\ [][Next]_vars
    BY DEF Spec
  <1>2. QED
    BY <1>1, TypeInvariance, MessagesBegin, AnnounceStep, ProbeStep, SessionStep, StreamsStep, PTL

\* Of each source of a log stream the server has a prefix, and End is the last
\* message.  Unless something was refused it comes after every line that was read,
\* and after every line of a source whose reading did not fail.
THEOREM LogsWhole == Spec => []LogsAreWhole
  BY TypeInvariance, MessageInvariance, LogsTold, PTL

\* The probes that run are those of the map and, unless syncs overlapped, those
\* of the last set asked for.
THEOREM ProbesMapped == Spec => []ProbesMatch
  <1>1. ProbeInv => ProbesMatch
    BY DEF ProbeInv, ProbeMap, ProbesMatch
  <1>2. QED
    BY <1>1, MessageInvariance, PTL

\* What a probe or the capabilities task takes for told is what the server was
\* told last, unless the queue refused it.
THEOREM ToldRemembered == Spec => []ToldIsRemembered
  <1>1. TypesInv /\ ProbeInv /\ AnnounceInv => ToldIsRemembered
    BY ProbeTold, AnnounceTold DEF TypesInv, ToldIsRemembered
  <1>2. QED
    BY <1>1, TypeInvariance, MessageInvariance, PTL

\* The banner of a pod session comes once, at its end, and after all of its
\* output unless the queue refused a piece.
THEOREM BannersLast == Spec => []BannerIsLast
  <1>1. TypesInv /\ SessionInv => BannerIsLast
    BY BannerTold DEF TypesInv
  <1>2. QED
    BY <1>1, TypeInvariance, MessageInvariance, PTL
=============================================================================
