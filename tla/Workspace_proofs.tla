-------------------------- MODULE Workspace_proofs --------------------------
(***************************************************************************)
(* The sites and configurations keep what they hold, for any site IDs,     *)
(* archives and numbers of sites, configurations and edits: whatever is    *)
(* selected, made, renamed, deleted or imported.  And what is done to a    *)
(* workspace of an older build is right, and done once, for any rooms,     *)
(* modules, scenes, rows, users, keys and hashes, and any table that       *)
(* leaves room (MigrationAssumption).                                      *)
(*                                                                         *)
(* Every operation makes a view and puts it back through the tree          *)
(* (SetData).  The proofs look at the sets of sites and configurations and *)
(* not at their order: what Canonical and Materialized make of them is     *)
(* said once (SetDataView), and each operation is then one lemma about     *)
(* sets.  The recursive definitions exist and have the elements they       *)
(* should by the least-number principle, those of the migrations too,      *)
(* which are walked through step by step with an invariant each.           *)
(***************************************************************************)
EXTENDS Sites, Migrations, Integers, SequenceTheorems, FiniteSetTheorems,
        WellFoundedInduction, TLAPS

-----------------------------------------------------------------------------
(* Numbers and recursion *)

Less == {p \in Nat \X Nat : p[1] < p[2]}

\* Every set of numbers has a smallest one.
LEMMA Smallest ==
    ASSUME NEW T \in SUBSET Nat, T # {}
    PROVE  \E m \in T : \A n \in T : m <= n
<1>1. IsWellFoundedOn(Less, Nat)
  BY NatLessThanWellFounded DEF OpToRel, Less
<1>2. PICK m \in T : \A n \in T : ~(<<n, m>> \in Less)
  BY <1>1, WFMin
<1>3. \A n \in T : ~(n < m)
  BY <1>2 DEF Less
<1> QED BY <1>3

\* Induction up to N, for a set of numbers.
LEMMA CountUp ==
    ASSUME NEW N \in Nat, NEW S, 0 \in S, \A n \in 1..N : n - 1 \in S => n \in S
    PROVE  \A n \in 0..N : n \in S
<1> DEFINE T == {n \in 0..N : n \notin S}
<1>1. T \in SUBSET Nat
  OBVIOUS
<1>2. ASSUME T # {} PROVE FALSE
  <2>1. PICK m \in T : \A n \in T : m <= n
    <3> HIDE DEF T
    <3> QED BY <1>1, <1>2, Smallest
  <2>2. m \in 1..N /\ m - 1 \in 0..N
    BY <2>1
  <2>3. m - 1 \notin T
    <3> HIDE DEF T
    <3> QED BY <2>1, <2>2
  <2> QED BY <2>1, <2>2, <2>3
<1> QED BY <1>2

\* Steps in R have a result after each number of them.
Steps(f, N, start, step) ==
    /\ f = [n \in 0..N |-> f[n]] /\ f[0] = start
    /\ \A n \in 1..N : f[n] = step[n][f[n - 1]]

LEMMA StepsExist ==
    ASSUME NEW N \in Nat, NEW start, NEW step
    PROVE  \E f : Steps(f, N, start, step)
<1> DEFINE S == {n \in 0..N : \E f : Steps(f, n, start, step)}
<1>1. 0 \in S
  <2>1. Steps([n \in 0..0 |-> start], 0, start, step)
    BY DEF Steps
  <2> QED BY <2>1
<1>2. ASSUME NEW n \in 1..N, n - 1 \in S PROVE n \in S
  <2>1. PICK g : Steps(g, n - 1, start, step)
    BY <1>2
  <2> DEFINE f == [k \in 0..n |-> IF k = n THEN step[n][g[n - 1]] ELSE g[k]]
  <2>2. \A k \in 0..n - 1 : f[k] = g[k]
    OBVIOUS
  <2>3. f[n] = step[n][g[n - 1]] /\ f = [k \in 0..n |-> f[k]]
    OBVIOUS
  <2> HIDE DEF f
  <2>4. f[0] = start
    BY <2>1, <2>2 DEF Steps
  <2>5. \A k \in 1..n : f[k] = step[k][f[k - 1]]
    <3> TAKE k \in 1..n
    <3>1. CASE k = n
      <4>1. n - 1 \in 0..n - 1
        OBVIOUS
      <4> QED BY <2>2, <2>3, <3>1, <4>1
    <3>2. CASE k # n
      <4>1. k \in 1..n - 1 /\ k \in 0..n - 1 /\ k - 1 \in 0..n - 1
        BY <3>2
      <4> QED BY <2>1, <2>2, <4>1 DEF Steps
    <3> QED BY <3>1, <3>2
  <2>6. Steps(f, n, start, step)
    BY <2>3, <2>4, <2>5 DEF Steps
  <2> QED BY <2>6
<1>3. N \in S
  <2> HIDE DEF S
  <2> QED BY <1>1, <1>2, CountUp
<1> QED BY <1>3

-----------------------------------------------------------------------------
(* Sequences and their elements *)

LEMMA ToSetIs == ASSUME NEW s PROVE \A x : x \in ToSet(s) <=> \E n \in DOMAIN s : x = s[n]
BY DEF ToSet

LEMMA AppendedSet ==
    ASSUME NEW T, NEW s \in Seq(T), NEW x \in T
    PROVE  Append(s, x) \in Seq(T) /\ ToSet(Append(s, x)) = ToSet(s) \cup {x}
<1>1. /\ Append(s, x) \in Seq(T) /\ DOMAIN Append(s, x) = 1..Len(s) + 1
      /\ \A n \in 1..Len(s) : Append(s, x)[n] = s[n]
      /\ Append(s, x)[Len(s) + 1] = x
  BY AppendProperties
<1>2. DOMAIN s = 1..Len(s) /\ Len(s) \in Nat
  OBVIOUS
<1>3. 1..Len(s) + 1 = 1..Len(s) \cup {Len(s) + 1}
  BY <1>2
<1> DEFINE t == Append(s, x)
<1> HIDE DEF t
<1>4. ToSet(t) = {t[n] : n \in 1..Len(s)} \cup {t[Len(s) + 1]}
  BY <1>1, <1>3 DEF t, ToSet
<1> QED BY <1>1, <1>2, <1>4 DEF t, ToSet

\* The first n elements.
FirstSet(s, n) == {s[k] : k \in 1..n}

LEMMA FirstSetIs ==
    ASSUME NEW T, NEW s \in Seq(T)
    PROVE  /\ FirstSet(s, 0) = {} /\ FirstSet(s, Len(s)) = ToSet(s)
           /\ \A n \in 1..Len(s) : FirstSet(s, n) = FirstSet(s, n - 1) \cup {s[n]}
<1>1. DOMAIN s = 1..Len(s) /\ Len(s) \in Nat
  OBVIOUS
<1>2. ASSUME NEW n \in 1..Len(s) PROVE FirstSet(s, n) = FirstSet(s, n - 1) \cup {s[n]}
  <2>1. 1..n = 1..n - 1 \cup {n}
    OBVIOUS
  <2> QED BY <2>1 DEF FirstSet
<1> QED BY <1>1, <1>2 DEF FirstSet, ToSet

OnlyOf(f, s, S) ==
    f = [n \in 0..Len(s) |->
           IF n = 0 THEN <<>>
           ELSE IF s[n] \in S THEN Append(f[n - 1], s[n]) ELSE f[n - 1]]

\* Only goes through the sequence element by element.
OnlySteps(g, T, s, S) ==
    /\ Only(s, S) = g[Len(s)] /\ g[0] = <<>>
    /\ \A n \in 1..Len(s) : g[n] = IF s[n] \in S THEN Append(g[n - 1], s[n]) ELSE g[n - 1]
    /\ \A n \in 0..Len(s) : g[n] \in Seq(T) /\ ToSet(g[n]) = FirstSet(s, n) \cap S

LEMMA OnlyStepped ==
    ASSUME NEW T, NEW s \in Seq(T), NEW S
    PROVE  \E g : OnlySteps(g, T, s, S)
<1> DEFINE N == Len(s)
           keep(n, acc) == IF s[n] \in S THEN Append(acc, s[n]) ELSE acc
           step == [n \in 1..N |-> [acc \in Seq(T) |-> keep(n, acc)]]
<1>1. N \in Nat /\ \A n \in 1..N : s[n] \in T
  OBVIOUS
<1>2. PICK g : Steps(g, N, <<>>, step)
  <2> HIDE DEF step
  <2> QED BY <1>1, StepsExist
<1> DEFINE Right == {n \in 0..N : g[n] \in Seq(T) /\ ToSet(g[n]) = FirstSet(s, n) \cap S}
<1>3. 0 \in Right
  <2>1. g[0] = <<>> /\ FirstSet(s, 0) = {}
    BY <1>2, FirstSetIs DEF Steps
  <2>2. <<>> \in Seq(T) /\ ToSet(<<>>) = {}
    BY DEF ToSet
  <2>3. g[0] \in Seq(T) /\ ToSet(g[0]) = FirstSet(s, 0) \cap S
    <3> HIDE DEF step
    <3> QED BY <2>1, <2>2
  <2> QED BY <1>1, <2>3
<1>4. ASSUME NEW n \in 1..N, g[n - 1] \in Seq(T)
      PROVE  g[n] = keep(n, g[n - 1])
  <2>1. g[n] = step[n][g[n - 1]]
    BY <1>2 DEF Steps
  <2> QED BY <1>4, <2>1
<1>5. ASSUME NEW n \in 1..N, n - 1 \in Right PROVE n \in Right
  <2>1. g[n - 1] \in Seq(T) /\ ToSet(g[n - 1]) = FirstSet(s, n - 1) \cap S
    BY <1>5
  <2>2. s[n] \in T /\ FirstSet(s, n) = FirstSet(s, n - 1) \cup {s[n]}
    BY <1>1, FirstSetIs
  <2>3. g[n] = keep(n, g[n - 1])
    BY <1>4, <2>1
  <2>4. CASE s[n] \in S
    <3>1. g[n] = Append(g[n - 1], s[n])
      BY <2>3, <2>4
    <3>2. g[n] \in Seq(T) /\ ToSet(g[n]) = ToSet(g[n - 1]) \cup {s[n]}
      BY <2>1, <2>2, <3>1, AppendedSet
    <3> QED BY <2>1, <2>2, <2>4, <3>2
  <2>5. CASE s[n] \notin S
    BY <2>1, <2>2, <2>3, <2>5
  <2> QED BY <2>4, <2>5
<1>6. \A n \in 0..N : n \in Right
  <2> HIDE DEF Right, N
  <2> QED BY <1>1, <1>3, <1>5, CountUp
<1>7. OnlyOf(g, s, S)
  <2>1. ASSUME NEW n \in 0..N
        PROVE  g[n] = IF n = 0 THEN <<>> ELSE keep(n, g[n - 1])
    <3>1. CASE n = 0
      BY <1>2, <3>1 DEF Steps
    <3>2. CASE n # 0
      <4>1. n \in 1..N /\ n - 1 \in 0..N
        BY <1>1, <3>2
      <4>2. g[n - 1] \in Seq(T)
        BY <1>6, <4>1
      <4> QED BY <1>4, <3>2, <4>1, <4>2
    <3> QED BY <3>1, <3>2
  <2>2. g = [n \in 0..N |-> g[n]]
    BY <1>2 DEF Steps
  <2> QED BY <2>1, <2>2, Zenon DEF OnlyOf
<1>8. ASSUME NEW f, OnlyOf(f, s, S) PROVE f[N] = g[N]
  <2> DEFINE Same == {n \in 0..N : f[n] = g[n]}
  <2>1. \A n \in 0..N : /\ f[n] = IF n = 0 THEN <<>> ELSE keep(n, f[n - 1])
                        /\ g[n] = IF n = 0 THEN <<>> ELSE keep(n, g[n - 1])
    BY <1>7, <1>8 DEF OnlyOf
  <2>2. 0 \in Same
    BY <1>1, <2>1
  <2>3. ASSUME NEW n \in 1..N, n - 1 \in Same PROVE n \in Same
    BY <2>1, <2>3
  <2>4. \A n \in 0..N : n \in Same
    <3> HIDE DEF Same, N
    <3> QED BY <1>1, <2>2, <2>3, CountUp
  <2> QED BY <1>1, <2>4
<1>9. Only(s, S) = g[N]
  <2> DEFINE f == CHOOSE f : OnlyOf(f, s, S)
  <2>1. OnlyOf(f, s, S)
    BY <1>7
  <2>2. Only(s, S) = f[N]
    BY Zenon DEF Only, OnlyOf
  <2> HIDE DEF f
  <2> QED BY <1>8, <2>1, <2>2
<1>10. \A n \in 0..N : g[n] \in Seq(T) /\ ToSet(g[n]) = FirstSet(s, n) \cap S
  BY <1>6
<1>11. \A n \in 1..N : g[n] = keep(n, g[n - 1])
  <2>1. ASSUME NEW n \in 1..N PROVE g[n] = keep(n, g[n - 1])
    <3>1. n - 1 \in 0..N
      BY <1>1
    <3> QED BY <1>4, <1>10, <3>1
  <2> QED BY <2>1
<1>12. g[0] = <<>>
  BY <1>2 DEF Steps
<1>13. OnlySteps(g, T, s, S)
  <2> HIDE DEF step
  <2> QED BY <1>9, <1>10, <1>11, <1>12 DEF OnlySteps
<1> QED BY <1>13

\* What Only returns: the elements that are in S.
LEMMA OnlyElements ==
    ASSUME NEW T, NEW s \in Seq(T), NEW S
    PROVE  Only(s, S) \in Seq(T) /\ ToSet(Only(s, S)) = ToSet(s) \cap S
<1>1. PICK g : OnlySteps(g, T, s, S)
  BY OnlyStepped
<1>2. Len(s) \in 0..Len(s)
  OBVIOUS
<1> QED BY <1>1, <1>2, FirstSetIs DEF OnlySteps

LEMMA ConcatSet ==
    ASSUME NEW T, NEW s \in Seq(T), NEW t \in Seq(T)
    PROVE  s \o t \in Seq(T) /\ ToSet(s \o t) = ToSet(s) \cup ToSet(t)
<1>1. \A u : ToSet(u) = Range(u)
  BY DEF ToSet, Range
<1>2. Range(s \o t) = Range(s) \cup Range(t)
  BY RangeConcatenation
<1>3. s \o t \in Seq(T)
  OBVIOUS
<1> QED BY <1>1, <1>2, <1>3

FlattenOf(f, seqs) ==
    f = [n \in 1..Len(seqs) |-> IF n = 1 THEN seqs[n] ELSE f[n - 1] \o seqs[n]]

\* The elements of the first n sequences.
FirstSets(seqs, n) == UNION {ToSet(seqs[k]) : k \in 1..n}

LEMMA FirstSetsIs ==
    ASSUME NEW seqs
    PROVE  /\ FirstSets(seqs, 0) = {}
           /\ \A n \in Nat \ {0} : FirstSets(seqs, n) = FirstSets(seqs, n - 1) \cup ToSet(seqs[n])
<1>1. ASSUME NEW n \in Nat \ {0}
      PROVE  FirstSets(seqs, n) = FirstSets(seqs, n - 1) \cup ToSet(seqs[n])
  <2>1. 1..n = 1..n - 1 \cup {n}
    OBVIOUS
  <2> QED BY <2>1 DEF FirstSets
<1>2. 1..0 = {}
  OBVIOUS
<1> QED BY <1>1, <1>2 DEF FirstSets

\* FlattenSeq appends one sequence after the other.
FlattenSteps(g, T, seqs) ==
    /\ FlattenSeq(seqs) = g[Len(seqs)] /\ g[0] = <<>>
    /\ \A n \in 1..Len(seqs) : g[n] = g[n - 1] \o seqs[n]
    /\ \A n \in 0..Len(seqs) : g[n] \in Seq(T) /\ ToSet(g[n]) = FirstSets(seqs, n)

LEMMA FlattenStepped ==
    ASSUME NEW T, NEW seqs \in Seq(Seq(T))
    PROVE  \E g : FlattenSteps(g, T, seqs)
<1> DEFINE N == Len(seqs)
           step == [n \in 1..N |-> [acc \in Seq(T) |-> acc \o seqs[n]]]
<1>1. N \in Nat /\ DOMAIN seqs = 1..N /\ \A n \in 1..N : seqs[n] \in Seq(T)
  OBVIOUS
<1>2. PICK g : Steps(g, N, <<>>, step)
  <2> HIDE DEF step
  <2> QED BY <1>1, StepsExist
<1> DEFINE Right == {n \in 0..N : g[n] \in Seq(T) /\ ToSet(g[n]) = FirstSets(seqs, n)}
<1>3. 0 \in Right
  <2>1. g[0] = <<>> /\ FirstSets(seqs, 0) = {}
    BY <1>2, FirstSetsIs DEF Steps
  <2>2. <<>> \in Seq(T) /\ ToSet(<<>>) = {}
    BY DEF ToSet
  <2>3. g[0] \in Seq(T) /\ ToSet(g[0]) = FirstSets(seqs, 0)
    <3> HIDE DEF step
    <3> QED BY <2>1, <2>2
  <2> QED BY <1>1, <2>3
<1>4. ASSUME NEW n \in 1..N, g[n - 1] \in Seq(T)
      PROVE  g[n] = g[n - 1] \o seqs[n]
  <2>1. g[n] = step[n][g[n - 1]]
    BY <1>2 DEF Steps
  <2> QED BY <1>4, <2>1
<1>5. ASSUME NEW n \in 1..N, n - 1 \in Right PROVE n \in Right
  <2>1. g[n - 1] \in Seq(T) /\ ToSet(g[n - 1]) = FirstSets(seqs, n - 1)
    BY <1>5
  <2>2. FirstSets(seqs, n) = FirstSets(seqs, n - 1) \cup ToSet(seqs[n])
    BY <1>1, FirstSetsIs
  <2>3. g[n] = g[n - 1] \o seqs[n]
    BY <1>4, <2>1
  <2>4. g[n] \in Seq(T) /\ ToSet(g[n]) = ToSet(g[n - 1]) \cup ToSet(seqs[n])
    BY <1>1, <2>1, <2>3, ConcatSet
  <2>5. n \in 0..N
    BY <1>1
  <2> QED BY <2>1, <2>2, <2>4, <2>5
<1>6. \A n \in 0..N : n \in Right
  <2> HIDE DEF Right, N
  <2> QED BY <1>1, <1>3, <1>5, CountUp
<1> DEFINE h == [n \in 1..N |-> g[n]]
<1>7. FlattenOf(h, seqs)
  <2>1. ASSUME NEW n \in 1..N
        PROVE  h[n] = IF n = 1 THEN seqs[n] ELSE h[n - 1] \o seqs[n]
    <3>1. n - 1 \in 0..N /\ g[n - 1] \in Seq(T)
      BY <1>1, <1>6
    <3>2. g[n] = g[n - 1] \o seqs[n]
      BY <1>4, <3>1
    <3>3. CASE n = 1
      <4>1. g[0] = <<>> /\ seqs[1] \in Seq(T)
        BY <1>1, <1>2, <3>3 DEF Steps
      <4>2. <<>> \o seqs[1] = seqs[1]
        BY <4>1, ConcatEmptySeq
      <4>0. n - 1 = 0
        BY <3>3
      <4>3. g[1] = g[0] \o seqs[1]
        <5> HIDE DEF step, h
        <5> QED BY <3>2, <3>3, <4>0
      <4>4. g[1] = seqs[1]
        BY <4>1, <4>2, <4>3
      <4> QED BY <3>3, <4>4
    <3>4. CASE n # 1
      <4>1. n - 1 \in 1..N
        BY <1>1, <3>4
      <4> QED BY <3>2, <3>4, <4>1
    <3> QED BY <3>3, <3>4
  <2> HIDE DEF h
  <2>2. h = [n \in 1..N |-> h[n]]
    BY DEF h
  <2> QED BY <2>1, <2>2, Zenon DEF FlattenOf
<1>8. ASSUME NEW f, FlattenOf(f, seqs), N # 0 PROVE f[N] = g[N]
  <2> DEFINE Same == {n \in 0..N : n # 0 => f[n] = h[n]}
  <2>1. \A n \in 1..N : /\ f[n] = IF n = 1 THEN seqs[n] ELSE f[n - 1] \o seqs[n]
                        /\ h[n] = IF n = 1 THEN seqs[n] ELSE h[n - 1] \o seqs[n]
    <3> HIDE DEF h
    <3> QED BY <1>7, <1>8 DEF FlattenOf
  <2>2. 0 \in Same
    BY <1>1
  <2>3. ASSUME NEW n \in 1..N, n - 1 \in Same PROVE n \in Same
    <3> HIDE DEF h
    <3> QED BY <2>1, <2>3
  <2>4. \A n \in 0..N : n \in Same
    <3> HIDE DEF Same, N
    <3> QED BY <1>1, <2>2, <2>3, CountUp
  <2>5. f[N] = h[N]
    <3>1. N \in Same
      <4> HIDE DEF Same, N
      <4> QED BY <1>1, <2>4
    <3> HIDE DEF h
    <3> QED BY <1>8, <3>1
  <2>6. h[N] = g[N]
    BY <1>1, <1>8
  <2> QED BY <2>5, <2>6
<1>9. FlattenSeq(seqs) = IF N = 0 THEN seqs ELSE g[N]
  <2>1. CASE N # 0
    <3> DEFINE f == CHOOSE f : FlattenOf(f, seqs)
    <3>1. FlattenOf(f, seqs)
      <4> HIDE DEF h
      <4> QED BY <1>7
    <3>2. FlattenSeq(seqs) = f[N]
      BY <2>1, Zenon DEF FlattenSeq, FlattenOf
    <3> HIDE DEF f
    <3> QED BY <1>8, <2>1, <3>1, <3>2
  <2>2. CASE N = 0
    BY <2>2 DEF FlattenSeq
  <2> QED BY <2>1, <2>2
<1>10. \A n \in 0..N : g[n] \in Seq(T) /\ ToSet(g[n]) = FirstSets(seqs, n)
  BY <1>6
<1>11. \A n \in 1..N : g[n] = g[n - 1] \o seqs[n]
  <2>1. ASSUME NEW n \in 1..N PROVE g[n] = g[n - 1] \o seqs[n]
    <3>1. n - 1 \in 0..N
      BY <1>1
    <3> QED BY <1>4, <1>10, <3>1
  <2> QED BY <2>1
<1>12. g[0] = <<>> /\ (N = 0 => seqs = <<>>)
  BY <1>2 DEF Steps
<1>13. FlattenSteps(g, T, seqs)
  <2> HIDE DEF step, h
  <2> QED BY <1>9, <1>10, <1>11, <1>12 DEF FlattenSteps
<1> QED BY <1>13

\* What FlattenSeq returns: the elements of all the sequences.
LEMMA FlattenElements ==
    ASSUME NEW T, NEW seqs \in Seq(Seq(T))
    PROVE  /\ FlattenSeq(seqs) \in Seq(T)
           /\ ToSet(FlattenSeq(seqs)) = UNION {ToSet(seqs[n]) : n \in DOMAIN seqs}
<1>1. PICK g : FlattenSteps(g, T, seqs)
  BY FlattenStepped
<1>2. Len(seqs) \in 0..Len(seqs) /\ DOMAIN seqs = 1..Len(seqs)
  OBVIOUS
<1>3. FirstSets(seqs, Len(seqs)) = UNION {ToSet(seqs[n]) : n \in DOMAIN seqs}
  BY <1>2 DEF FirstSets
<1> QED BY <1>1, <1>2, <1>3 DEF FlattenSteps

\* An element that is there more than once.
Repeated(s, x) == \E i, j \in DOMAIN s : i # j /\ s[i] = x /\ s[j] = x

LEMMA AppendRepeated ==
    ASSUME NEW T, NEW s \in Seq(T), NEW e \in T, NEW x, Repeated(Append(s, e), x)
    PROVE  Repeated(s, x) \/ (x = e /\ e \in ToSet(s))
<1>1. /\ DOMAIN Append(s, e) = 1..Len(s) + 1 /\ DOMAIN s = 1..Len(s) /\ Len(s) \in Nat
      /\ \A n \in 1..Len(s) : Append(s, e)[n] = s[n]
      /\ Append(s, e)[Len(s) + 1] = e
  BY AppendProperties
<1>2. 1..Len(s) + 1 = 1..Len(s) \cup {Len(s) + 1}
  BY <1>1
<1>3. PICK i \in 1..Len(s) + 1, j \in 1..Len(s) + 1 :
           i # j /\ Append(s, e)[i] = x /\ Append(s, e)[j] = x
  BY <1>1 DEF Repeated
<1>4. CASE i \in 1..Len(s) /\ j \in 1..Len(s)
  BY <1>1, <1>3, <1>4 DEF Repeated
<1>5. CASE i = Len(s) + 1 /\ j \in 1..Len(s)
  BY <1>1, <1>3, <1>5 DEF ToSet
<1>6. CASE j = Len(s) + 1 /\ i \in 1..Len(s)
  BY <1>1, <1>3, <1>6 DEF ToSet
<1> QED BY <1>2, <1>3, <1>4, <1>5, <1>6

LEMMA ConcatRepeated ==
    ASSUME NEW T, NEW s \in Seq(T), NEW t \in Seq(T), NEW x, Repeated(s \o t, x)
    PROVE  Repeated(s, x) \/ Repeated(t, x) \/ (x \in ToSet(s) /\ x \in ToSet(t))
<1> DEFINE u == s \o t
<1>1. /\ Len(s) \in Nat /\ Len(t) \in Nat /\ DOMAIN s = 1..Len(s) /\ DOMAIN t = 1..Len(t)
      /\ DOMAIN u = 1..Len(s) + Len(t)
      /\ \A n \in 1..Len(s) + Len(t) : u[n] = IF n <= Len(s) THEN s[n] ELSE t[n - Len(s)]
  BY ConcatProperties
<1>2. PICK i \in 1..Len(s) + Len(t), j \in 1..Len(s) + Len(t) : i # j /\ u[i] = x /\ u[j] = x
  BY <1>1 DEF Repeated
<1> HIDE DEF u
<1>3. CASE i <= Len(s) /\ j <= Len(s)
  <2>1. i \in DOMAIN s /\ j \in DOMAIN s /\ s[i] = x /\ s[j] = x
    BY <1>1, <1>2, <1>3
  <2> QED BY <1>2, <2>1 DEF Repeated
<1>4. CASE ~(i <= Len(s)) /\ ~(j <= Len(s))
  <2>1. /\ i - Len(s) \in DOMAIN t /\ j - Len(s) \in DOMAIN t
        /\ i - Len(s) # j - Len(s)
        /\ t[i - Len(s)] = x /\ t[j - Len(s)] = x
    BY <1>1, <1>2, <1>4
  <2> QED BY <2>1 DEF Repeated
<1>5. CASE i <= Len(s) /\ ~(j <= Len(s))
  <2>1. i \in DOMAIN s /\ j - Len(s) \in DOMAIN t /\ s[i] = x /\ t[j - Len(s)] = x
    BY <1>1, <1>2, <1>5
  <2> QED BY <2>1 DEF ToSet
<1>6. CASE ~(i <= Len(s)) /\ j <= Len(s)
  <2>1. j \in DOMAIN s /\ i - Len(s) \in DOMAIN t /\ s[j] = x /\ t[i - Len(s)] = x
    BY <1>1, <1>2, <1>6
  <2> QED BY <2>1 DEF ToSet
<1> QED BY <1>3, <1>4, <1>5, <1>6

\* What is left of a sequence repeats nothing that the sequence did not.
LEMMA OnlyRepeated ==
    ASSUME NEW T, NEW s \in Seq(T), NEW S, NEW x, Repeated(Only(s, S), x)
    PROVE  Repeated(s, x)
<1> DEFINE N == Len(s)
           before(n) == \E i, j \in 1..n : i # j /\ s[i] = x /\ s[j] = x
<1>1. PICK g : OnlySteps(g, T, s, S)
  BY OnlyStepped
<1>2. N \in Nat /\ DOMAIN s = 1..N /\ \A n \in 1..N : s[n] \in T
  OBVIOUS
<1> DEFINE Right == {n \in 0..N : Repeated(g[n], x) => before(n)}
<1>3. 0 \in Right
  <2>1. g[0] = <<>> /\ ~Repeated(<<>>, x)
    BY <1>1 DEF OnlySteps, Repeated
  <2> QED BY <1>2, <2>1
<1>4. ASSUME NEW n \in 1..N, n - 1 \in Right PROVE n \in Right
  <2>1. n \in 0..N /\ n - 1 \in 0..N /\ n \in 1..n /\ \A k \in 1..n - 1 : k \in 1..n /\ k # n
    BY <1>2
  <2>2. /\ g[n - 1] \in Seq(T) /\ ToSet(g[n - 1]) = FirstSet(s, n - 1) \cap S
        /\ g[n] = IF s[n] \in S THEN Append(g[n - 1], s[n]) ELSE g[n - 1]
    BY <1>1, <2>1 DEF OnlySteps
  <2>3. before(n - 1) => before(n)
    BY <2>1
  <2>4. ASSUME s[n] \in S, Repeated(g[n], x) PROVE before(n)
    <3>1. Repeated(g[n - 1], x) \/ (x = s[n] /\ s[n] \in ToSet(g[n - 1]))
      BY <1>2, <2>2, <2>4, AppendRepeated
    <3>2. CASE x = s[n] /\ s[n] \in ToSet(g[n - 1])
      <4>1. PICK k \in 1..n - 1 : s[n] = s[k]
        BY <2>2, <3>2 DEF FirstSet
      <4> QED BY <2>1, <3>2, <4>1
    <3> QED BY <1>4, <2>3, <3>1, <3>2
  <2> HIDE DEF before
  <2>5. CASE s[n] \notin S
    BY <1>4, <2>1, <2>2, <2>3, <2>5
  <2> QED BY <2>1, <2>4, <2>5
<1>5. \A n \in 0..N : n \in Right
  <2> HIDE DEF Right, N
  <2> QED BY <1>2, <1>3, <1>4, CountUp
<1>6. before(N)
  <2>1. N \in Right /\ Only(s, S) = g[N]
    BY <1>1, <1>2, <1>5 DEF OnlySteps
  <2> HIDE DEF before
  <2> QED BY <2>1
<1> QED BY <1>2, <1>6 DEF Repeated

LEMMA FlattenRepeated ==
    ASSUME NEW T, NEW seqs \in Seq(Seq(T)), NEW x, Repeated(FlattenSeq(seqs), x)
    PROVE  \/ \E n \in DOMAIN seqs : Repeated(seqs[n], x)
           \/ \E m, n \in DOMAIN seqs : m # n /\ x \in ToSet(seqs[m]) /\ x \in ToSet(seqs[n])
<1> DEFINE N == Len(seqs)
           before(k) == \/ \E n \in 1..k : Repeated(seqs[n], x)
                        \/ \E m, n \in 1..k :
                              m # n /\ x \in ToSet(seqs[m]) /\ x \in ToSet(seqs[n])
<1>1. PICK g : FlattenSteps(g, T, seqs)
  BY FlattenStepped
<1>2. N \in Nat /\ DOMAIN seqs = 1..N /\ \A n \in 1..N : seqs[n] \in Seq(T)
  OBVIOUS
<1> DEFINE Right == {n \in 0..N : Repeated(g[n], x) => before(n)}
<1>3. 0 \in Right
  <2>1. g[0] = <<>> /\ ~Repeated(<<>>, x)
    BY <1>1 DEF FlattenSteps, Repeated
  <2> QED BY <1>2, <2>1
<1>4. ASSUME NEW n \in 1..N, n - 1 \in Right PROVE n \in Right
  <2>1. n \in 0..N /\ n - 1 \in 0..N /\ n \in 1..n /\ \A k \in 1..n - 1 : k \in 1..n /\ k # n
    BY <1>2
  <2>2. /\ g[n - 1] \in Seq(T) /\ ToSet(g[n - 1]) = FirstSets(seqs, n - 1)
        /\ g[n] = g[n - 1] \o seqs[n] /\ seqs[n] \in Seq(T)
    BY <1>1, <1>2, <2>1 DEF FlattenSteps
  <2>3. before(n - 1) => before(n)
    BY <2>1
  <2>4. ASSUME Repeated(g[n], x) PROVE before(n)
    <3>1. \/ Repeated(g[n - 1], x) \/ Repeated(seqs[n], x)
          \/ x \in ToSet(g[n - 1]) /\ x \in ToSet(seqs[n])
      BY <2>2, <2>4, ConcatRepeated
    <3>2. CASE x \in ToSet(g[n - 1]) /\ x \in ToSet(seqs[n])
      <4>1. PICK k \in 1..n - 1 : x \in ToSet(seqs[k])
        BY <2>2, <3>2 DEF FirstSets
      <4> QED BY <2>1, <3>2, <4>1
    <3>3. CASE Repeated(seqs[n], x)
      BY <2>1, <3>3
    <3> QED BY <1>4, <2>3, <3>1, <3>2, <3>3
  <2> HIDE DEF before
  <2> QED BY <2>1, <2>4
<1>5. \A n \in 0..N : n \in Right
  <2> HIDE DEF Right, N
  <2> QED BY <1>2, <1>3, <1>4, CountUp
<1>6. before(N)
  <2>1. N \in Right /\ FlattenSeq(seqs) = g[N]
    <3> HIDE DEF Right
    <3> QED BY <1>1, <1>2, <1>5 DEF FlattenSteps
  <2> HIDE DEF before
  <2> QED BY <2>1
<1> QED BY <1>2, <1>6


\* u is one sequence after another.
Joins(u, s, t) == u = s \o t

\* Only, of one sequence after another,
LEMMA OnlyConcat ==
    ASSUME NEW T, NEW s \in Seq(T), NEW t \in Seq(T), NEW u, Joins(u, s, t), NEW S
    PROVE  Joins(Only(u, S), Only(s, S), Only(t, S))
<1> DEFINE M == Len(s)
           N == Len(t)
<1>1. /\ M \in Nat /\ N \in Nat /\ u \in Seq(T) /\ Len(u) = M + N
      /\ \A n \in 1..M + N : u[n] = IF n <= M THEN s[n] ELSE t[n - M]
  BY ConcatProperties DEF Joins
<1>2. PICK g : OnlySteps(g, T, u, S)
  BY <1>1, OnlyStepped
<1>3. PICK f : OnlySteps(f, T, s, S)
  BY OnlyStepped
<1>4. PICK h : OnlySteps(h, T, t, S)
  BY OnlyStepped
<1> HIDE DEF M, N
<1>5. /\ g[0] = <<>> /\ f[0] = <<>> /\ h[0] = <<>>
      /\ Only(u, S) = g[M + N] /\ Only(s, S) = f[M] /\ Only(t, S) = h[N]
      /\ \A n \in 1..M + N : g[n] = IF u[n] \in S THEN Append(g[n - 1], u[n]) ELSE g[n - 1]
      /\ \A n \in 1..M : f[n] = IF s[n] \in S THEN Append(f[n - 1], s[n]) ELSE f[n - 1]
      /\ \A n \in 1..N : h[n] = IF t[n] \in S THEN Append(h[n - 1], t[n]) ELSE h[n - 1]
      /\ \A n \in 0..M : f[n] \in Seq(T)
      /\ \A n \in 0..N : h[n] \in Seq(T)
  BY <1>1, <1>2, <1>3, <1>4 DEF OnlySteps, M, N
<1>6. g[M] = f[M]
  <2> DEFINE Right == {n \in 0..M : g[n] = f[n]}
  <2>1. 0 \in Right
    BY <1>1, <1>5
  <2>2. ASSUME NEW n \in 1..M, n - 1 \in Right PROVE n \in Right
    <3>1. n \in 0..M /\ n \in 1..M + N /\ u[n] = s[n]
      BY <1>1
    <3> QED BY <1>5, <2>2, <3>1
  <2>3. \A n \in 0..M : n \in Right
    <3> HIDE DEF Right
    <3> QED BY <1>1, <2>1, <2>2, CountUp
  <2> QED BY <1>1, <2>3
<1>7. g[M + N] = f[M] \o h[N]
  <2> DEFINE both(n) == f[M] \o h[n]
             Right == {n \in 0..N : g[M + n] = both(n)}
  <2>1. f[M] \in Seq(T) /\ f[M] \o <<>> = f[M] /\ M + 0 = M
    <3>1. f[M] \in Seq(T)
      BY <1>1, <1>5
    <3> QED BY <1>1, <3>1, ConcatEmptySeq
  <2>2. 0 \in Right
    <3>1. both(0) = g[M + 0]
      BY <1>5, <1>6, <2>1
    <3> HIDE DEF both
    <3> QED BY <1>1, <3>1
  <2>3. ASSUME NEW n \in 1..N, n - 1 \in Right PROVE n \in Right
    <3>1. /\ n \in 0..N /\ n - 1 \in 0..N /\ M + n \in 1..M + N /\ M + n - 1 = M + (n - 1)
          /\ u[M + n] = t[n]
      BY <1>1
    <3>2. t[n] \in T
      BY DEF N
    <3>3. g[M + n] = IF t[n] \in S THEN Append(both(n - 1), t[n]) ELSE both(n - 1)
      <4> HIDE DEF both
      <4>1. g[M + (n - 1)] = both(n - 1)
        BY <2>3
      <4> DEFINE m == M + n
      <4>2. m \in 1..M + N /\ m - 1 = M + (n - 1) /\ u[m] = t[n] /\ g[m] = g[M + n]
        <5>1. m - 1 = M + (n - 1)
          BY <1>1
        <5> QED BY <3>1, <5>1
      <4> HIDE DEF m
      <4>3. g[m] = IF u[m] \in S THEN Append(g[m - 1], u[m]) ELSE g[m - 1]
        BY <1>5, <4>2
      <4> QED BY <4>1, <4>2, <4>3
    <3>4. Append(f[M] \o h[n - 1], t[n]) = f[M] \o Append(h[n - 1], t[n])
      <4> DEFINE x == f[M]
                 y == h[n - 1]
                 e == t[n]
      <4>1. x \in Seq(T) /\ y \in Seq(T) /\ e \in T
        BY <1>5, <2>1, <3>1, <3>2
      <4> HIDE DEF x, y, e
      <4>2. <<e>> \in Seq(T) /\ x \o y \in Seq(T)
        BY <4>1
      <4>3. Append(x \o y, e) = (x \o y) \o <<e>>
        BY <4>1, <4>2, AppendIsConcat
      <4>4. Append(y, e) = y \o <<e>>
        BY <4>1, AppendIsConcat
      <4>5. (x \o y) \o <<e>> = x \o (y \o <<e>>)
        BY <4>1, <4>2, ConcatAssociative
      <4>6. Append(x \o y, e) = x \o Append(y, e)
        BY <4>3, <4>4, <4>5
      <4> QED BY <4>6 DEF x, y, e
    <3>5. h[n] = IF t[n] \in S THEN Append(h[n - 1], t[n]) ELSE h[n - 1]
      BY <1>5
    <3>6. g[M + n] = both(n)
      BY <3>3, <3>4, <3>5
    <3> HIDE DEF both
    <3> QED BY <3>1, <3>6
  <2>4. \A n \in 0..N : n \in Right
    <3> HIDE DEF Right
    <3> QED BY <1>1, <2>2, <2>3, CountUp
  <2>5. g[M + N] = both(N)
    <3> HIDE DEF both
    <3> QED BY <1>1, <2>4
  <2> QED BY <2>5
<1> QED BY <1>5, <1>7 DEF Joins

\* of one that has nothing else, and of one that has nothing of it.
LEMMA OnlyAll ==
    ASSUME NEW T, NEW s \in Seq(T), NEW S, ToSet(s) \subseteq S
    PROVE  Only(s, S) = s
<1> DEFINE N == Len(s)
<1>1. PICK g : OnlySteps(g, T, s, S)
  BY OnlyStepped
<1>2. N \in Nat /\ DOMAIN s = 1..N /\ s = [k \in 1..N |-> s[k]]
      /\ \A n \in 1..N : s[n] \in T /\ s[n] \in S
  BY DEF ToSet
<1> DEFINE Right == {n \in 0..N : g[n] = [k \in 1..n |-> s[k]]}
<1>3. 0 \in Right
  <2>1. g[0] = <<>> /\ 1..0 = {}
    BY <1>1 DEF OnlySteps
  <2> QED BY <1>2, <2>1
<1>4. ASSUME NEW n \in 1..N, n - 1 \in Right PROVE n \in Right
  <2>1. n \in 0..N /\ n - 1 \in 0..N
    BY <1>2
  <2>2. g[n - 1] \in Seq(T) /\ g[n] = Append(g[n - 1], s[n]) /\ s[n] \in T
    BY <1>1, <1>2, <2>1 DEF OnlySteps
  <2>3. g[n - 1] = [k \in 1..n - 1 |-> s[k]] /\ Len(g[n - 1]) = n - 1
    BY <1>4, <2>1, <2>2
  <2>4. Append(g[n - 1], s[n]) = [k \in 1..n |-> s[k]]
    <3> DEFINE h == g[n - 1]
               a == Append(h, s[n])
    <3>1. h \in Seq(T) /\ Len(h) = n - 1 /\ \A k \in 1..n - 1 : h[k] = s[k]
      BY <2>2, <2>3
    <3> HIDE DEF h
    <3>2. /\ a = [k \in 1..n |-> a[k]]
          /\ \A k \in 1..n - 1 : a[k] = h[k]
          /\ a[n] = s[n]
      <4> DEFINE e == s[n]
      <4>1. e \in T /\ a = Append(h, e)
        BY <2>2
      <4> HIDE DEF e, a
      <4>2. /\ a \in Seq(T) /\ Len(a) = Len(h) + 1 /\ a[Len(h) + 1] = e
            /\ \A k \in 1..Len(h) : a[k] = h[k]
        BY <3>1, <4>1, AppendProperties
      <4>3. Len(a) = n /\ Len(h) + 1 = n
        BY <2>1, <3>1, <4>2
      <4>4. a = [k \in 1..n |-> a[k]]
        BY <4>2, <4>3
      <4> QED BY <3>1, <4>2, <4>3, <4>4 DEF e
    <3> HIDE DEF a
    <3>3. \A k \in 1..n : a[k] = s[k]
      <4>1. 1..n = 1..n - 1 \cup {n}
        BY <1>2
      <4> QED BY <3>1, <3>2, <4>1
    <3>4. a = [k \in 1..n |-> s[k]]
      BY <3>2, <3>3
    <3> QED BY <3>4 DEF a, h
  <2> QED BY <2>1, <2>2, <2>4
<1>5. \A n \in 0..N : n \in Right
  <2> HIDE DEF Right, N
  <2> QED BY <1>2, <1>3, <1>4, CountUp
<1>6. Only(s, S) = g[N] /\ g[N] = [k \in 1..N |-> s[k]]
  <2>1. Only(s, S) = g[N]
    BY <1>1 DEF OnlySteps
  <2>2. N \in Right
    <3> HIDE DEF Right
    <3> QED BY <1>2, <1>5
  <2> QED BY <2>1, <2>2
<1> HIDE DEF N
<1> QED BY <1>2, <1>6

LEMMA OnlyNone ==
    ASSUME NEW T, NEW s \in Seq(T), NEW S, ToSet(s) \cap S = {}
    PROVE  Only(s, S) = <<>>
<1> DEFINE o == Only(s, S)
<1>1. o \in Seq(T) /\ ToSet(o) = {}
  BY OnlyElements
<1> HIDE DEF o
<1>2. Len(o) \in Nat /\ DOMAIN o = 1..Len(o)
  BY <1>1
<1>3. Len(o) = 0
  <2>1. ASSUME Len(o) # 0 PROVE FALSE
    <3>1. 1 \in DOMAIN o
      BY <1>2, <2>1
    <3>2. o[1] \in ToSet(o)
      BY <3>1 DEF ToSet
    <3> QED BY <1>1, <3>2
  <2> QED BY <2>1
<1> QED BY <1>1, <1>3 DEF o

\* The elements of one of several sequences, taken out of all of them.
LEMMA OnlyBlock ==
    ASSUME NEW T, NEW seqs \in Seq(Seq(T)), NEW S, NEW k \in DOMAIN seqs,
           ToSet(seqs[k]) \subseteq S,
           \A n \in DOMAIN seqs : n # k => ToSet(seqs[n]) \cap S = {}
    PROVE  Only(FlattenSeq(seqs), S) = seqs[k]
<1> DEFINE N == Len(seqs)
           upTo(n) == IF n < k THEN <<>> ELSE seqs[k]
<1>1. PICK g : FlattenSteps(g, T, seqs)
  BY FlattenStepped
<1>2. /\ N \in Nat /\ DOMAIN seqs = 1..N /\ \A n \in 1..N : seqs[n] \in Seq(T)
  OBVIOUS
<1>3. k \in 1..N
  BY <1>2
<1> DEFINE Right == {n \in 0..N : Only(g[n], S) = upTo(n)}
<1>4. 0 \in Right
  <2>1. g[0] = <<>> /\ <<>> \in Seq(T) /\ ToSet(<<>>) \cap S = {}
    BY <1>1 DEF FlattenSteps, ToSet
  <2>2. Only(<<>>, S) = <<>>
    BY <2>1, OnlyNone
  <2> QED BY <1>2, <1>3, <2>1, <2>2
<1>5. ASSUME NEW n \in 1..N, n - 1 \in Right PROVE n \in Right
  <2>1. n \in 0..N /\ n - 1 \in 0..N
    BY <1>2
  <2>2. g[n - 1] \in Seq(T) /\ g[n] = g[n - 1] \o seqs[n] /\ seqs[n] \in Seq(T)
    BY <1>1, <1>2, <2>1 DEF FlattenSteps
  <2>3. Only(g[n], S) = Only(g[n - 1], S) \o Only(seqs[n], S)
    <3> DEFINE x == g[n - 1]
               y == seqs[n]
    <3>1. x \in Seq(T) /\ y \in Seq(T) /\ g[n] = x \o y
      BY <2>2
    <3> HIDE DEF x, y
    <3>2. Joins(g[n], x, y)
      BY <3>1 DEF Joins
    <3>3. Joins(Only(g[n], S), Only(x, S), Only(y, S))
      BY <3>1, <3>2, OnlyConcat
    <3> QED BY <3>3 DEF x, y, Joins
  <2>4. Only(g[n - 1], S) = upTo(n - 1)
    BY <1>5
  <2>5. CASE n = k
    <3>1. Only(seqs[n], S) = seqs[n]
      BY <2>2, <2>5, OnlyAll
    <3>2. upTo(n - 1) = <<>> /\ upTo(n) = seqs[n]
      BY <1>2, <1>3, <2>5
    <3>3. <<>> \o seqs[n] = seqs[n]
      BY <2>2, ConcatEmptySeq
    <3> QED BY <2>1, <2>3, <2>4, <3>1, <3>2, <3>3
  <2>6. CASE n # k
    <3>1. Only(seqs[n], S) = <<>>
      BY <1>2, <2>2, <2>6, OnlyNone
    <3>2. upTo(n - 1) = upTo(n) /\ upTo(n) \in Seq(T)
      <4>1. n < k <=> n - 1 < k
        BY <1>2, <1>3, <2>6
      <4>2. <<>> \in Seq(T) /\ seqs[k] \in Seq(T)
        BY <1>2, <1>3
      <4> QED BY <4>1, <4>2
    <3> HIDE DEF upTo
    <3>3. upTo(n) \o <<>> = upTo(n)
      BY <3>2, ConcatEmptySeq
    <3> QED BY <2>1, <2>3, <2>4, <3>1, <3>2, <3>3
  <2> QED BY <2>5, <2>6
<1>6. \A n \in 0..N : n \in Right
  <2> HIDE DEF Right, N
  <2> QED BY <1>2, <1>4, <1>5, CountUp
<1>7. N \in Right /\ FlattenSeq(seqs) = g[N]
  <2> HIDE DEF Right
  <2> QED BY <1>1, <1>2, <1>6 DEF FlattenSteps
<1>8. upTo(N) = seqs[k]
  BY <1>2, <1>3
<1> HIDE DEF upTo
<1> QED BY <1>7, <1>8

LEMMA MinIn ==
    ASSUME NEW I \in SUBSET Nat, I # {}
    PROVE  Min(I) \in I /\ \A i \in I : Min(I) <= i
<1>1. \E m \in I : \A i \in I : m <= i
  BY Smallest
<1>2. Min(I) = CHOOSE m \in I : \A i \in I : m <= i
  BY DEF Min
<1> QED BY <1>1, <1>2

\* What FirstOf returns: an element as it is looked for.
LEMMA FirstWithId ==
    ASSUME NEW T, NEW s \in Seq(T), NEW b, \E x \in ToSet(s) : x.id = b
    PROVE  LET first == FirstOf(s, LAMBDA x : x.id = b)
           IN  first \in ToSet(s) /\ first.id = b
<1> DEFINE I == {n \in 1..Len(s) : s[n].id = b}
<1>1. DOMAIN s = 1..Len(s) /\ Len(s) \in Nat
  OBVIOUS
<1>2. I \in SUBSET Nat /\ I # {}
  BY <1>1 DEF ToSet
<1>3. FirstOf(s, LAMBDA x : x.id = b) = s[Min(I)]
  BY <1>2 DEF FirstOf, SelectInSeq
<1>4. Min(I) \in I
  <2> HIDE DEF I
  <2> QED BY <1>2, MinIn
<1> QED BY <1>1, <1>3, <1>4 DEF ToSet

LEMMA FirstOfSite ==
    ASSUME NEW T, NEW s \in Seq(T), NEW b, \E x \in ToSet(s) : x.siteId = b
    PROVE  LET first == FirstOf(s, LAMBDA x : x.siteId = b)
           IN  first \in ToSet(s) /\ first.siteId = b
<1> DEFINE I == {n \in 1..Len(s) : s[n].siteId = b}
<1>1. DOMAIN s = 1..Len(s) /\ Len(s) \in Nat
  OBVIOUS
<1>2. I \in SUBSET Nat /\ I # {}
  BY <1>1 DEF ToSet
<1>3. FirstOf(s, LAMBDA x : x.siteId = b) = s[Min(I)]
  BY <1>2 DEF FirstOf, SelectInSeq
<1>4. Min(I) \in I
  <2> HIDE DEF I
  <2> QED BY <1>2, MinIn
<1> QED BY <1>1, <1>3, <1>4 DEF ToSet

LEMMA FirstTree ==
    ASSUME NEW T, NEW s \in Seq(T), NEW b, \E x \in ToSet(s) : x.site.id = b
    PROVE  LET first == FirstOf(s, LAMBDA x : x.site.id = b)
           IN  first \in ToSet(s) /\ first.site.id = b
<1> DEFINE I == {n \in 1..Len(s) : s[n].site.id = b}
<1>1. DOMAIN s = 1..Len(s) /\ Len(s) \in Nat
  OBVIOUS
<1>2. I \in SUBSET Nat /\ I # {}
  BY <1>1 DEF ToSet
<1>3. FirstOf(s, LAMBDA x : x.site.id = b) = s[Min(I)]
  BY <1>2 DEF FirstOf, SelectInSeq
<1>4. Min(I) \in I
  <2> HIDE DEF I
  <2> QED BY <1>2, MinIn
<1> QED BY <1>1, <1>3, <1>4 DEF ToSet

\* What Largest returns: no ID is above it.
LEMMA LargestIs ==
    ASSUME NEW T, NEW s \in Seq(T), \A x \in T : x.id \in Nat
    PROVE  Largest(s) \in Nat /\ \A x \in ToSet(s) : x.id <= Largest(s)
<1> DEFINE ids(n) == {x.id : x \in FirstSet(s, n)}
           Bounded == {n \in 0..Len(s) : \E m \in ids(n) \cup {0} : \A i \in ids(n) : m >= i}
<1>1. DOMAIN s = 1..Len(s) /\ Len(s) \in Nat /\ \A n \in 1..Len(s) : s[n].id \in Nat
  OBVIOUS
<1>2. \A n \in 0..Len(s) : ids(n) \subseteq Nat
  BY <1>1 DEF FirstSet
<1>3. 0 \in Bounded
  BY <1>1, FirstSetIs
<1>4. ASSUME NEW n \in 1..Len(s), n - 1 \in Bounded PROVE n \in Bounded
  <2>1. ids(n) = ids(n - 1) \cup {s[n].id}
    BY FirstSetIs
  <2>2. PICK m \in ids(n - 1) \cup {0} : \A i \in ids(n - 1) : m >= i
    BY <1>4
  <2>3. n \in 0..Len(s) /\ ids(n - 1) \subseteq Nat /\ s[n].id \in Nat
    BY <1>1, <1>2
  <2> HIDE DEF ids
  <2>4. CASE m >= s[n].id
    BY <2>1, <2>2, <2>3, <2>4
  <2>5. CASE ~(m >= s[n].id)
    <3>1. \A i \in ids(n) : s[n].id >= i
      BY <2>1, <2>2, <2>3, <2>5
    <3> QED BY <2>1, <2>3, <3>1
  <2> QED BY <2>4, <2>5
<1>5. \A n \in 0..Len(s) : n \in Bounded
  <2> HIDE DEF Bounded
  <2> QED BY <1>1, <1>3, <1>4, CountUp
<1>6. ids(Len(s)) = {s[n].id : n \in DOMAIN s}
  BY <1>1 DEF FirstSet
<1>7. ids(Len(s)) = {x.id : x \in ToSet(s)}
  BY FirstSetIs
<1>8. Len(s) \in Bounded
  <2> HIDE DEF Bounded
  <2> QED BY <1>1, <1>5
<1> DEFINE all == ids(Len(s))
<1>9. all \subseteq Nat /\ \E m \in all \cup {0} : \A i \in all : m >= i
  BY <1>1, <1>2, <1>8
<1>10. Largest(s) = CHOOSE m \in all \cup {0} : \A i \in all : m >= i
  BY <1>6 DEF Largest
<1>11. \A x \in ToSet(s) : x.id \in all
  BY <1>7
<1> HIDE DEF all
<1>12. Largest(s) \in all \cup {0} /\ \A i \in all : Largest(s) >= i
  BY <1>9, <1>10
<1>13. Largest(s) \in Nat
  <2>1. all \cup {0} \subseteq Nat
    BY <1>9
  <2> QED BY <1>12, <2>1
<1>14. ASSUME NEW x \in ToSet(s) PROVE x.id <= Largest(s)
  <2>1. x.id \in Nat /\ Largest(s) >= x.id
    BY <1>9, <1>11, <1>12
  <2> QED BY <1>13, <2>1
<1> QED BY <1>13, <1>14

-----------------------------------------------------------------------------
(* The configurations that canonicalizeAppData makes up *)

\* D has the configurations C and at most one new one for each of the sites S,
\* an empty one of a new ID, if C has none of the site.
Fills(C, D, S) ==
    /\ C \subseteq D
    /\ \A e \in D \ C : /\ e.content = 0
                        /\ \E s \in S : e.siteId = s.id
                        /\ \A c \in C : c.id < e.id /\ c.siteId # e.siteId
    /\ \A d, e \in D \ C : d.id = e.id => d = e
    /\ \A s \in S : \E c \in D : c.siteId = s.id

LEMMA FillsOne ==
    ASSUME NEW C \in SUBSET ConfigRecords, NEW D \in SUBSET ConfigRecords, NEW S, NEW s,
           NEW e \in ConfigRecords, Fills(C, D, S),
           e.content = 0, e.siteId = s.id,
           \A c \in D : c.id < e.id /\ c.siteId # e.siteId
    PROVE  Fills(C, D \cup {e}, S \cup {s})
<1>1. \A c \in ConfigRecords : c.id \in Nat
  BY DEF ConfigRecords
<1>2. \A d \in D : d.id # e.id
  BY <1>1
<1>3. \A d, x \in (D \cup {e}) \ C : d.id = x.id => d = x
  BY <1>2 DEF Fills
<1>4. \A x \in (D \cup {e}) \ C : /\ x.content = 0
                                  /\ \E t \in S \cup {s} : x.siteId = t.id
                                  /\ \A c \in C : c.id < x.id /\ c.siteId # x.siteId
  BY DEF Fills
<1>5. \A t \in S \cup {s} : \E c \in D \cup {e} : c.siteId = t.id
  BY DEF Fills
<1> QED BY <1>3, <1>4, <1>5 DEF Fills

FilledOf(f, configs, sites) ==
    f = [n \in 0..Len(sites) |->
            IF n = 0 THEN configs
            ELSE LET cs == f[n - 1]
                     home == sites[n].id
                 IN  IF Has(cs, LAMBDA c : c.siteId = home) THEN cs
                     ELSE Append(cs, [id |-> Largest(cs) + 1, siteId |-> home,
                                      name |-> Unnamed, content |-> 0])]

\* What FilledUp returns: every site has a configuration.
LEMMA FilledElements ==
    ASSUME SitesAssumption,
           NEW configs \in Seq(ConfigRecords), NEW T, NEW sites \in Seq(T),
           \A s \in T : s.id \in Nat
    PROVE  /\ FilledUp(configs, sites) \in Seq(ConfigRecords)
           /\ Fills(ToSet(configs), ToSet(FilledUp(configs, sites)), ToSet(sites))
           /\ \A x : Repeated(FilledUp(configs, sites), x) => Repeated(configs, x)
           /\ (\A s \in ToSet(sites) : \E c \in ToSet(configs) : c.siteId = s.id)
                => FilledUp(configs, sites) = configs
<1> DEFINE N == Len(sites)
           fresh(home, cs) == [id |-> Largest(cs) + 1, siteId |-> home, name |-> Unnamed,
                               content |-> 0]
           fill(home, cs) == IF \E k \in DOMAIN cs : cs[k].siteId = home THEN cs
                             ELSE Append(cs, fresh(home, cs))
           step == [n \in 1..N |-> [cs \in Seq(ConfigRecords) |-> fill(sites[n].id, cs)]]
           complete == \A s \in ToSet(sites) : \E c \in ToSet(configs) : c.siteId = s.id
           Good(n, cs) == /\ cs \in Seq(ConfigRecords)
                          /\ Fills(ToSet(configs), ToSet(cs), FirstSet(sites, n))
                          /\ \A x : Repeated(cs, x) => Repeated(configs, x)
                          /\ complete => cs = configs
<1>1. N \in Nat /\ \A n \in 1..N : sites[n].id \in Nat
  OBVIOUS
<1>2. ASSUME NEW n \in 1..N, NEW cs, Good(n - 1, cs)
      PROVE  Good(n, fill(sites[n].id, cs))
  <2> DEFINE home == sites[n].id
             e == fresh(home, cs)
  <2>1. FirstSet(sites, n) = FirstSet(sites, n - 1) \cup {sites[n]}
    BY FirstSetIs
  <2>2. /\ cs \in Seq(ConfigRecords)
        /\ Fills(ToSet(configs), ToSet(cs), FirstSet(sites, n - 1))
        /\ \A x : Repeated(cs, x) => Repeated(configs, x)
        /\ complete => cs = configs
    BY <1>2
  <2>3. CASE \E k \in DOMAIN cs : cs[k].siteId = home
    <3>1. \E c \in ToSet(cs) : c.siteId = sites[n].id
      BY <2>3 DEF ToSet
    <3>2. Fills(ToSet(configs), ToSet(cs), FirstSet(sites, n))
      BY <2>1, <2>2, <3>1 DEF Fills
    <3>3. fill(home, cs) = cs
      BY <2>3
    <3> HIDE DEF fill, complete
    <3> QED BY <2>2, <3>2, <3>3
  <2>4. CASE ~\E k \in DOMAIN cs : cs[k].siteId = home
    <3>1. \A c \in ConfigRecords : c.id \in Nat
      BY DEF ConfigRecords
    <3>2. Largest(cs) \in Nat /\ \A c \in ToSet(cs) : c.id <= Largest(cs)
      BY <2>2, <3>1, LargestIs
    <3>3. e \in ConfigRecords
      <4>1. 0 \in Contents
        BY DEF Contents, SitesAssumption
      <4>2. Largest(cs) + 1 \in Nat \ {0}
        BY <3>2
      <4>3. Unnamed \in Names
        BY DEF Names
      <4>4. home \in Nat
        BY <1>1
      <4> HIDE DEF home
      <4> QED BY <4>1, <4>2, <4>3, <4>4 DEF ConfigRecords
    <3>4. e.content = 0 /\ e.siteId = sites[n].id /\ e.id = Largest(cs) + 1
      OBVIOUS
    <3>5. ToSet(cs) \subseteq ConfigRecords /\ ToSet(configs) \subseteq ConfigRecords
      BY <2>2 DEF ToSet
    <3> HIDE DEF e
    <3>6. \A c \in ToSet(cs) : c.id < e.id /\ c.siteId # e.siteId
      <4> TAKE c \in ToSet(cs)
      <4>1. c.siteId # home
        BY <2>4 DEF ToSet
      <4>2. c.id \in Nat /\ c.id <= Largest(cs)
        BY <3>1, <3>2, <3>5
      <4> QED BY <3>2, <3>4, <4>1, <4>2
    <3>7. Fills(ToSet(configs), ToSet(cs) \cup {e}, FirstSet(sites, n - 1) \cup {sites[n]})
      BY <2>2, <3>3, <3>4, <3>5, <3>6, FillsOne
    <3>8. /\ Append(cs, e) \in Seq(ConfigRecords)
          /\ ToSet(Append(cs, e)) = ToSet(cs) \cup {e}
      BY <2>2, <3>3, AppendedSet
    <3>9. fill(home, cs) = Append(cs, e)
      BY <2>4 DEF e
    <3>10. \A x : Repeated(Append(cs, e), x) => Repeated(configs, x)
      <4>1. e \notin ToSet(cs)
        BY <3>6
      <4> QED BY <2>2, <3>3, <4>1, AppendRepeated
    <3>11. ~complete
      <4>1. sites[n] \in ToSet(sites)
        BY <1>1 DEF ToSet
      <4>2. ~\E c \in ToSet(cs) : c.siteId = sites[n].id
        BY <2>4 DEF ToSet
      <4> QED BY <2>2, <4>1, <4>2
    <3> HIDE DEF fill, complete
    <3> QED BY <2>1, <3>7, <3>8, <3>9, <3>10, <3>11
  <2> QED BY <2>3, <2>4
<1>3. PICK g : Steps(g, N, configs, step)
  <2> HIDE DEF step
  <2> QED BY <1>1, StepsExist
<1> DEFINE Right == {n \in 0..N : Good(n, g[n])}
<1>4. 0 \in Right
  <2>1. g[0] = configs /\ FirstSet(sites, 0) = {}
    BY <1>3, FirstSetIs DEF Steps
  <2>2. Fills(ToSet(configs), ToSet(configs), {})
    BY DEF Fills
  <2>3. Good(0, g[0])
    <3> HIDE DEF step
    <3> QED BY <2>1, <2>2
  <2> HIDE DEF Good
  <2> QED BY <1>1, <2>3
<1>5. ASSUME NEW n \in 1..N, g[n - 1] \in Seq(ConfigRecords)
      PROVE  g[n] = fill(sites[n].id, g[n - 1])
  <2>1. g[n] = step[n][g[n - 1]]
    BY <1>3 DEF Steps
  <2> HIDE DEF fill
  <2> QED BY <1>5, <2>1
<1>6. ASSUME NEW n \in 1..N, n - 1 \in Right PROVE n \in Right
  <2>1. Good(n - 1, g[n - 1]) /\ n \in 0..N
    BY <1>6
  <2>2. g[n] = fill(sites[n].id, g[n - 1])
    <3> HIDE DEF fill
    <3> QED BY <1>5, <2>1
  <2> HIDE DEF fill, Good
  <2>3. Good(n, g[n])
    BY <1>2, <2>1, <2>2
  <2> QED BY <2>1, <2>3
<1>7. \A n \in 0..N : n \in Right
  <2> HIDE DEF Right, N
  <2> QED BY <1>1, <1>4, <1>6, CountUp
<1>8. ASSUME NEW n \in 0..N
      PROVE  g[n] = IF n = 0 THEN configs ELSE fill(sites[n].id, g[n - 1])
  <2>1. CASE n = 0
    BY <1>3, <2>1 DEF Steps
  <2>2. CASE n # 0
    <3>1. n \in 1..N /\ n - 1 \in 0..N
      BY <1>1, <2>2
    <3>2. g[n - 1] \in Seq(ConfigRecords)
      BY <1>7, <3>1
    <3> HIDE DEF fill
    <3> QED BY <1>5, <2>2, <3>1, <3>2
  <2> QED BY <2>1, <2>2
<1>9. FilledOf(g, configs, sites)
  <2>1. g = [n \in 0..N |-> g[n]]
    BY <1>3 DEF Steps
  <2>2. g = [n \in 0..N |-> IF n = 0 THEN configs ELSE fill(sites[n].id, g[n - 1])]
    <3> HIDE DEF fill
    <3> QED BY <1>8, <2>1, Zenon
  <2> QED BY <2>2, Zenon DEF FilledOf, Has
<1>10. ASSUME NEW f, FilledOf(f, configs, sites) PROVE f[N] = g[N]
  <2> DEFINE Same == {n \in 0..N : f[n] = g[n]}
  <2>1. \A n \in 0..N : f[n] = IF n = 0 THEN configs ELSE fill(sites[n].id, f[n - 1])
    BY <1>10 DEF FilledOf, Has
  <2>2. 0 \in Same
    <3>1. 0 \in 0..N
      BY <1>1
    <3>2. f[0] = configs /\ g[0] = configs
      <4> HIDE DEF fill
      <4> QED BY <1>8, <2>1, <3>1
    <3> QED BY <3>1, <3>2
  <2>3. ASSUME NEW n \in 1..N, n - 1 \in Same PROVE n \in Same
    <3>1. n \in 0..N /\ n # 0 /\ f[n - 1] = g[n - 1]
      BY <2>3
    <3>2. f[n] = fill(sites[n].id, f[n - 1]) /\ g[n] = fill(sites[n].id, g[n - 1])
      <4> HIDE DEF fill
      <4> QED BY <1>8, <2>1, <3>1
    <3> HIDE DEF fill
    <3> QED BY <3>1, <3>2
  <2>4. \A n \in 0..N : n \in Same
    <3> HIDE DEF Same, N
    <3> QED BY <1>1, <2>2, <2>3, CountUp
  <2> QED BY <1>1, <2>4
<1>11. FilledUp(configs, sites) = g[N]
  <2> DEFINE f == CHOOSE f : FilledOf(f, configs, sites)
  <2>1. FilledOf(f, configs, sites)
    BY <1>9
  <2>2. FilledUp(configs, sites) = f[N]
    BY Zenon DEF FilledUp, FilledOf
  <2> HIDE DEF f, N
  <2> QED BY <1>10, <2>1, <2>2
<1>12. Good(N, g[N]) /\ FirstSet(sites, N) = ToSet(sites)
  <2>1. FirstSet(sites, N) = ToSet(sites)
    BY FirstSetIs
  <2>2. N \in Right
    <3> HIDE DEF Right, N
    <3> QED BY <1>1, <1>7
  <2> HIDE DEF Good
  <2> QED BY <2>1, <2>2
<1> QED BY <1>11, <1>12

-----------------------------------------------------------------------------
(* The tree of a view, and the view of a tree *)

Saved == [id : Nat \ {0}, name : Names, content : Contents]
Trees == [site : SiteRecords, configs : Seq(Saved)]

\* A view as the operations make it: the site that is shown is one of them.
Proper(next) ==
    /\ next.site \in SiteRecords /\ next.sites \in Seq(SiteRecords)
    /\ next.configs \in Seq(ConfigRecords) /\ next.live \in Contents
    /\ \E s \in ToSet(next.sites) : s.id = next.site.id

\* D are its configurations, those made up among them, and active is of the site.
Chosen(next, D, active) ==
    /\ D \in SUBSET ConfigRecords
    /\ Fills(ToSet(next.configs), D, ToSet(next.sites))
    /\ \E c \in D : c.siteId = next.site.id /\ c.id = active
    /\ (\E c \in D : c.siteId = next.site.id /\ c.id = next.active) => active = next.active

SavedAs(next, active, s, c) ==
    [id |-> c.id, name |-> c.name,
     content |-> IF s.id = next.site.id /\ c.id = active THEN next.live
                 ELSE IF c.content = NoContent THEN 0 ELSE c.content]

OfSite(D, s) == {c \in D : c.siteId = s.id}

\* The configurations of a site, in their order.
Own(next, s) ==
    LET configs == FilledUp(next.configs, next.sites)
    IN  Only(configs, {c \in ToSet(configs) : c.siteId = s.id})

IsTreeOf(w, next, D, active) ==
    /\ w.site = next.site.id /\ w.config = active
    /\ w.sites \in Seq(Trees) /\ DOMAIN w.sites = DOMAIN next.sites
    /\ \A n \in DOMAIN next.sites :
          /\ w.sites[n].site = next.sites[n]
          /\ Own(next, next.sites[n]) \in Seq(ConfigRecords)
          /\ ToSet(Own(next, next.sites[n])) = OfSite(D, next.sites[n])
          /\ w.sites[n].configs = [k \in DOMAIN Own(next, next.sites[n]) |->
                SavedAs(next, active, next.sites[n], Own(next, next.sites[n])[k])]
          /\ ToSet(w.sites[n].configs) =
               {SavedAs(next, active, next.sites[n], c) : c \in OfSite(D, next.sites[n])}

LEMMA ActiveOfIs ==
    ASSUME NEW next, NEW configs \in Seq(ConfigRecords),
           \E c \in ToSet(configs) : c.siteId = next.site.id
    PROVE  LET active == ActiveOf(next, configs)
           IN  /\ \E c \in ToSet(configs) : c.siteId = next.site.id /\ c.id = active
               /\ (\E c \in ToSet(configs) : c.siteId = next.site.id /\ c.id = next.active)
                    => active = next.active
<1> DEFINE home == next.site.id
           first == FirstOf(configs, LAMBDA c : c.siteId = home)
           there == \E n \in DOMAIN configs :
                       configs[n].siteId = home /\ configs[n].id = next.active
<1>1. ActiveOf(next, configs) = IF there THEN next.active ELSE first.id
  BY DEF ActiveOf, Has
<1>2. first \in ToSet(configs) /\ first.siteId = home
  <2> HIDE DEF home
  <2> QED BY FirstOfSite DEF home
<1>3. there <=> \E c \in ToSet(configs) : c.siteId = home /\ c.id = next.active
  BY DEF ToSet
<1> HIDE DEF first, there
<1> QED BY <1>1, <1>2, <1>3

LEMMA ContentsAre ==
    ASSUME SitesAssumption
    PROVE  /\ 0 \in Contents /\ NoContent \notin Contents
           /\ \A c \in ConfigRecords : c.content # NoContent => c.content \in Contents
BY DEF SitesAssumption, Contents, NoContent, ConfigRecords

\* What canonicalizeAppData makes of a view.
LEMMA CanonicalIs ==
    ASSUME SitesAssumption, NEW next, Proper(next)
    PROVE  \E D, active : Chosen(next, D, active) /\ IsTreeOf(Canonical(next), next, D, active)
<1> DEFINE configs == FilledUp(next.configs, next.sites)
           active == ActiveOf(next, configs)
           D == ToSet(configs)
           own(s) == Only(configs, {c \in ToSet(configs) : c.siteId = s.id})
           tree(s) == [site |-> s,
                       configs |-> [n \in DOMAIN own(s) |->
                                      SavedAs(next, active, s, own(s)[n])]]
<1>1. \A s \in SiteRecords : s.id \in Nat
  BY DEF SiteRecords
<1>2. configs \in Seq(ConfigRecords) /\ Fills(ToSet(next.configs), D, ToSet(next.sites))
  BY <1>1, FilledElements DEF Proper
<1>3. D \in SUBSET ConfigRecords
  BY <1>2 DEF ToSet
<1>4. \E c \in D : c.siteId = next.site.id
  BY <1>2 DEF Proper, Fills
<1>5. Canonical(next) = [site |-> next.site.id, config |-> active,
                         sites |-> [n \in DOMAIN next.sites |-> tree(next.sites[n])]]
  <2>1. \E n \in DOMAIN next.sites : next.sites[n].id = next.site.id
    BY DEF Proper, ToSet
  <2> DEFINE filled(sites) == FilledUp(next.configs, sites)
             mine(sites, s) == Only(filled(sites), {c \in ToSet(filled(sites)) : c.siteId = s.id})
             home(sites, s) == [site |-> s,
                                configs |-> [n \in DOMAIN mine(sites, s) |->
                                   SavedAs(next, ActiveOf(next, filled(sites)), s,
                                           mine(sites, s)[n])]]
             whole(sites) == [site |-> next.site.id, config |-> ActiveOf(next, filled(sites)),
                              sites |-> [n \in DOMAIN sites |-> home(sites, sites[n])]]
             sites == IF \E n \in DOMAIN next.sites : next.sites[n].id = next.site.id
                      THEN next.sites ELSE Append(next.sites, next.site)
  <2>2. Canonical(next) = whole(sites)
    BY Zenon DEF Canonical, Has, Where, SavedAs
  <2>3. sites = next.sites
    BY <2>1
  <2>4. whole(next.sites) =
           [site |-> next.site.id, config |-> active,
            sites |-> [n \in DOMAIN next.sites |-> tree(next.sites[n])]]
    BY Zenon
  <2> HIDE DEF whole, sites
  <2> QED BY <2>2, <2>3, <2>4
<1>0. \A s : own(s) = Own(next, s)
  BY DEF Own
<1> HIDE DEF configs
<1>6. /\ \E c \in D : c.siteId = next.site.id /\ c.id = active
      /\ (\E c \in D : c.siteId = next.site.id /\ c.id = next.active) => active = next.active
  BY <1>2, <1>4, ActiveOfIs
<1> HIDE DEF active
<1>7. Chosen(next, D, active)
  BY <1>2, <1>3, <1>6 DEF Chosen
<1>8. ASSUME NEW s
      PROVE  own(s) \in Seq(ConfigRecords) /\ ToSet(own(s)) = OfSite(D, s)
  <2>1. own(s) \in Seq(ConfigRecords)
    BY <1>2, OnlyElements
  <2>2. ToSet(own(s)) = ToSet(configs) \cap {c \in ToSet(configs) : c.siteId = s.id}
    BY <1>2, OnlyElements
  <2> QED BY <2>1, <2>2 DEF OfSite
<1> HIDE DEF D, own
<1>9. ASSUME NEW s \in SiteRecords
      PROVE  /\ tree(s) \in Trees
             /\ tree(s).configs = [n \in DOMAIN own(s) |-> SavedAs(next, active, s, own(s)[n])]
             /\ ToSet(tree(s).configs) = {SavedAs(next, active, s, c) : c \in OfSite(D, s)}
  <2> DEFINE o == own(s)
             saved == [n \in DOMAIN o |-> SavedAs(next, active, s, o[n])]
  <2>1. o \in Seq(ConfigRecords) /\ ToSet(o) = OfSite(D, s)
    BY <1>8
  <2> HIDE DEF o
  <2>2. \A c \in ConfigRecords : SavedAs(next, active, s, c) \in Saved
    BY ContentsAre DEF Proper, SavedAs, Saved, ConfigRecords
  <2>3. Len(o) \in Nat /\ DOMAIN o = 1..Len(o) /\ \A n \in 1..Len(o) : o[n] \in ConfigRecords
    BY <2>1
  <2>4. saved \in Seq(Saved)
    BY <2>2, <2>3
  <2>5. ToSet(saved) = {SavedAs(next, active, s, c) : c \in OfSite(D, s)}
    BY <2>1 DEF ToSet
  <2> QED BY <2>4, <2>5 DEF Trees, o
<1>10. IsTreeOf(Canonical(next), next, D, active)
  <2> DEFINE w == Canonical(next)
  <2>1. Len(next.sites) \in Nat /\ DOMAIN next.sites = 1..Len(next.sites)
    BY DEF Proper
  <2>2. \A n \in DOMAIN next.sites : next.sites[n] \in SiteRecords
    BY <2>1 DEF Proper
  <2> HIDE DEF tree
  <2>3. w.site = next.site.id /\ w.config = active
        /\ w.sites = [n \in DOMAIN next.sites |-> tree(next.sites[n])]
    BY <1>5
  <2> HIDE DEF w
  <2>4. w.sites \in Seq(Trees)
    <3>1. \A n \in DOMAIN next.sites : tree(next.sites[n]) \in Trees
      BY <1>9, <2>2
    <3> QED BY <2>1, <2>3, <3>1
  <2>5. \A n \in DOMAIN next.sites : tree(next.sites[n]).site = next.sites[n]
    BY DEF tree
  <2>6. ASSUME NEW n \in DOMAIN next.sites
        PROVE  /\ w.sites[n].site = next.sites[n]
               /\ Own(next, next.sites[n]) \in Seq(ConfigRecords)
               /\ ToSet(Own(next, next.sites[n])) = OfSite(D, next.sites[n])
               /\ w.sites[n].configs = [k \in DOMAIN Own(next, next.sites[n]) |->
                     SavedAs(next, active, next.sites[n], Own(next, next.sites[n])[k])]
               /\ ToSet(w.sites[n].configs) =
                    {SavedAs(next, active, next.sites[n], c) : c \in OfSite(D, next.sites[n])}
    <3> DEFINE s == next.sites[n]
    <3>1. s \in SiteRecords /\ w.sites[n] = tree(s) /\ own(s) = Own(next, s)
      BY <1>0, <2>2, <2>3
    <3>2. tree(s).configs = [k \in DOMAIN own(s) |-> SavedAs(next, active, s, own(s)[k])]
      BY <1>9, <3>1
    <3>3. ToSet(tree(s).configs) = {SavedAs(next, active, s, c) : c \in OfSite(D, s)}
      BY <1>9, <3>1
    <3> HIDE DEF s
    <3>4. /\ w.sites[n].configs = [k \in DOMAIN Own(next, s) |->
                                     SavedAs(next, active, s, Own(next, s)[k])]
          /\ ToSet(w.sites[n].configs) = {SavedAs(next, active, s, c) : c \in OfSite(D, s)}
      BY <3>1, <3>2, <3>3
    <3>5. Own(next, s) \in Seq(ConfigRecords) /\ ToSet(Own(next, s)) = OfSite(D, s)
      BY <1>8, <3>1
    <3> QED BY <2>3, <2>5, <3>4, <3>5 DEF s
  <2> QED BY <2>3, <2>4, <2>6 DEF IsTreeOf, w
<1> QED BY <1>7, <1>10

Views == [site : SiteRecords, sites : Seq(SiteRecords), configs : Seq(ConfigRecords),
          active : Nat \ {0}, live : Contents]

\* A configuration in a view whose active configuration is one of the site home.
Put(c, home, active) ==
    [id |-> c.id, siteId |-> c.siteId, name |-> c.name,
     content |-> IF c.siteId = home /\ c.id = active THEN NoContent
                 ELSE IF c.content = NoContent THEN 0 ELSE c.content]

OfSites(D, sites) == {c \in D : \E s \in ToSet(sites) : c.siteId = s.id}

Block(next, active, s) ==
    [k \in DOMAIN Own(next, s) |-> Put(Own(next, s)[k], next.site.id, active)]

\* The view that an operation's view becomes.
ViewOf(v, next, D, active) ==
    /\ v \in Views
    /\ v.sites = next.sites /\ v.site \in ToSet(next.sites) /\ v.site.id = next.site.id
    /\ v.active = active /\ v.live = next.live
    /\ ToSet(v.configs) = {Put(c, next.site.id, active) : c \in OfSites(D, next.sites)}
    /\ v.configs = FlattenSeq([n \in DOMAIN next.sites |-> Block(next, active, next.sites[n])])

Seen(t, c, home, active) ==
    [id |-> c.id, siteId |-> t.site.id, name |-> c.name,
     content |-> IF t.site.id = home /\ c.id = active THEN NoContent ELSE c.content]

LEMMA SeenIs ==
    ASSUME SitesAssumption, NEW next, Proper(next), NEW active, NEW s \in SiteRecords,
           NEW t, t.site = s, NEW c \in ConfigRecords, c.siteId = s.id
    PROVE  /\ Seen(t, SavedAs(next, active, s, c), next.site.id, active)
                = Put(c, next.site.id, active)
           /\ Put(c, next.site.id, active) \in ConfigRecords
<1>1. SavedAs(next, active, s, c).id = c.id /\ SavedAs(next, active, s, c).name = c.name
  BY DEF SavedAs
<1>2. CASE s.id = next.site.id /\ c.id = active
  BY <1>1, <1>2, ContentsAre DEF Seen, Put, ConfigRecords
<1>3. CASE ~(s.id = next.site.id /\ c.id = active)
  <2>1. SavedAs(next, active, s, c).content = IF c.content = NoContent THEN 0 ELSE c.content
    BY <1>3 DEF SavedAs
  <2> QED BY <1>1, <1>3, <2>1, ContentsAre DEF Seen, Put, ConfigRecords
<1> QED BY <1>2, <1>3

\* What materializeAppData makes of a tree.
LEMMA MaterializedIs ==
    ASSUME SitesAssumption, NEW next, Proper(next), NEW D, NEW active, Chosen(next, D, active),
           NEW w, IsTreeOf(w, next, D, active)
    PROVE  ViewOf(Materialized(w), next, D, active)
<1> DEFINE home == FirstOf(w.sites, LAMBDA t : t.site.id = w.site)
           shown == FirstOf(home.configs, LAMBDA c : c.id = w.config)
           seen(t) == [n \in DOMAIN t.configs |->
                         Seen(t, t.configs[n], home.site.id, shown.id)]
           all == [n \in DOMAIN w.sites |-> seen(w.sites[n])]
<1>1. /\ w.sites \in Seq(Trees) /\ next.sites \in Seq(SiteRecords)
      /\ w.site = next.site.id /\ w.config = active
      /\ D \in SUBSET ConfigRecords
  BY DEF IsTreeOf, Proper, Chosen
<1>2. Len(next.sites) \in Nat
  BY <1>1
<1>3. DOMAIN next.sites = 1..Len(next.sites) /\ DOMAIN w.sites = DOMAIN next.sites
  BY <1>1 DEF IsTreeOf
<1>4. ASSUME NEW n \in DOMAIN next.sites
      PROVE  /\ next.sites[n] \in SiteRecords /\ w.sites[n] \in Trees
             /\ w.sites[n].site = next.sites[n]
             /\ Own(next, next.sites[n]) \in Seq(ConfigRecords)
             /\ ToSet(Own(next, next.sites[n])) = OfSite(D, next.sites[n])
             /\ w.sites[n].configs = [k \in DOMAIN Own(next, next.sites[n]) |->
                   SavedAs(next, active, next.sites[n], Own(next, next.sites[n])[k])]
             /\ ToSet(w.sites[n].configs) =
                  {SavedAs(next, active, next.sites[n], c) : c \in OfSite(D, next.sites[n])}
  <2>1. Len(w.sites) \in Nat /\ DOMAIN w.sites = 1..Len(w.sites)
    BY <1>1
  <2>2. next.sites[n] \in SiteRecords
    BY <1>1, <1>2, <1>3
  <2>3. w.sites[n] \in Trees
    BY <1>1, <1>3, <2>1
  <2> QED BY <2>2, <2>3 DEF IsTreeOf
<1>5. \E t \in ToSet(w.sites) : t.site.id = w.site
  <2>1. PICK n \in DOMAIN next.sites : next.sites[n].id = next.site.id
    BY DEF Proper, ToSet
  <2> QED BY <1>1, <1>3, <1>4, <2>1 DEF ToSet
<1>6. home \in ToSet(w.sites) /\ home.site.id = w.site
  BY <1>1, <1>5, FirstTree
<1> HIDE DEF home
<1>7. PICK h \in DOMAIN next.sites : home = w.sites[h]
  BY <1>3, <1>6 DEF ToSet
<1>8. /\ home.site = next.sites[h] /\ home.site.id = next.site.id /\ home.configs \in Seq(Saved)
      /\ ToSet(home.configs) =
           {SavedAs(next, active, next.sites[h], c) : c \in OfSite(D, next.sites[h])}
  BY <1>1, <1>4, <1>6, <1>7 DEF Trees
<1>9. \E x \in ToSet(home.configs) : x.id = w.config
  <2>1. PICK c \in D : c.siteId = next.site.id /\ c.id = active
    BY DEF Chosen
  <2>2. SavedAs(next, active, next.sites[h], c) \in ToSet(home.configs)
    BY <1>8, <2>1 DEF OfSite
  <2> QED BY <1>1, <2>1, <2>2 DEF SavedAs
<1>10. shown \in ToSet(home.configs) /\ shown.id = w.config
  BY <1>8, <1>9, FirstWithId
<1> HIDE DEF shown
<1>11. shown.id = active /\ shown.content = next.live /\ active \in Nat \ {0}
  <2>1. PICK c \in OfSite(D, next.sites[h]) :
             shown = SavedAs(next, active, next.sites[h], c)
    BY <1>8, <1>10
  <2>2. c \in ConfigRecords /\ c.id = active
    BY <1>1, <1>10, <2>1 DEF OfSite, SavedAs
  <2> QED BY <1>1, <1>8, <1>10, <2>1, <2>2 DEF SavedAs, ConfigRecords
<1>12. Materialized(w) =
          [site |-> home.site, sites |-> [n \in DOMAIN w.sites |-> w.sites[n].site],
           configs |-> FlattenSeq(all), active |-> shown.id, live |-> shown.content]
  <2>1. \E n \in DOMAIN w.sites : w.sites[n].site.id = w.site
    BY <1>5 DEF ToSet
  <2>2. \E n \in DOMAIN home.configs : home.configs[n].id = w.config
    BY <1>9 DEF ToSet
  <2> DEFINE first == IF \E n \in DOMAIN w.sites : w.sites[n].site.id = w.site
                      THEN FirstOf(w.sites, LAMBDA t : t.site.id = w.site) ELSE Head(w.sites)
             its(t) == IF \E n \in DOMAIN t.configs : t.configs[n].id = w.config
                       THEN FirstOf(t.configs, LAMBDA c : c.id = w.config)
                       ELSE Head(t.configs)
             whole(t, c) ==
               [site |-> t.site, sites |-> [n \in DOMAIN w.sites |-> w.sites[n].site],
                configs |-> FlattenSeq([n \in DOMAIN w.sites |->
                   [m \in DOMAIN w.sites[n].configs |->
                      Seen(w.sites[n], w.sites[n].configs[m], t.site.id, c.id)]]),
                active |-> c.id, live |-> c.content]
  <2>3. Materialized(w) = whole(first, its(first))
    BY Zenon DEF Materialized, Has, Seen
  <2>4. first = home
    BY <2>1 DEF home
  <2>5. its(home) = shown
    BY <2>2 DEF shown
  <2>6. whole(home, shown) =
          [site |-> home.site, sites |-> [n \in DOMAIN w.sites |-> w.sites[n].site],
           configs |-> FlattenSeq(all), active |-> shown.id, live |-> shown.content]
    BY Zenon
  <2> HIDE DEF whole, first, its, all
  <2> QED BY <2>3, <2>4, <2>5, <2>6
<1>13. [n \in DOMAIN w.sites |-> w.sites[n].site] = next.sites
  <2>1. \A n \in DOMAIN next.sites : w.sites[n].site = next.sites[n]
    BY <1>4
  <2> QED BY <1>1, <1>3, <2>1
<1>14. ASSUME NEW n \in DOMAIN w.sites
       PROVE  /\ seen(w.sites[n]) \in Seq(ConfigRecords)
              /\ seen(w.sites[n]) = Block(next, active, next.sites[n])
              /\ ToSet(seen(w.sites[n])) =
                   {Put(c, next.site.id, active) : c \in OfSite(D, next.sites[n])}
  <2> DEFINE t == w.sites[n]
             s == next.sites[n]
  <2>1. /\ s \in SiteRecords /\ t.site = s /\ t.configs \in Seq(Saved)
        /\ Own(next, s) \in Seq(ConfigRecords) /\ ToSet(Own(next, s)) = OfSite(D, s)
        /\ t.configs = [k \in DOMAIN Own(next, s) |-> SavedAs(next, active, s, Own(next, s)[k])]
        /\ ToSet(t.configs) = {SavedAs(next, active, s, c) : c \in OfSite(D, s)}
    BY <1>3, <1>4 DEF Trees
  <2>2. seen(t) = [m \in DOMAIN t.configs |-> Seen(t, t.configs[m], next.site.id, active)]
    BY <1>8, <1>11
  <2> HIDE DEF t, s, seen
  <2>3. \A c \in OfSite(D, s) :
           /\ Seen(t, SavedAs(next, active, s, c), next.site.id, active)
                = Put(c, next.site.id, active)
           /\ Put(c, next.site.id, active) \in ConfigRecords
    <3>1. s \in SiteRecords /\ t.site = s
      BY <2>1
    <3>2. ASSUME NEW c \in OfSite(D, s)
          PROVE  /\ Seen(t, SavedAs(next, active, s, c), next.site.id, active)
                      = Put(c, next.site.id, active)
                 /\ Put(c, next.site.id, active) \in ConfigRecords
      <4>1. c \in ConfigRecords /\ c.siteId = s.id
        BY <1>1 DEF OfSite
      <4> QED BY <3>1, <4>1, SeenIs
    <3> QED BY <3>2
  <2>4. \A m \in DOMAIN t.configs : \E c \in OfSite(D, s) :
           t.configs[m] = SavedAs(next, active, s, c)
    BY <2>1 DEF ToSet
  <2>5. \A c \in OfSite(D, s) : \E m \in DOMAIN t.configs :
           t.configs[m] = SavedAs(next, active, s, c)
    BY <2>1 DEF ToSet
  <2>6. Len(t.configs) \in Nat /\ DOMAIN t.configs = 1..Len(t.configs)
    BY <2>1
  <2>7. \A m \in DOMAIN t.configs : seen(t)[m] \in ConfigRecords
    BY <2>2, <2>3, <2>4
  <2>8. DOMAIN seen(t) = DOMAIN t.configs
    BY <2>2
  <2>9. seen(t) \in Seq(ConfigRecords)
    BY <2>2, <2>6, <2>7
  <2>10. ToSet(seen(t)) = {Put(c, next.site.id, active) : c \in OfSite(D, s)}
    BY <2>2, <2>3, <2>4, <2>5, <2>8 DEF ToSet
  <2>11. seen(t) = Block(next, active, s)
    <3> DEFINE o == Own(next, s)
    <3>1. t.configs = [k \in DOMAIN o |-> SavedAs(next, active, s, o[k])]
      BY <2>1
    <3>2. o \in Seq(ConfigRecords) /\ ToSet(o) = OfSite(D, s)
      BY <2>1
    <3> HIDE DEF o
    <3>3. \A k \in DOMAIN o : o[k] \in OfSite(D, s)
      BY <3>2 DEF ToSet
    <3>4. \A k \in DOMAIN o :
             Seen(t, SavedAs(next, active, s, o[k]), next.site.id, active)
                = Put(o[k], next.site.id, active)
      BY <2>3, <3>3
    <3>5. seen(t) = [k \in DOMAIN o |-> Put(o[k], next.site.id, active)]
      BY <2>2, <3>1, <3>4
    <3> QED BY <3>5 DEF Block, o
  <2> QED BY <2>9, <2>10, <2>11 DEF s, t
<1> HIDE DEF seen
<1>15. all \in Seq(Seq(ConfigRecords)) /\ DOMAIN all = DOMAIN next.sites
  BY <1>2, <1>3, <1>14
<1>16. \A n \in DOMAIN all : all[n] = seen(w.sites[n])
  OBVIOUS
<1> HIDE DEF all
<1>17. /\ FlattenSeq(all) \in Seq(ConfigRecords)
       /\ ToSet(FlattenSeq(all)) = UNION {ToSet(all[n]) : n \in DOMAIN all}
  BY <1>15, FlattenElements
<1>18. ToSet(FlattenSeq(all)) = {Put(c, next.site.id, active) : c \in OfSites(D, next.sites)}
  <2>1. \A n \in DOMAIN next.sites :
           ToSet(all[n]) = {Put(c, next.site.id, active) : c \in OfSite(D, next.sites[n])}
    BY <1>3, <1>14, <1>15, <1>16
  <2>2. \A c : c \in OfSites(D, next.sites) <=> \E n \in DOMAIN next.sites :
           c \in OfSite(D, next.sites[n])
    BY DEF OfSites, OfSite, ToSet
  <2>3. ASSUME NEW x
        PROVE  x \in UNION {ToSet(all[n]) : n \in DOMAIN all} <=>
                 x \in {Put(c, next.site.id, active) : c \in OfSites(D, next.sites)}
    <3>1. x \in UNION {ToSet(all[n]) : n \in DOMAIN all} <=>
             \E n \in DOMAIN next.sites : x \in ToSet(all[n])
      BY <1>15
    <3>2. (\E n \in DOMAIN next.sites : x \in ToSet(all[n])) <=>
             \E n \in DOMAIN next.sites : \E c \in OfSite(D, next.sites[n]) :
                x = Put(c, next.site.id, active)
      BY <2>1
    <3> QED BY <2>2, <3>1, <3>2
  <2> QED BY <1>17, <2>3
<1>19. all = [n \in DOMAIN next.sites |-> Block(next, active, next.sites[n])]
  <2>1. all = [n \in DOMAIN w.sites |-> seen(w.sites[n])]
    BY DEF all
  <2>2. \A n \in DOMAIN w.sites : seen(w.sites[n]) = Block(next, active, next.sites[n])
    BY <1>14
  <2> QED BY <1>3, <2>1, <2>2
<1>20. home.site \in ToSet(next.sites) /\ home.site \in SiteRecords
  BY <1>4, <1>7, <1>8 DEF ToSet
<1> DEFINE v == Materialized(w)
<1>21. /\ v = [site |-> home.site, sites |-> next.sites, configs |-> FlattenSeq(all),
               active |-> active, live |-> next.live]
       /\ next.live \in Contents
  BY <1>11, <1>12, <1>13 DEF Proper
<1> HIDE DEF v
<1>22. v \in Views
  BY <1>1, <1>11, <1>17, <1>20, <1>21 DEF Views
<1>23. /\ v.sites = next.sites /\ v.site \in ToSet(next.sites) /\ v.site.id = next.site.id
       /\ v.active = active /\ v.live = next.live /\ v.configs = FlattenSeq(all)
  BY <1>8, <1>20, <1>21
<1>24. ViewOf(v, next, D, active)
  BY <1>18, <1>19, <1>22, <1>23 DEF ViewOf
<1> QED BY <1>24 DEF v

\* setData: what becomes of the view an operation makes.
LEMMA SetDataView ==
    ASSUME SitesAssumption, NEW next, Proper(next)
    PROVE  \E D, active : /\ Chosen(next, D, active)
                          /\ ViewOf(Materialized(Canonical(next)), next, D, active)
<1>1. PICK D, active : Chosen(next, D, active) /\ IsTreeOf(Canonical(next), next, D, active)
  BY CanonicalIs
<1>2. ViewOf(Materialized(Canonical(next)), next, D, active)
  BY <1>1, MaterializedIs
<1> QED BY <1>1, <1>2

-----------------------------------------------------------------------------
(* The inductive invariant *)

\* Configurations of one ID are the same.  (There are several only when two
\* sites share an ID.)
Alike(C) == \A c, d \in C : c.id = d.id => c = d

\* Every configuration is of a site, every site has one; only the active one,
\* which is of the site that is shown, has its content on top.
ViewInv(v) ==
    /\ v \in Views /\ v.site \in ToSet(v.sites)
    /\ \A c \in ToSet(v.configs) : \E s \in ToSet(v.sites) : c.siteId = s.id
    /\ \A s \in ToSet(v.sites) : \E c \in ToSet(v.configs) : c.siteId = s.id
    /\ Alike(ToSet(v.configs))
    /\ \A c \in ToSet(v.configs) :
          c.content = NoContent <=> c.siteId = v.site.id /\ c.id = v.active
    /\ \E c \in ToSet(v.configs) : c.siteId = v.site.id /\ c.id = v.active

\* Two sites have the ID.
Shared(sites, id) ==
    \E i, j \in DOMAIN sites : i # j /\ sites[i].id = id /\ sites[j].id = id

\* A configuration that is there twice is of sites that share their ID.  (One
\* of no site will be dropped.)
Apart(configs, sites) ==
    \A x : Repeated(configs, x) /\ (\E s \in ToSet(sites) : s.id = x.siteId)
             => Shared(sites, x.siteId)

\* The configurations are in the order of their sites.
InBlocks(v, b) ==
    /\ b \in Seq(Seq(ConfigRecords)) /\ DOMAIN b = DOMAIN v.sites
    /\ v.configs = FlattenSeq(b)
    /\ \A n \in DOMAIN b :
          /\ \A c \in ToSet(b[n]) : c.siteId = v.sites[n].id
          /\ \A x : Repeated(b[n], x) => Shared(v.sites, v.sites[n].id)
Ordered(v) == \E b : InBlocks(v, b)

\* No tag is given out twice, except that sites of one ID are overwritten
\* together.
TagsTell(S, top) ==
    /\ \A s \in S : s.tag <= top
    /\ \A s, t \in S : s.tag = t.tag => s.id = t.id

SitesInv ==
    /\ ViewInv(view) /\ Ordered(view) /\ TagsTell(ToSet(view.sites), made)
    /\ made \in 1..SitesMax /\ updates \in 0..UpdatesMax /\ edits \in Contents

\* An import knows no site but those of its file's ID.
ImportsFit ==
    /\ importing \subseteq Imports
    /\ \A read \in importing : \A s \in read.found : s.id = read.file.id

\* Those that canonicalizeAppData makes up have IDs of their own.
LEMMA FillsAlike ==
    ASSUME NEW C, NEW D \in SUBSET ConfigRecords, NEW S, Fills(C, D, S), Alike(C)
    PROVE  Alike(D)
<1>1. \A c \in ConfigRecords : c.id \in Nat
  BY DEF ConfigRecords
<1>2. ASSUME NEW c \in D, NEW d \in D, c.id = d.id PROVE c = d
  <2>1. c.id \in Nat /\ d.id \in Nat
    BY <1>1
  <2>2. CASE c \in C /\ d \in C
    BY <1>2, <2>2 DEF Alike
  <2>3. CASE c \notin C /\ d \notin C
    BY <1>2, <2>3 DEF Fills
  <2>4. CASE c \in C /\ d \notin C
    <3>1. c.id < d.id
      BY <2>4 DEF Fills
    <3> QED BY <1>2, <2>1, <3>1
  <2>5. CASE c \notin C /\ d \in C
    <3>1. d.id < c.id
      BY <2>5 DEF Fills
    <3> QED BY <1>2, <2>1, <3>1
  <2> QED BY <2>2, <2>3, <2>4, <2>5
<1> QED BY <1>2 DEF Alike

\* Whatever an operation makes, setData makes a whole view of it.
LEMMA ViewIsWhole ==
    ASSUME SitesAssumption, NEW next, Proper(next), Alike(ToSet(next.configs)),
           NEW D, NEW active, Chosen(next, D, active), NEW v, ViewOf(v, next, D, active)
    PROVE  ViewInv(v)
<1> DEFINE home == next.site.id
           whole == OfSites(D, next.sites)
<1>1. v \in Views /\ v.sites = next.sites /\ v.site \in ToSet(next.sites)
      /\ v.site.id = home /\ v.active = active
      /\ ToSet(v.configs) = {Put(c, home, active) : c \in whole}
  BY DEF ViewOf
<1>2. D \subseteq ConfigRecords /\ Fills(ToSet(next.configs), D, ToSet(next.sites))
  BY DEF Chosen
<1>3. \A c \in D : Put(c, home, active).id = c.id /\ Put(c, home, active).siteId = c.siteId
  BY DEF Put
<1>4. Alike(D)
  BY <1>2, FillsAlike
<1>5. \A c \in whole : c \in D /\ \E s \in ToSet(next.sites) : c.siteId = s.id
  BY DEF OfSites
<1>6. \A c \in ToSet(v.configs) : \E s \in ToSet(v.sites) : c.siteId = s.id
  BY <1>1, <1>3, <1>5
<1>7. ASSUME NEW s \in ToSet(v.sites)
      PROVE  \E c \in ToSet(v.configs) : c.siteId = s.id
  <2>1. PICK c \in D : c.siteId = s.id
    BY <1>1, <1>2 DEF Fills
  <2>2. Put(c, home, active) \in ToSet(v.configs)
    BY <1>1, <2>1 DEF OfSites
  <2> QED BY <1>3, <2>1, <2>2
<1>8. Alike(ToSet(v.configs))
  <2>1. ASSUME NEW x \in ToSet(v.configs), NEW y \in ToSet(v.configs), x.id = y.id
        PROVE  x = y
    <3>1. PICK c \in whole : x = Put(c, home, active)
      BY <1>1
    <3>2. PICK d \in whole : y = Put(d, home, active)
      BY <1>1
    <3>3. c.id = d.id
      BY <1>3, <1>5, <2>1, <3>1, <3>2
    <3>4. c = d
      BY <1>4, <1>5, <3>3 DEF Alike
    <3> QED BY <3>1, <3>2, <3>4
  <2> QED BY <2>1 DEF Alike
<1>9. ASSUME NEW x \in ToSet(v.configs)
      PROVE  x.content = NoContent <=> x.siteId = v.site.id /\ x.id = v.active
  <2>1. PICK c \in whole : x = Put(c, home, active)
    BY <1>1
  <2>2. c \in ConfigRecords
    BY <1>2, <1>5
  <2>3. NoContent # 0
    BY ContentsAre
  <2> QED BY <1>1, <2>1, <2>2, <2>3 DEF Put
<1>10. \E c \in ToSet(v.configs) : c.siteId = v.site.id /\ c.id = v.active
  <2>1. PICK c \in D : c.siteId = home /\ c.id = active
    BY DEF Chosen
  <2>2. c \in whole
    BY <2>1 DEF OfSites, Proper
  <2> QED BY <1>1, <1>3, <2>1, <2>2
<1> QED BY <1>1, <1>6, <1>7, <1>8, <1>9, <1>10 DEF ViewInv

LEMMA PutIs ==
    ASSUME SitesAssumption, NEW c \in ConfigRecords, NEW home, NEW active
    PROVE  /\ Put(c, home, active) \in ConfigRecords
           /\ Put(c, home, active).id = c.id /\ Put(c, home, active).siteId = c.siteId
BY ContentsAre DEF Put, ConfigRecords

\* And it puts them in the order of their sites.
LEMMA ViewIsOrdered ==
    ASSUME SitesAssumption, NEW next, Proper(next), Alike(ToSet(next.configs)),
           Apart(next.configs, next.sites),
           NEW D, NEW active, NEW v, ViewOf(v, next, D, active)
    PROVE  Ordered(v)
<1> DEFINE filled == FilledUp(next.configs, next.sites)
           b == [n \in DOMAIN next.sites |-> Block(next, active, next.sites[n])]
<1>1. /\ filled \in Seq(ConfigRecords)
      /\ Fills(ToSet(next.configs), ToSet(filled), ToSet(next.sites))
      /\ \A x : Repeated(filled, x) => Repeated(next.configs, x)
  <2>1. \A s \in SiteRecords : s.id \in Nat
    BY DEF SiteRecords
  <2> HIDE DEF filled
  <2> QED BY <2>1, FilledElements DEF Proper, filled
<1>2. ASSUME NEW s
      PROVE  /\ Own(next, s) \in Seq(ConfigRecords)
             /\ \A c \in ToSet(Own(next, s)) : c \in ToSet(filled) /\ c.siteId = s.id
             /\ \A x : Repeated(Own(next, s), x) => Repeated(filled, x)
  <2> DEFINE mine == {c \in ToSet(filled) : c.siteId = s.id}
  <2>1. Own(next, s) = Only(filled, mine)
    BY DEF Own
  <2> HIDE DEF filled
  <2>2. /\ Only(filled, mine) \in Seq(ConfigRecords)
        /\ ToSet(Only(filled, mine)) = ToSet(filled) \cap mine
    BY <1>1, OnlyElements
  <2> HIDE DEF mine
  <2>3. \A x : Repeated(Only(filled, mine), x) => Repeated(filled, x)
    BY <1>1, OnlyRepeated
  <2> QED BY <2>1, <2>2, <2>3 DEF mine
<1> HIDE DEF filled
<1>3. Alike(ToSet(filled)) /\ ToSet(filled) \subseteq ConfigRecords
  <2>1. ToSet(filled) \subseteq ConfigRecords
    BY <1>1 DEF ToSet
  <2> QED BY <1>1, <2>1, FillsAlike
<1>4. ASSUME NEW s \in ToSet(next.sites)
      PROVE  /\ Block(next, active, s) \in Seq(ConfigRecords)
             /\ \A c \in ToSet(Block(next, active, s)) : c.siteId = s.id
             /\ \A x : Repeated(Block(next, active, s), x) => Shared(next.sites, s.id)
  <2> DEFINE o == Own(next, s)
             put(c) == Put(c, next.site.id, active)
             row == [k \in DOMAIN o |-> put(o[k])]
  <2>1. /\ o \in Seq(ConfigRecords)
        /\ \A c \in ToSet(o) : c \in ToSet(filled) /\ c \in ConfigRecords /\ c.siteId = s.id
        /\ \A x : Repeated(o, x) => Repeated(filled, x)
    BY <1>2, <1>3
  <2>2. Block(next, active, s) = row
    BY DEF Block
  <2> HIDE DEF o
  <2>3. Len(o) \in Nat /\ DOMAIN o = 1..Len(o) /\ \A k \in DOMAIN o : o[k] \in ToSet(o)
    BY <2>1 DEF ToSet
  <2>4. \A c \in ToSet(o) : put(c) \in ConfigRecords /\ put(c).id = c.id /\ put(c).siteId = c.siteId
    BY <2>1, PutIs
  <2> HIDE DEF put
  <2>5. row \in Seq(ConfigRecords)
    BY <2>3, <2>4
  <2>6. \A c \in ToSet(row) : c.siteId = s.id
    BY <2>1, <2>3, <2>4 DEF ToSet
  <2>7. ASSUME NEW x, Repeated(row, x) PROVE Shared(next.sites, s.id)
    <3>1. PICK i \in DOMAIN o, j \in DOMAIN o : i # j /\ put(o[i]) = x /\ put(o[j]) = x
      BY <2>7 DEF Repeated
    <3>2. o[i] \in ToSet(o) /\ o[j] \in ToSet(o)
      BY <2>3
    <3>3. o[i].id = o[j].id
      BY <2>4, <3>1, <3>2
    <3>4. o[i] = o[j]
      BY <1>3, <2>1, <3>2, <3>3 DEF Alike
    <3>5. Repeated(o, o[i])
      BY <3>1, <3>4 DEF Repeated
    <3>6. Repeated(next.configs, o[i]) /\ o[i].siteId = s.id
      BY <1>1, <2>1, <3>2, <3>5
    <3> QED BY <3>6 DEF Apart
  <2> HIDE DEF row
  <2> QED BY <2>2, <2>5, <2>6, <2>7
<1>5. Len(next.sites) \in Nat /\ DOMAIN next.sites = 1..Len(next.sites)
  BY DEF Proper
<1>6. \A n \in DOMAIN next.sites : next.sites[n] \in ToSet(next.sites)
  BY DEF ToSet
<1>7. b \in Seq(Seq(ConfigRecords)) /\ DOMAIN b = DOMAIN next.sites
  <2>1. \A n \in DOMAIN next.sites : Block(next, active, next.sites[n]) \in Seq(ConfigRecords)
    BY <1>4, <1>6
  <2> QED BY <1>5, <2>1
<1>8. v.sites = next.sites /\ v.configs = FlattenSeq(b)
  BY DEF ViewOf
<1>9. \A n \in DOMAIN next.sites : b[n] = Block(next, active, next.sites[n])
  OBVIOUS
<1> HIDE DEF b
<1>10. InBlocks(v, b)
  BY <1>4, <1>6, <1>7, <1>8, <1>9 DEF InBlocks
<1> QED BY <1>10 DEF Ordered

LEMMA InitSites == SitesAssumption /\ SitesInit => SitesInv /\ ImportsFit
<1> SUFFICES ASSUME SitesAssumption, SitesInit PROVE SitesInv /\ ImportsFit
  OBVIOUS
<1> DEFINE home == [id |-> 1, siteId |-> 1, name |-> "Home", content |-> NoContent]
           next == [site |-> StarterSite, sites |-> <<StarterSite>>, configs |-> <<home>>,
                    active |-> 1, live |-> 0]
<1>1. StarterSite \in SiteRecords /\ home \in ConfigRecords
  BY DEF SitesAssumption, StarterSite, SiteRecords, ConfigRecords, Names
<1>2. ToSet(<<StarterSite>>) = {StarterSite} /\ ToSet(<<home>>) = {home}
  BY DEF ToSet
<1>3. Proper(next) /\ Alike(ToSet(next.configs))
  BY <1>1, <1>2, ContentsAre DEF Proper, Alike
<1>4. view = Materialized(Canonical(next))
  BY DEF SitesInit
<1> HIDE DEF next
<1>5. PICK D, active : Chosen(next, D, active) /\ ViewOf(view, next, D, active)
  BY <1>3, <1>4, SetDataView
<1>6. ViewInv(view) /\ Ordered(view)
  <2>1. Apart(next.configs, next.sites)
    BY DEF next, Apart, Repeated
  <2>2. ViewInv(view)
    BY <1>3, <1>5, ViewIsWhole
  <2>3. Ordered(view)
    BY <1>3, <1>5, <2>1, ViewIsOrdered
  <2> QED BY <2>2, <2>3
<1>7. ToSet(view.sites) = {StarterSite}
  BY <1>2, <1>5 DEF ViewOf, next
<1>8. TagsTell(ToSet(view.sites), 1)
  BY <1>7 DEF TagsTell, StarterSite
<1>9. importing = {} /\ made = 1 /\ updates = 0 /\ edits = 0
  BY DEF SitesInit
<1> QED BY <1>6, <1>8, <1>9, ContentsAre DEF SitesInv, ImportsFit, SitesAssumption

-----------------------------------------------------------------------------
(* What every operation has in common *)

\* The view an operation makes, when it forgets no site's configurations.
Whole(next) ==
    /\ Proper(next) /\ Alike(ToSet(next.configs)) /\ Apart(next.configs, next.sites)
    /\ \A s \in ToSet(next.sites) : \E c \in ToSet(next.configs) : c.siteId = s.id
    /\ \E c \in ToSet(next.configs) : c.siteId = next.site.id /\ c.id = next.active

\* Nothing is made up in it.
LEMMA WholeChosen ==
    ASSUME NEW next, Whole(next), NEW D, NEW active, Chosen(next, D, active)
    PROVE  D = ToSet(next.configs) /\ active = next.active
<1> DEFINE C == ToSet(next.configs)
<1>1. Fills(C, D, ToSet(next.sites))
  BY DEF Chosen
<1>2. D = C
  <2>1. ASSUME NEW e \in D \ C PROVE FALSE
    <3>1. PICK s \in ToSet(next.sites) : e.siteId = s.id
      BY <1>1 DEF Fills
    <3>2. PICK c \in C : c.siteId = s.id
      BY DEF Whole
    <3> QED BY <1>1, <3>1, <3>2 DEF Fills
  <2> QED BY <1>1, <2>1 DEF Fills
<1> QED BY <1>2 DEF Chosen, Whole

LEMMA WholeView ==
    ASSUME SitesAssumption, NEW next, Whole(next), SetData(next)
    PROVE  /\ ViewOf(view', next, ToSet(next.configs), next.active)
           /\ ViewInv(view') /\ Ordered(view')
<1>1. PICK D, active : /\ Chosen(next, D, active)
                       /\ ViewOf(Materialized(Canonical(next)), next, D, active)
  BY SetDataView DEF Whole
<1>2. D = ToSet(next.configs) /\ active = next.active
  BY <1>1, WholeChosen
<1>3. view' = Materialized(Canonical(next))
  BY DEF SetData
<1>4. /\ ViewOf(view', next, ToSet(next.configs), next.active)
      /\ Chosen(next, ToSet(next.configs), next.active)
  BY <1>1, <1>2, <1>3
<1>5. Proper(next) /\ Alike(ToSet(next.configs)) /\ Apart(next.configs, next.sites)
  BY DEF Whole
<1>6. ViewInv(view')
  BY <1>4, <1>5, ViewIsWhole
<1>7. Ordered(view')
  BY <1>4, <1>5, ViewIsOrdered
<1> QED BY <1>4, <1>6, <1>7

HeldBy(v, c) == IF c.content = NoContent THEN v.live ELSE c.content
HeldIn(v, id) == {HeldBy(v, c) : c \in {x \in ToSet(v.configs) : x.id = id}}

LEMMA HeldIsOne ==
    ASSUME NEW v, ViewInv(v), NEW c \in ToSet(v.configs)
    PROVE  HeldIn(v, c.id) = {HeldBy(v, c)}
BY DEF HeldIn, ViewInv, Alike

LEMMA HeldTyped ==
    ASSUME SitesAssumption, NEW v, ViewInv(v), NEW c \in ToSet(v.configs)
    PROVE  c \in ConfigRecords /\ HeldBy(v, c) \in Contents
<1>1. v.live \in Contents /\ v.configs \in Seq(ConfigRecords)
  BY DEF ViewInv, Views
<1>2. c \in ConfigRecords
  BY <1>1 DEF ToSet
<1> QED BY <1>1, <1>2, ContentsAre DEF HeldBy

\* What a configuration held, it holds in the view an operation makes: on top
\* when it is to be active, in itself otherwise.
Carries(next) ==
    \A c \in ToSet(view.configs), d \in ToSet(next.configs) : c.id = d.id =>
       \/ edits' # edits /\ d.id = next.active /\ next.live = edits'
       \/ HeldBy(view, c) = IF d.siteId = next.site.id /\ d.id = next.active THEN next.live
                            ELSE d.content

LEMMA ContentsStay ==
    ASSUME SitesAssumption, ViewInv(view), NEW next, Whole(next), SetData(next), Carries(next)
    PROVE  KeepsContents
<1> DEFINE home == next.site.id
<1>1. ViewOf(view', next, ToSet(next.configs), next.active) /\ ViewInv(view')
  BY WholeView
<1>2. ASSUME NEW id \in ConfigIds \cap ConfigIds'
      PROVE  \/ HeldIn(view', id) = HeldIn(view, id)
             \/ edits' # edits /\ id = view'.active /\ HeldIn(view', id) = {edits'}
  <2>1. PICK c \in ToSet(view.configs) : c.id = id
    BY DEF ConfigIds, ToSet
  <2>2. PICK x \in ToSet(view'.configs) : x.id = id
    BY DEF ConfigIds, ToSet
  <2>3. PICK d \in ToSet(next.configs) : x = Put(d, home, next.active)
    BY <1>1 DEF ViewOf, OfSites
  <2>4. d.id = id /\ view'.active = next.active /\ view'.live = next.live
    BY <1>1, <2>2, <2>3 DEF Put, ViewOf
  <2>5. HeldIn(view, id) = {HeldBy(view, c)} /\ HeldIn(view', id) = {HeldBy(view', x)}
    BY <1>1, <2>1, <2>2, HeldIsOne
  <2>6. HeldBy(view, c) \in Contents
    BY HeldTyped
  <2>7. HeldBy(view', x) = IF d.siteId = home /\ d.id = next.active THEN next.live
                           ELSE IF d.content = NoContent THEN 0 ELSE d.content
    BY <2>3, <2>4, ContentsAre DEF HeldBy, Put
  <2>8. CASE edits' # edits /\ d.id = next.active /\ next.live = edits'
    <3>1. x.content = NoContent
      <4>1. PICK y \in ToSet(view'.configs) :
                 y.siteId = view'.site.id /\ y.id = view'.active
        BY <1>1 DEF ViewInv
      <4>2. y = x
        BY <1>1, <2>2, <2>4, <2>8, <4>1 DEF ViewInv, Alike
      <4> QED BY <1>1, <4>1, <4>2 DEF ViewInv
    <3> QED BY <2>4, <2>5, <2>8, <3>1 DEF HeldBy
  <2>9. CASE HeldBy(view, c) = IF d.siteId = home /\ d.id = next.active THEN next.live
                               ELSE d.content
    BY <2>5, <2>6, <2>7, <2>9, ContentsAre
  <2> QED BY <2>1, <2>4, <2>8, <2>9 DEF Carries
<1>3. \A id : Held(id) = HeldIn(view, id) /\ Held(id)' = HeldIn(view', id)
  BY DEF Held, HeldIn, HeldBy
<1> QED BY <1>2, <1>3 DEF KeepsContents

\* A configuration that is not forgotten is not lost.
LEMMA ConfigurationsStay ==
    ASSUME NEW next, NEW D, NEW active, ViewOf(view', next, D, active),
           \A c \in ToSet(view.configs) : \E d \in OfSites(D, next.sites) : d.id = c.id
    PROVE  KeepsConfigurations
<1>1. ASSUME NEW id \in ConfigIds PROVE id \in ConfigIds'
  <2>1. PICK c \in ToSet(view.configs) : c.id = id
    BY DEF ConfigIds, ToSet
  <2>2. PICK d \in OfSites(D, next.sites) : d.id = c.id
    OBVIOUS
  <2>3. Put(d, next.site.id, active) \in ToSet(view'.configs)
    BY <2>2 DEF ViewOf
  <2>4. Put(d, next.site.id, active).id = id
    BY <2>1, <2>2 DEF Put
  <2> QED BY <2>3, <2>4 DEF ConfigIds, ToSet
<1> QED BY <1>1 DEF KeepsConfigurations, Lost

\* With distinct site IDs a site can be told by its tag.
LEMMA SitesDiffer ==
    ASSUME SitesInv, DistinctSites, NEW s \in ToSet(view.sites), NEW t \in ToSet(view.sites),
           s.tag = t.tag \/ s.id = t.id
    PROVE  s = t
BY DEF SitesInv, TagsTell, DistinctSites, ToSet

LEMMA SitesStay ==
    ASSUME SitesInv, view'.sites = view.sites
    PROVE  KeepsSites /\ TagsTell(ToSet(view'.sites), made)
<1>1. SiteTags' = SiteTags
  BY DEF SiteTags
<1>2. ASSUME DistinctSites, NEW s \in ToSet(view.sites), NEW t \in ToSet(view'.sites), s.tag = t.tag
      PROVE  s = t
  BY <1>2, SitesDiffer
<1> QED BY <1>1, <1>2 DEF KeepsSites, Kept, SitesInv

\* The configurations are those there were, the content of the active one
\* among them.
Away(c) == IF c.id = view.active THEN WithContent(c, view.live) ELSE c

LEMMA PutAwayIs ==
    ASSUME SitesAssumption, ViewInv(view)
    PROVE  /\ PutAway \in Seq(ConfigRecords)
           /\ ToSet(PutAway) = {Away(c) : c \in ToSet(view.configs)}
           /\ \A c \in ToSet(view.configs) :
                 /\ Away(c) \in ConfigRecords /\ Away(c).id = c.id
                 /\ Away(c).siteId = c.siteId /\ Away(c).name = c.name
                 /\ Away(c).content = HeldBy(view, c) /\ Away(c).content \in Contents
           /\ Alike(ToSet(PutAway))
<1>1. view.configs \in Seq(ConfigRecords) /\ view.live \in Contents
  BY DEF ViewInv, Views
<1>2. ASSUME NEW c \in ToSet(view.configs)
      PROVE  /\ Away(c) \in ConfigRecords /\ Away(c).id = c.id
             /\ Away(c).siteId = c.siteId /\ Away(c).name = c.name
             /\ Away(c).content = HeldBy(view, c) /\ Away(c).content \in Contents
  <2>1. c \in ConfigRecords /\ HeldBy(view, c) \in Contents
    BY HeldTyped
  <2>2. c.content = NoContent <=> c.id = view.active
    BY DEF ViewInv, Alike
  <2> QED BY <1>1, <2>1, <2>2 DEF Away, WithContent, ConfigRecords, HeldBy
<1>3. PutAway = [n \in DOMAIN view.configs |-> Away(view.configs[n])]
  BY DEF PutAway, Mapped, Away
<1>4. Len(view.configs) \in Nat /\ DOMAIN view.configs = 1..Len(view.configs)
  BY <1>1
<1>5. \A n \in DOMAIN view.configs : view.configs[n] \in ToSet(view.configs)
  BY DEF ToSet
<1>6. PutAway \in Seq(ConfigRecords)
  BY <1>2, <1>3, <1>4, <1>5
<1>7. ToSet(PutAway) = {Away(c) : c \in ToSet(view.configs)}
  BY <1>3 DEF ToSet
<1>8. Alike(ToSet(PutAway))
  BY <1>2, <1>7 DEF Alike, ViewInv
<1> QED BY <1>2, <1>6, <1>7, <1>8

With(c, id, content) == IF c.id = id THEN WithContent(c, content) ELSE c

LEMMA WithIs ==
    ASSUME NEW c \in ConfigRecords, NEW id, NEW content \in Contents \cup {NoContent}
    PROVE  /\ With(c, id, content) \in ConfigRecords
           /\ With(c, id, content).id = c.id /\ With(c, id, content).siteId = c.siteId
           /\ With(c, id, content).content = IF c.id = id THEN content ELSE c.content
BY DEF With, WithContent, ConfigRecords

LEMMA MappedContent ==
    ASSUME NEW s \in Seq(ConfigRecords), NEW id, NEW content \in Contents \cup {NoContent}
    PROVE  LET mapped == [n \in DOMAIN s |-> With(s[n], id, content)]
           IN  /\ mapped \in Seq(ConfigRecords)
               /\ ToSet(mapped) = {With(c, id, content) : c \in ToSet(s)}
<1> DEFINE mapped == [n \in DOMAIN s |-> With(s[n], id, content)]
<1>1. Len(s) \in Nat /\ DOMAIN s = 1..Len(s) /\ \A n \in 1..Len(s) : s[n] \in ConfigRecords
  OBVIOUS
<1>2. \A n \in DOMAIN s : With(s[n], id, content) \in ConfigRecords
  BY <1>1, WithIs
<1>3. mapped \in Seq(ConfigRecords)
  BY <1>1, <1>2
<1>4. ToSet(mapped) = {With(c, id, content) : c \in ToSet(s)}
  BY DEF ToSet
<1> QED BY <1>3, <1>4

LEMMA InSites ==
    ASSUME ViewInv(view), NEW c \in ToSet(view.configs)
    PROVE  \E s \in ToSet(view.sites) : c.siteId = s.id
BY DEF ViewInv

LEMMA ViewRecord ==
    ASSUME ViewInv(view)
    PROVE  /\ view = [site |-> view.site, sites |-> view.sites, configs |-> view.configs,
                      active |-> view.active, live |-> view.live]
           /\ view.site \in SiteRecords /\ view.sites \in Seq(SiteRecords)
           /\ view.configs \in Seq(ConfigRecords) /\ view.live \in Contents
           /\ view.active \in Nat \ {0}
           /\ ToSet(view.sites) \subseteq SiteRecords /\ ToSet(view.configs) \subseteq ConfigRecords
BY DEF ViewInv, Views, ToSet

-----------------------------------------------------------------------------
(* What is there twice is of sites that share their ID *)

Divided(configs, sites) == \A x : Repeated(configs, x) => Shared(sites, x.siteId)

LEMMA DividedApart ==
    ASSUME NEW configs, NEW sites, Divided(configs, sites)
    PROVE  Apart(configs, sites)
BY DEF Divided, Apart

\* So it is in an ordered view,
LEMMA ViewDivided ==
    ASSUME NEW v, Ordered(v)
    PROVE  Divided(v.configs, v.sites)
<1>1. PICK b : InBlocks(v, b)
  BY DEF Ordered
<1>2. ASSUME NEW x, Repeated(v.configs, x) PROVE Shared(v.sites, x.siteId)
  <2>1. /\ b \in Seq(Seq(ConfigRecords)) /\ DOMAIN b = DOMAIN v.sites
        /\ Repeated(FlattenSeq(b), x)
    BY <1>1, <1>2 DEF InBlocks
  <2>2. \A n \in DOMAIN b : /\ \A c \in ToSet(b[n]) : c.siteId = v.sites[n].id
                            /\ \A y : Repeated(b[n], y) => Shared(v.sites, v.sites[n].id)
    BY <1>1 DEF InBlocks
  <2>3. \/ \E n \in DOMAIN b : Repeated(b[n], x)
        \/ \E m, n \in DOMAIN b : m # n /\ x \in ToSet(b[m]) /\ x \in ToSet(b[n])
    BY <2>1, FlattenRepeated
  <2>4. CASE \E n \in DOMAIN b : Repeated(b[n], x)
    <3>1. PICK n \in DOMAIN b : Repeated(b[n], x)
      BY <2>4
    <3>2. x \in ToSet(b[n])
      BY <3>1 DEF Repeated, ToSet
    <3> QED BY <2>2, <3>1, <3>2
  <2>5. CASE \E m, n \in DOMAIN b : m # n /\ x \in ToSet(b[m]) /\ x \in ToSet(b[n])
    BY <2>1, <2>2, <2>5 DEF Shared
  <2> QED BY <2>3, <2>4, <2>5
<1> QED BY <1>2 DEF Divided

\* and stays, when some are changed in place,
LEMMA ChangedRepeated ==
    ASSUME NEW s, NEW changed, DOMAIN changed = DOMAIN s, Alike(ToSet(s)),
           \A n \in DOMAIN s : changed[n].id = s[n].id,
           NEW x, Repeated(changed, x)
    PROVE  \E n \in DOMAIN s : Repeated(s, s[n]) /\ x = changed[n]
<1>1. PICK i \in DOMAIN s, j \in DOMAIN s : i # j /\ changed[i] = x /\ changed[j] = x
  BY DEF Repeated
<1>2. s[i] \in ToSet(s) /\ s[j] \in ToSet(s)
  BY DEF ToSet
<1>3. s[i] = s[j]
  BY <1>1, <1>2 DEF Alike
<1> QED BY <1>1, <1>3 DEF Repeated

LEMMA ChangedDivided ==
    ASSUME NEW s, NEW changed, DOMAIN changed = DOMAIN s, Alike(ToSet(s)),
           \A n \in DOMAIN s : changed[n].id = s[n].id /\ changed[n].siteId = s[n].siteId,
           NEW sites, Divided(s, sites)
    PROVE  Divided(changed, sites)
<1>1. ASSUME NEW x, Repeated(changed, x) PROVE Shared(sites, x.siteId)
  <2>1. PICK n \in DOMAIN s : Repeated(s, s[n]) /\ x = changed[n]
    BY <1>1, ChangedRepeated
  <2> QED BY <2>1 DEF Divided
<1> QED BY <1>1 DEF Divided

\* some are left out,
LEMMA OnlyDivided ==
    ASSUME NEW s \in Seq(ConfigRecords), NEW S, NEW sites, Divided(s, sites)
    PROVE  Divided(Only(s, S), sites)
<1>1. \A x : Repeated(Only(s, S), x) => Repeated(s, x)
  BY OnlyRepeated
<1> QED BY <1>1 DEF Divided

\* or one of another ID is added.
LEMMA AppendDivided ==
    ASSUME NEW s \in Seq(ConfigRecords), NEW e \in ConfigRecords, NEW sites, Divided(s, sites),
           \A c \in ToSet(s) : c.id # e.id
    PROVE  Divided(Append(s, e), sites)
<1>1. \A x : Repeated(Append(s, e), x) => Repeated(s, x) \/ (x = e /\ e \in ToSet(s))
  BY AppendRepeated
<1>2. e \notin ToSet(s)
  OBVIOUS
<1> QED BY <1>1, <1>2 DEF Divided

\* Two sites that share their ID still do, with one more site
LEMMA AppendShared ==
    ASSUME NEW T, NEW s \in Seq(T), NEW e \in T, NEW id, Shared(s, id)
    PROVE  Shared(Append(s, e), id)
<1>1. /\ DOMAIN Append(s, e) = 1..Len(s) + 1 /\ DOMAIN s = 1..Len(s) /\ Len(s) \in Nat
      /\ \A n \in 1..Len(s) : Append(s, e)[n] = s[n]
  BY AppendProperties
<1>2. PICK i \in 1..Len(s), j \in 1..Len(s) : i # j /\ s[i].id = id /\ s[j].id = id
  BY <1>1 DEF Shared
<1>3. i \in 1..Len(s) + 1 /\ j \in 1..Len(s) + 1
  BY <1>1
<1> HIDE DEF Append
<1> QED BY <1>1, <1>2, <1>3 DEF Shared

\* or when others are left out.
LEMMA OnlyShared ==
    ASSUME NEW T, NEW s \in Seq(T), NEW S, NEW id, Shared(s, id),
           \A n \in DOMAIN s : s[n].id = id => s[n] \in S
    PROVE  Shared(Only(s, S), id)
<1> DEFINE N == Len(s)
           before(n) == \E i, j \in 1..n : i # j /\ s[i].id = id /\ s[j].id = id
<1>1. PICK g : OnlySteps(g, T, s, S)
  BY OnlyStepped
<1>2. N \in Nat /\ DOMAIN s = 1..N /\ \A n \in 1..N : s[n] \in T
  OBVIOUS
<1> DEFINE Right == {n \in 0..N : before(n) => Shared(g[n], id)}
<1>3. 0 \in Right
  <2>1. 1..0 = {}
    OBVIOUS
  <2> QED BY <1>2, <2>1
<1>4. ASSUME NEW n \in 1..N, n - 1 \in Right PROVE n \in Right
  <2>1. n \in 0..N /\ n - 1 \in 0..N /\ 1..n = 1..n - 1 \cup {n} /\ 1..n \subseteq 1..N
    BY <1>2
  <2>2. /\ g[n - 1] \in Seq(T) /\ ToSet(g[n - 1]) = FirstSet(s, n - 1) \cap S
        /\ g[n] = IF s[n] \in S THEN Append(g[n - 1], s[n]) ELSE g[n - 1]
    BY <1>1, <2>1 DEF OnlySteps
  <2>3. s[n] \in T
    BY <1>2
  <2>4. ASSUME before(n) PROVE Shared(g[n], id)
    <3>1. PICK i \in 1..n, j \in 1..n : i # j /\ s[i].id = id /\ s[j].id = id
      BY <2>4
    <3>2. CASE before(n - 1)
      <4>1. Shared(g[n - 1], id)
        BY <1>4, <3>2
      <4>2. Shared(Append(g[n - 1], s[n]), id)
        BY <2>2, <2>3, <4>1, AppendShared
      <4> QED BY <2>2, <4>1, <4>2
    <3>3. CASE ~before(n - 1)
      <4>1. PICK k \in 1..n - 1 : s[k].id = id /\ s[n].id = id
        BY <2>1, <3>1, <3>3
      <4>2. s[k] \in S /\ s[n] \in S
        BY <1>2, <2>1, <4>1
      <4>3. s[k] \in ToSet(g[n - 1])
        BY <2>2, <4>2 DEF FirstSet
      <4>4. PICK m \in DOMAIN g[n - 1] : g[n - 1][m] = s[k]
        BY <4>3 DEF ToSet
      <4> DEFINE e == s[n]
                 h == g[n - 1]
      <4>5. /\ DOMAIN Append(h, e) = 1..Len(h) + 1 /\ DOMAIN h = 1..Len(h) /\ Len(h) \in Nat
            /\ \A l \in 1..Len(h) : Append(h, e)[l] = h[l]
            /\ Append(h, e)[Len(h) + 1] = e
        <5> HIDE DEF e, h
        <5>1. h \in Seq(T) /\ e \in T
          BY <2>2, <2>3 DEF e, h
        <5> QED BY <5>1, AppendProperties
      <4>6. g[n] = Append(h, e) /\ h[m].id = id /\ e.id = id /\ m \in DOMAIN h
        BY <2>2, <4>1, <4>2, <4>4
      <4> HIDE DEF e, h
      <4>7. m \in 1..Len(h) /\ m \in 1..Len(h) + 1 /\ Len(h) + 1 \in 1..Len(h) + 1 /\ m # Len(h) + 1
        BY <4>5, <4>6
      <4> QED BY <4>5, <4>6, <4>7 DEF Shared
    <3> QED BY <3>2, <3>3
  <2> HIDE DEF before
  <2> QED BY <2>1, <2>4
<1>5. \A n \in 0..N : n \in Right
  <2> HIDE DEF Right, N
  <2> QED BY <1>2, <1>3, <1>4, CountUp
<1>6. before(N) /\ N \in Right /\ Only(s, S) = g[N]
  <2>1. before(N)
    BY <1>2 DEF Shared
  <2> HIDE DEF before
  <2> QED BY <1>1, <1>2, <1>5, <2>1 DEF OnlySteps
<1> HIDE DEF before
<1> QED BY <1>6

LEMMA WithDivided ==
    ASSUME NEW s \in Seq(ConfigRecords), NEW id, NEW content \in Contents \cup {NoContent},
           Alike(ToSet(s)), NEW sites, Divided(s, sites)
    PROVE  Divided([n \in DOMAIN s |-> With(s[n], id, content)], sites)
<1> DEFINE changed == [n \in DOMAIN s |-> With(s[n], id, content)]
<1>1. \A n \in DOMAIN s : s[n] \in ConfigRecords
  OBVIOUS
<1>2. \A n \in DOMAIN s : changed[n].id = s[n].id /\ changed[n].siteId = s[n].siteId
  BY <1>1, WithIs
<1>3. DOMAIN changed = DOMAIN s
  OBVIOUS
<1> HIDE DEF changed
<1>4. Divided(changed, sites)
  BY <1>2, <1>3, ChangedDivided
<1> QED BY <1>4 DEF changed

\* The configurations of the view, put away.
LEMMA PutAwayDivided ==
    ASSUME SitesAssumption, SitesInv
    PROVE  /\ Divided(view.configs, view.sites) /\ Divided(PutAway, view.sites)
           /\ Alike(ToSet(view.configs)) /\ Alike(ToSet(PutAway))
           /\ PutAway \in Seq(ConfigRecords)
<1>1. ViewInv(view) /\ Ordered(view) /\ Divided(view.configs, view.sites)
  BY ViewDivided DEF SitesInv
<1>2. Alike(ToSet(view.configs))
  BY <1>1 DEF ViewInv
<1>3. PutAway = [n \in DOMAIN view.configs |-> Away(view.configs[n])]
  BY DEF PutAway, Mapped, Away
<1>4. \A n \in DOMAIN view.configs : view.configs[n] \in ToSet(view.configs)
  BY DEF ToSet
<1>5. DOMAIN PutAway = DOMAIN view.configs /\ \A n \in DOMAIN view.configs :
         PutAway[n].id = view.configs[n].id /\ PutAway[n].siteId = view.configs[n].siteId
  BY <1>1, <1>3, <1>4, PutAwayIs
<1>6. Divided(PutAway, view.sites)
  BY <1>1, <1>2, <1>5, ChangedDivided
<1> QED BY <1>1, <1>2, <1>6, PutAwayIs

-----------------------------------------------------------------------------
(* The operations *)

\* An operation that leaves the sites as they are.
LEMMA QuietStep ==
    ASSUME SitesAssumption, SitesInv, NEW next, Whole(next), SetData(next), Carries(next),
           next.sites = view.sites, UNCHANGED <<made, updates>>, edits' \in Contents
    PROVE  SitesInv' /\ KeepsContents /\ KeepsSites
<1>1. /\ ViewOf(view', next, ToSet(next.configs), next.active)
      /\ ViewInv(view') /\ Ordered(view')
  BY WholeView
<1>2. view'.sites = view.sites
  BY <1>1 DEF ViewOf
<1>3. KeepsSites /\ TagsTell(ToSet(view'.sites), made)
  BY <1>2, SitesStay
<1>4. KeepsContents
  BY ContentsStay DEF SitesInv
<1> QED BY <1>1, <1>3, <1>4 DEF SitesInv

\* What the run's property says of a step.
StepKeeps == KeepsContents /\ KeepsSites /\ NamedKeepConfigurations

LEMMA EditKeeps ==
    ASSUME SitesAssumption, SitesInv, Edit
    PROVE  SitesInv' /\ StepKeeps
<1> DEFINE next == [view EXCEPT !.live = edits + 1]
           V == ToSet(view.configs)
<1>1. /\ SetData(next) /\ UNCHANGED <<made, updates>> /\ edits' = edits + 1
      /\ edits < EditsMax
  BY DEF Edit
<1>2. edits' \in Contents /\ edits' # edits
  BY <1>1 DEF SitesInv, Contents, SitesAssumption
<1>3. /\ next.site = view.site /\ next.sites = view.sites /\ next.configs = view.configs
      /\ next.active = view.active /\ next.live = edits'
  BY <1>1, ViewRecord DEF SitesInv
<1> HIDE DEF next
<1>4. Proper(next)
  BY <1>2, <1>3, ViewRecord DEF Proper, SitesInv, ViewInv
<1>5. Whole(next)
  <2>1. Apart(next.configs, next.sites)
    BY <1>3, PutAwayDivided, DividedApart
  <2> QED BY <1>3, <1>4, <2>1 DEF Whole, SitesInv, ViewInv
<1>6. Carries(next)
  <2>1. ASSUME NEW c \in V, NEW d \in V, c.id = d.id, d.id # next.active
        PROVE  HeldBy(view, c) = d.content
    BY <1>3, <2>1 DEF SitesInv, ViewInv, Alike, HeldBy
  <2> QED BY <1>2, <1>3, <2>1 DEF Carries
<1>7. SitesInv' /\ KeepsContents /\ KeepsSites
  BY <1>1, <1>2, <1>3, <1>5, <1>6, QuietStep
<1>8. \A c \in V : \E d \in OfSites(ToSet(next.configs), next.sites) : d.id = c.id
  BY <1>3, InSites DEF OfSites, SitesInv
<1>9. KeepsConfigurations
  BY <1>1, <1>5, <1>8, WholeView, ConfigurationsStay
<1> QED BY <1>7, <1>9 DEF StepKeeps, NamedKeepConfigurations

LEMMA SelectSiteKeeps ==
    ASSUME SitesAssumption, SitesInv, NEW s \in ToSet(view.sites), SelectSite(s)
    PROVE  SitesInv' /\ StepKeeps
<1> DEFINE V == ToSet(view.configs)
           target == FirstOf(PutAway, LAMBDA c : c.siteId = s.id)
           next == [view EXCEPT !.site = s, !.configs = PutAway, !.active = target.id,
                                !.live = target.content]
<1>1. ViewInv(view)
  BY DEF SitesInv
<1>2. /\ PutAway \in Seq(ConfigRecords) /\ ToSet(PutAway) = {Away(c) : c \in V}
      /\ Alike(ToSet(PutAway))
      /\ \A c \in V : /\ Away(c).id = c.id /\ Away(c).siteId = c.siteId
                      /\ Away(c).content = HeldBy(view, c) /\ Away(c).content \in Contents
  BY <1>1, PutAwayIs
<1>3. \E c \in ToSet(PutAway) : c.siteId = s.id
  BY <1>1, <1>2 DEF ViewInv
<1>4. target \in ToSet(PutAway) /\ target.siteId = s.id
  BY <1>2, <1>3, FirstOfSite
<1>5. target.content \in Contents
  BY <1>2, <1>4
<1>6. SetData(next) /\ UNCHANGED <<made, updates, edits>>
  <2>1. \E n \in DOMAIN PutAway : PutAway[n].siteId = s.id
    BY <1>3 DEF ToSet
  <2>2. Fetched(target, 0) = target.content
    BY <1>5, ContentsAre DEF Fetched
  <2> QED BY <2>1, <2>2 DEF SelectSite, Has
<1>7. /\ next.site = s /\ next.sites = view.sites /\ next.configs = PutAway
      /\ next.active = target.id /\ next.live = target.content
  BY <1>1, ViewRecord
<1> HIDE DEF next, target
<1>8. Proper(next)
  BY <1>1, <1>2, <1>5, <1>7, ViewRecord DEF Proper
<1>9. \A t \in ToSet(next.sites) : \E c \in ToSet(next.configs) : c.siteId = t.id
  BY <1>1, <1>2, <1>7 DEF ViewInv
<1>10. Whole(next)
  <2>1. Apart(next.configs, next.sites)
    BY <1>7, PutAwayDivided, DividedApart
  <2> QED BY <1>2, <1>4, <1>7, <1>8, <1>9, <2>1 DEF Whole
<1>11. Carries(next)
  <2>1. ASSUME NEW c \in V, NEW d \in ToSet(PutAway), c.id = d.id
        PROVE  HeldBy(view, c) = d.content
    <3>1. Away(c) \in ToSet(PutAway) /\ Away(c).id = d.id
      BY <1>2, <2>1
    <3>2. d = Away(c)
      BY <1>2, <3>1 DEF Alike
    <3> QED BY <1>2, <3>2
  <2>2. \A d \in ToSet(PutAway) : d.id = target.id => d = target
    BY <1>2, <1>4 DEF Alike
  <2> QED BY <1>7, <2>1, <2>2 DEF Carries
<1>12. SitesInv' /\ KeepsContents /\ KeepsSites
  <2>1. edits' \in Contents
    BY <1>6 DEF SitesInv
  <2> QED BY <1>6, <1>7, <1>10, <1>11, <2>1, QuietStep
<1>13. ASSUME NEW c \in V
       PROVE  \E d \in OfSites(ToSet(next.configs), next.sites) : d.id = c.id
  <2>1. Away(c) \in OfSites(ToSet(next.configs), next.sites)
    BY <1>1, <1>2, <1>7, InSites DEF OfSites
  <2> QED BY <1>2, <2>1
<1>14. KeepsConfigurations
  BY <1>6, <1>10, <1>13, WholeView, ConfigurationsStay
<1> QED BY <1>12, <1>14 DEF StepKeeps, NamedKeepConfigurations

LEMMA SelectConfigurationKeeps ==
    ASSUME SitesAssumption, SitesInv, NEW c \in ToSet(view.configs), SelectConfiguration(c)
    PROVE  SitesInv' /\ StepKeeps
<1> DEFINE V == ToSet(view.configs)
           shifted == Mapped(PutAway, LAMBDA x : IF x.id = c.id THEN WithContent(x, NoContent)
                                                 ELSE x)
           next == [view EXCEPT !.active = c.id, !.live = Fetched(c, view.live),
                                !.configs = shifted]
           turned(x) == With(Away(x), c.id, NoContent)
<1>1. /\ c.siteId = view.site.id /\ c.id # view.active
      /\ SetData(next) /\ UNCHANGED <<made, updates, edits>>
  BY DEF SelectConfiguration
<1>2. ViewInv(view)
  BY DEF SitesInv
<1>3. /\ PutAway \in Seq(ConfigRecords) /\ ToSet(PutAway) = {Away(x) : x \in V}
      /\ \A x \in V : /\ Away(x) \in ConfigRecords
                      /\ Away(x).id = x.id /\ Away(x).siteId = x.siteId
                      /\ Away(x).content = HeldBy(view, x)
  BY <1>2, PutAwayIs
<1>4. /\ shifted \in Seq(ConfigRecords) /\ ToSet(shifted) = {turned(x) : x \in V}
      /\ Divided(shifted, view.sites)
  <2>1. /\ shifted \in Seq(ConfigRecords)
        /\ ToSet(shifted) = {With(x, c.id, NoContent) : x \in ToSet(PutAway)}
        /\ Divided(shifted, view.sites)
    <3>1. shifted = [n \in DOMAIN PutAway |-> With(PutAway[n], c.id, NoContent)]
      BY DEF Mapped, With
    <3>2. Divided([n \in DOMAIN PutAway |-> With(PutAway[n], c.id, NoContent)], view.sites)
      BY PutAwayDivided, WithDivided
    <3> HIDE DEF shifted
    <3>3. /\ shifted \in Seq(ConfigRecords)
          /\ ToSet(shifted) = {With(x, c.id, NoContent) : x \in ToSet(PutAway)}
      BY <1>3, <3>1, MappedContent
    <3> QED BY <3>1, <3>2, <3>3
  <2> QED BY <1>3, <2>1
<1>5. ASSUME NEW x \in V
      PROVE  /\ turned(x).id = x.id /\ turned(x).siteId = x.siteId
             /\ turned(x).content = IF x.id = c.id THEN NoContent ELSE HeldBy(view, x)
  BY <1>3, WithIs
<1>6. c.content # NoContent /\ Fetched(c, view.live) = HeldBy(view, c)
  BY <1>1, <1>2 DEF ViewInv, Fetched, HeldBy
<1>7. /\ next.site = view.site /\ next.sites = view.sites /\ next.configs = shifted
      /\ next.active = c.id /\ next.live = HeldBy(view, c)
  BY <1>2, <1>6, ViewRecord
<1> HIDE DEF next, shifted, turned
<1>8. Proper(next)
  <2>1. HeldBy(view, c) \in Contents
    BY <1>2, HeldTyped
  <2> QED BY <1>2, <1>4, <1>7, <2>1, ViewRecord DEF Proper, ViewInv
<1>9. Alike(ToSet(next.configs))
  BY <1>2, <1>4, <1>5, <1>7 DEF Alike, ViewInv
<1>10. \A t \in ToSet(next.sites) : \E x \in ToSet(next.configs) : x.siteId = t.id
  BY <1>2, <1>4, <1>5, <1>7 DEF ViewInv
<1>11. \E x \in ToSet(next.configs) : x.siteId = next.site.id /\ x.id = next.active
  BY <1>1, <1>4, <1>5, <1>7
<1>12. Whole(next)
  <2>1. Apart(next.configs, next.sites)
    BY <1>4, <1>7, DividedApart
  <2> QED BY <1>8, <1>9, <1>10, <1>11, <2>1 DEF Whole
<1>13. Carries(next)
  <2>1. ASSUME NEW x \in V, NEW d \in ToSet(shifted), x.id = d.id
        PROVE  HeldBy(view, x) = IF d.siteId = view.site.id /\ d.id = c.id
                                 THEN HeldBy(view, c) ELSE d.content
    <3>1. PICK y \in V : d = turned(y)
      BY <1>4
    <3>2. y = x
      BY <1>2, <1>5, <2>1, <3>1 DEF ViewInv, Alike
    <3>3. CASE x.id = c.id
      <4>1. x = c
        BY <1>2, <3>3 DEF ViewInv, Alike
      <4> QED BY <1>1, <1>5, <3>1, <3>2, <4>1
    <3>4. CASE x.id # c.id
      BY <1>5, <2>1, <3>1, <3>2, <3>4
    <3> QED BY <3>3, <3>4
  <2> QED BY <1>7, <2>1 DEF Carries
<1>14. SitesInv' /\ KeepsContents /\ KeepsSites
  <2>1. edits' \in Contents
    BY <1>1 DEF SitesInv
  <2> QED BY <1>1, <1>7, <1>12, <1>13, <2>1, QuietStep
<1>15. ASSUME NEW x \in V
       PROVE  \E d \in OfSites(ToSet(next.configs), next.sites) : d.id = x.id
  <2>1. turned(x) \in OfSites(ToSet(next.configs), next.sites)
    BY <1>2, <1>4, <1>5, <1>7, InSites DEF OfSites
  <2> QED BY <1>5, <2>1
<1>16. KeepsConfigurations
  BY <1>1, <1>12, <1>15, WholeView, ConfigurationsStay
<1> QED BY <1>14, <1>16 DEF StepKeeps, NamedKeepConfigurations

LEMMA FreeIs ==
    ASSUME ViewInv(view)
    PROVE  Free \in Nat \ {0} /\ \A c \in ToSet(view.configs) : c.id \in Nat /\ c.id < Free
<1>1. view.configs \in Seq(ConfigRecords) /\ \A c \in ConfigRecords : c.id \in Nat
  BY ViewRecord DEF ConfigRecords
<1>2. /\ Largest(view.configs) \in Nat
      /\ \A c \in ToSet(view.configs) : c.id <= Largest(view.configs)
  BY <1>1, LargestIs
<1>3. \A c \in ToSet(view.configs) : c.id \in Nat
  BY <1>1 DEF ToSet
<1> QED BY <1>2, <1>3 DEF Free

LEMMA DuplicateKeeps ==
    ASSUME SitesAssumption, SitesInv, NEW c \in ToSet(view.configs), DuplicateConfiguration(c)
    PROVE  SitesInv' /\ StepKeeps
<1> DEFINE V == ToSet(view.configs)
           copied == IF c.id = view.active THEN view.live ELSE Fetched(c, view.live)
           copy == [c EXCEPT !.id = Free, !.name = "Copy", !.content = copied]
           next == [view EXCEPT !.configs = Append(view.configs, copy)]
<1>1. /\ c.siteId = view.site.id /\ SetData(next) /\ UNCHANGED <<made, updates, edits>>
  BY DEF DuplicateConfiguration
<1>2. ViewInv(view) /\ c \in ConfigRecords /\ HeldBy(view, c) \in Contents
  BY HeldTyped DEF SitesInv
<1>3. copied = HeldBy(view, c)
  BY <1>1, <1>2 DEF ViewInv, Fetched, HeldBy
<1>4. Free \in Nat \ {0} /\ \A x \in V : x.id \in Nat /\ x.id < Free
  BY <1>2, FreeIs
<1> HIDE DEF copied
<1>5. copy \in ConfigRecords /\ copy.id = Free /\ copy.siteId = c.siteId
  BY <1>2, <1>3, <1>4 DEF ConfigRecords, Names
<1> HIDE DEF copy
<1>6. /\ Append(view.configs, copy) \in Seq(ConfigRecords)
      /\ ToSet(Append(view.configs, copy)) = V \cup {copy}
  BY <1>2, <1>5, ViewRecord, AppendedSet
<1>7. /\ next.site = view.site /\ next.sites = view.sites
      /\ next.configs = Append(view.configs, copy)
      /\ next.active = view.active /\ next.live = view.live
  BY <1>2, ViewRecord
<1> HIDE DEF next
<1>8. Proper(next)
  BY <1>2, <1>6, <1>7, ViewRecord DEF Proper, ViewInv
<1>9. \A x \in V : x.id # copy.id
  BY <1>4, <1>5
<1>10. Whole(next)
  <2>1. Divided(Append(view.configs, copy), view.sites)
    BY <1>2, <1>5, <1>9, ViewRecord, PutAwayDivided, AppendDivided
  <2>2. Apart(next.configs, next.sites)
    BY <1>7, <2>1, DividedApart
  <2>3. Alike(ToSet(next.configs))
    BY <1>2, <1>6, <1>7, <1>9 DEF Alike, ViewInv
  <2>4. \A s \in ToSet(next.sites) : \E x \in ToSet(next.configs) : x.siteId = s.id
    BY <1>2, <1>6, <1>7 DEF ViewInv
  <2>5. \E x \in ToSet(next.configs) : x.siteId = next.site.id /\ x.id = next.active
    BY <1>2, <1>6, <1>7 DEF ViewInv
  <2> QED BY <1>8, <2>2, <2>3, <2>4, <2>5 DEF Whole
<1>11. Carries(next)
  <2>1. ASSUME NEW x \in V, NEW d \in V \cup {copy}, x.id = d.id
        PROVE  HeldBy(view, x) = IF d.siteId = view.site.id /\ d.id = view.active
                                 THEN view.live ELSE d.content
    <3>1. d = x
      BY <1>2, <1>9, <2>1 DEF ViewInv, Alike
    <3> QED BY <1>2, <3>1 DEF ViewInv, HeldBy
  <2> QED BY <1>6, <1>7, <2>1 DEF Carries
<1>12. SitesInv' /\ KeepsContents /\ KeepsSites
  <2>1. edits' \in Contents
    BY <1>1 DEF SitesInv
  <2> QED BY <1>1, <1>7, <1>10, <1>11, <2>1, QuietStep
<1>13. \A x \in V : \E d \in OfSites(ToSet(next.configs), next.sites) : d.id = x.id
  BY <1>2, <1>6, <1>7, InSites DEF OfSites
<1>14. KeepsConfigurations
  BY <1>1, <1>10, <1>13, WholeView, ConfigurationsStay
<1> QED BY <1>12, <1>14 DEF StepKeeps, NamedKeepConfigurations

LEMMA DeleteConfigurationKeeps ==
    ASSUME SitesAssumption, SitesInv, NEW n \in DOMAIN view.configs,
           DeleteConfiguration(view.configs[n])
    PROVE  SitesInv' /\ StepKeeps
<1> DEFINE V == ToSet(view.configs)
           c == view.configs[n]
           rest == Where(view.configs, LAMBDA x : x.id # c.id)
           heir == FirstOf(rest, LAMBDA x : x.siteId = c.siteId)
           shifted == Mapped(rest, LAMBDA x : IF x.id = heir.id THEN WithContent(x, NoContent)
                                              ELSE x)
           other == [view EXCEPT !.configs = rest]
           own == [view EXCEPT !.active = heir.id, !.live = Fetched(heir, view.live),
                               !.configs = shifted]
<1>1. /\ c.siteId = view.site.id /\ UNCHANGED <<made, updates, edits>>
      /\ \E k \in DOMAIN rest : rest[k].siteId = c.siteId
      /\ IF c.id # view.active THEN SetData(other) ELSE SetData(own)
  BY DEF DeleteConfiguration, Has
<1>2. ViewInv(view) /\ c \in V /\ V \subseteq ConfigRecords
  BY ViewRecord DEF SitesInv, ToSet
<1>3. /\ rest \in Seq(ConfigRecords) /\ ToSet(rest) = {x \in V : x.id # c.id}
      /\ Divided(rest, view.sites)
  <2> DEFINE others == {x \in ToSet(view.configs) : x.id # c.id}
  <2>1. rest = Only(view.configs, others)
    BY DEF Where
  <2>2. /\ Only(view.configs, others) \in Seq(ConfigRecords)
        /\ ToSet(Only(view.configs, others)) = V \cap others
    BY <1>2, ViewRecord, OnlyElements
  <2>3. Divided(Only(view.configs, others), view.sites)
    <3> HIDE DEF others
    <3> QED BY <1>2, ViewRecord, PutAwayDivided, OnlyDivided
  <2> QED BY <2>1, <2>2, <2>3
<1> HIDE DEF rest
<1>4. heir \in ToSet(rest) /\ heir.siteId = c.siteId
  <2>1. \E x \in ToSet(rest) : x.siteId = c.siteId
    BY <1>1 DEF ToSet
  <2> DEFINE home == c.siteId
  <2> HIDE DEF home
  <2> QED BY <1>3, <2>1, FirstOfSite DEF home
<1> HIDE DEF heir, c
<1>5. edits' \in Contents
  BY <1>1 DEF SitesInv
<1>6. \A t \in ToSet(view.sites) : \E x \in ToSet(rest) : x.siteId = t.id
  <2>1. ASSUME NEW t \in ToSet(view.sites)
        PROVE  \E x \in ToSet(rest) : x.siteId = t.id
    <3>1. PICK x \in V : x.siteId = t.id
      BY <1>2 DEF ViewInv
    <3>2. CASE x.id = c.id
      <4>1. x = c
        BY <1>2, <3>2 DEF ViewInv, Alike
      <4> QED BY <1>4, <3>1, <4>1
    <3>3. CASE x.id # c.id
      BY <1>3, <3>1, <3>3
    <3> QED BY <3>2, <3>3
  <2> QED BY <2>1
<1>7. KeepsConfigurations
  BY DEF KeepsConfigurations, c
<1>8. CASE c.id # view.active
  <2>1. /\ other.site = view.site /\ other.sites = view.sites /\ other.configs = rest
        /\ other.active = view.active /\ other.live = view.live
    BY <1>2, ViewRecord
  <2> HIDE DEF other, own
  <2>2. SetData(other)
    BY <1>1, <1>8
  <2>3. Proper(other)
    BY <1>2, <1>3, <2>1, ViewRecord DEF Proper, ViewInv
  <2>4. \E x \in ToSet(rest) : x.siteId = view.site.id /\ x.id = view.active
    BY <1>2, <1>3, <1>8 DEF ViewInv
  <2>5. Whole(other)
    <3>1. Apart(other.configs, other.sites)
      BY <1>3, <2>1, DividedApart
    <3> QED BY <1>2, <1>3, <1>6, <2>1, <2>3, <2>4, <3>1 DEF Whole, Alike, ViewInv
  <2>6. Carries(other)
    <3>1. ASSUME NEW x \in V, NEW d \in ToSet(rest), x.id = d.id
          PROVE  HeldBy(view, x) = IF d.siteId = view.site.id /\ d.id = view.active
                                   THEN view.live ELSE d.content
      <4>1. d = x
        BY <1>2, <1>3, <3>1 DEF ViewInv, Alike
      <4> QED BY <1>2, <4>1 DEF ViewInv, HeldBy
    <3> QED BY <2>1, <3>1 DEF Carries
  <2>7. SitesInv' /\ KeepsContents /\ KeepsSites
    BY <1>1, <1>5, <2>1, <2>2, <2>5, <2>6, QuietStep
  <2> QED BY <1>7, <2>7 DEF StepKeeps, NamedKeepConfigurations
<1>9. CASE c.id = view.active
  <2>1. /\ shifted \in Seq(ConfigRecords)
        /\ ToSet(shifted) = {With(x, heir.id, NoContent) : x \in ToSet(rest)}
        /\ Divided(shifted, view.sites)
    <3>1. shifted = [k \in DOMAIN rest |-> With(rest[k], heir.id, NoContent)]
      BY DEF Mapped, With
    <3>2. Alike(ToSet(rest))
      BY <1>2, <1>3 DEF Alike, ViewInv
    <3>3. Divided([k \in DOMAIN rest |-> With(rest[k], heir.id, NoContent)], view.sites)
      BY <1>3, <3>2, WithDivided
    <3> HIDE DEF shifted
    <3>4. /\ shifted \in Seq(ConfigRecords)
          /\ ToSet(shifted) = {With(x, heir.id, NoContent) : x \in ToSet(rest)}
      BY <1>3, <3>1, MappedContent
    <3> QED BY <3>1, <3>3, <3>4
  <2>2. \A x \in ToSet(rest) : x \in V /\ x.content # NoContent /\ x.content = HeldBy(view, x)
    BY <1>2, <1>3, <1>9 DEF ViewInv, HeldBy
  <2>3. Fetched(heir, view.live) = HeldBy(view, heir) /\ HeldBy(view, heir) \in Contents
    BY <1>2, <1>4, <2>2, HeldTyped DEF Fetched
  <2>4. \A x \in ToSet(rest) :
           /\ With(x, heir.id, NoContent).id = x.id
           /\ With(x, heir.id, NoContent).siteId = x.siteId
           /\ With(x, heir.id, NoContent).content = IF x.id = heir.id THEN NoContent
                                                    ELSE x.content
    BY <1>2, <2>2, WithIs
  <2>5. /\ own.site = view.site /\ own.sites = view.sites /\ own.configs = shifted
        /\ own.active = heir.id /\ own.live = HeldBy(view, heir)
    BY <1>2, <2>3, ViewRecord
  <2> HIDE DEF own, other, shifted
  <2>6. SetData(own)
    BY <1>1, <1>9
  <2>7. Proper(own)
    BY <1>2, <2>1, <2>3, <2>5, ViewRecord DEF Proper, ViewInv
  <2>8. Alike(ToSet(shifted))
    BY <1>2, <2>1, <2>2, <2>4 DEF Alike, ViewInv
  <2>9. \A t \in ToSet(own.sites) : \E x \in ToSet(own.configs) : x.siteId = t.id
    BY <1>6, <2>1, <2>4, <2>5
  <2>10. \E x \in ToSet(own.configs) : x.siteId = own.site.id /\ x.id = own.active
    BY <1>1, <1>4, <2>1, <2>4, <2>5 DEF c
  <2>11. Whole(own)
    <3>1. Apart(own.configs, own.sites)
      BY <2>1, <2>5, DividedApart
    <3> QED BY <2>5, <2>7, <2>8, <2>9, <2>10, <3>1 DEF Whole
  <2>12. Carries(own)
    <3>1. ASSUME NEW x \in V, NEW d \in ToSet(shifted), x.id = d.id
          PROVE  HeldBy(view, x) = IF d.siteId = view.site.id /\ d.id = heir.id
                                   THEN HeldBy(view, heir) ELSE d.content
      <4>1. PICK y \in ToSet(rest) : d = With(y, heir.id, NoContent)
        BY <2>1
      <4>2. y = x
        BY <1>2, <2>2, <2>4, <3>1, <4>1 DEF ViewInv, Alike
      <4>3. CASE x.id = heir.id
        <5>1. x = heir
          BY <1>2, <1>4, <2>2, <4>3 DEF ViewInv, Alike
        <5> QED BY <1>1, <1>4, <2>4, <4>1, <4>2, <5>1 DEF c
      <4>4. CASE x.id # heir.id
        BY <2>2, <2>4, <3>1, <4>1, <4>2, <4>4
      <4> QED BY <4>3, <4>4
    <3> QED BY <2>5, <3>1 DEF Carries
  <2>13. SitesInv' /\ KeepsContents /\ KeepsSites
    BY <1>1, <1>5, <2>5, <2>6, <2>11, <2>12, QuietStep
  <2> QED BY <1>7, <2>13 DEF StepKeeps, NamedKeepConfigurations
<1> QED BY <1>8, <1>9

LEMMA CreateSiteKeeps ==
    ASSUME SitesAssumption, SitesInv, CreateSite
    PROVE  SitesInv' /\ StepKeeps
<1> DEFINE V == ToSet(view.configs)
           s == [id |-> Len(view.sites) + 1, tag |-> made + 1, details |-> "typed",
                 code |-> FALSE, address |-> "none"]
           e == [id |-> Free, siteId |-> s.id, name |-> Unnamed, content |-> NoContent]
           next == [site |-> s, sites |-> Append(view.sites, s),
                    configs |-> Append(PutAway, e), active |-> Free, live |-> 0]
<1>1. /\ made < SitesMax /\ made' = made + 1 /\ UNCHANGED <<updates, edits>>
      /\ SetData(next)
  BY DEF CreateSite
<1>2. ViewInv(view) /\ made \in 1..SitesMax
  BY DEF SitesInv
<1>3. Free \in Nat \ {0} /\ \A x \in V : x.id \in Nat /\ x.id < Free
  BY <1>2, FreeIs
<1>4. /\ PutAway \in Seq(ConfigRecords) /\ ToSet(PutAway) = {Away(x) : x \in V}
      /\ Alike(ToSet(PutAway))
      /\ \A x \in V : /\ Away(x) \in ConfigRecords
                      /\ Away(x).id = x.id /\ Away(x).siteId = x.siteId
                      /\ Away(x).content = HeldBy(view, x)
  BY <1>2, PutAwayIs
<1>5. s \in SiteRecords /\ s.tag = made + 1
  <2>1. Len(view.sites) \in Nat
    BY <1>2, ViewRecord
  <2>2. made + 1 \in 1..SitesMax
    BY <1>1, <1>2 DEF SitesAssumption
  <2> QED BY <2>1, <2>2 DEF SiteRecords
<1> HIDE DEF s
<1>6. e \in ConfigRecords /\ e.id = Free /\ e.siteId = s.id
  BY <1>3, <1>5 DEF ConfigRecords, SiteRecords, Names
<1> HIDE DEF e
<1>7. /\ next.site = s /\ next.sites = Append(view.sites, s)
      /\ next.configs = Append(PutAway, e) /\ next.active = Free /\ next.live = 0
  OBVIOUS
<1> HIDE DEF next
<1>8. next.sites \in Seq(SiteRecords) /\ ToSet(next.sites) = ToSet(view.sites) \cup {s}
  BY <1>2, <1>5, <1>7, ViewRecord, AppendedSet
<1>9. next.configs \in Seq(ConfigRecords) /\ ToSet(next.configs) = ToSet(PutAway) \cup {e}
  BY <1>4, <1>6, <1>7, AppendedSet
<1>10. \A x \in ToSet(PutAway) : x.id # e.id
  BY <1>3, <1>4, <1>6
<1>11. Proper(next)
  BY <1>5, <1>7, <1>8, <1>9, ContentsAre DEF Proper
<1>12. Whole(next)
  <2>1. Alike(ToSet(next.configs))
    BY <1>4, <1>9, <1>10 DEF Alike
  <2>2. ASSUME NEW t \in ToSet(next.sites)
        PROVE  \E x \in ToSet(next.configs) : x.siteId = t.id
    <3>1. CASE t = s
      BY <1>6, <1>9, <3>1
    <3>2. CASE t \in ToSet(view.sites)
      BY <1>2, <1>4, <1>9, <3>2 DEF ViewInv
    <3> QED BY <1>8, <3>1, <3>2
  <2>3. Apart(next.configs, next.sites)
    <3>1. \A i : Shared(view.sites, i) => Shared(next.sites, i)
      BY <1>2, <1>5, <1>7, ViewRecord, AppendShared
    <3>2. Divided(next.configs, view.sites)
      BY <1>4, <1>6, <1>7, <1>10, PutAwayDivided, AppendDivided
    <3> QED BY <3>1, <3>2 DEF Divided, Apart
  <2> QED BY <1>6, <1>7, <1>9, <1>11, <2>1, <2>2, <2>3 DEF Whole
<1>13. Carries(next)
  <2>1. ASSUME NEW x \in V, NEW d \in ToSet(next.configs), x.id = d.id
        PROVE  d.id # Free /\ HeldBy(view, x) = d.content
    <3>1. d # e /\ d.id # Free
      BY <1>3, <1>6, <2>1
    <3>2. Away(x) = d
      BY <1>4, <1>9, <2>1, <3>1 DEF Alike
    <3> QED BY <1>4, <3>1, <3>2
  <2> QED BY <1>7, <2>1 DEF Carries
<1>14. /\ ViewOf(view', next, ToSet(next.configs), next.active)
       /\ ViewInv(view') /\ Ordered(view')
  BY <1>1, <1>12, WholeView
<1>15. view'.sites = next.sites
  BY <1>14 DEF ViewOf
<1>16. \A t \in ToSet(view.sites) : t.tag \in Nat /\ t.tag <= made /\ t.tag # s.tag
  <2>1. \A t \in SiteRecords : t.tag \in Nat
    BY DEF SiteRecords, SitesAssumption
  <2> QED BY <1>2, <1>5, <2>1, ViewRecord DEF SitesInv, TagsTell
<1>17. TagsTell(ToSet(view'.sites), made')
  BY <1>1, <1>2, <1>5, <1>8, <1>15, <1>16 DEF TagsTell, SitesInv
<1>18. SitesInv'
  BY <1>1, <1>2, <1>14, <1>17 DEF SitesInv, SitesAssumption
<1>19. KeepsSites
  <2>1. SiteTags \subseteq SiteTags'
    <3>1. SiteTags = {t.tag : t \in ToSet(view.sites)}
          /\ SiteTags' = {t.tag : t \in ToSet(view'.sites)}
      BY DEF SiteTags, ToSet
    <3> QED BY <1>8, <1>15, <3>1
  <2>2. ASSUME DistinctSites, NEW a \in ToSet(view.sites), NEW b \in ToSet(view'.sites),
               a.tag = b.tag
        PROVE  a = b
    BY <1>8, <1>15, <1>16, <2>2, SitesDiffer
  <2> QED BY <2>1, <2>2 DEF KeepsSites, Kept
<1>20. KeepsContents
  BY <1>1, <1>2, <1>12, <1>13, ContentsStay
<1>21. ASSUME NEW x \in V
       PROVE  \E d \in OfSites(ToSet(next.configs), next.sites) : d.id = x.id
  <2>1. Away(x) \in OfSites(ToSet(next.configs), next.sites)
    BY <1>2, <1>4, <1>8, <1>9, InSites DEF OfSites
  <2> QED BY <1>4, <2>1
<1>22. KeepsConfigurations
  BY <1>14, <1>21, ConfigurationsStay
<1> QED BY <1>18, <1>19, <1>20, <1>22 DEF StepKeeps, NamedKeepConfigurations

LEMMA DeleteSiteKeeps ==
    ASSUME SitesAssumption, SitesInv, DeleteSite
    PROVE  SitesInv' /\ StepKeeps
<1> DEFINE V == ToSet(view.configs)
           home == view.site.id
           rest == Where(view.sites, LAMBDA s : s.id # home)
           kept == Where(PutAway, LAMBDA c : c.siteId # home)
           s == Head(rest)
           first == FirstOf(kept, LAMBDA c : c.siteId = s.id)
           shifted == Mapped(kept, LAMBDA c : IF c.id = first.id THEN WithContent(c, NoContent)
                                              ELSE c)
           next == [site |-> s, sites |-> rest, configs |-> shifted, active |-> first.id,
                    live |-> Fetched(first, 0)]
           turned(x) == With(x, first.id, NoContent)
<1>1. /\ rest # <<>> /\ UNCHANGED <<made, updates, edits>>
      /\ (\E k \in DOMAIN kept : kept[k].siteId = s.id) => SetData(next)
  BY DEF DeleteSite, Has
<1>2. ViewInv(view) /\ ToSet(view.sites) \subseteq SiteRecords
  BY ViewRecord DEF SitesInv
<1>3. /\ PutAway \in Seq(ConfigRecords) /\ ToSet(PutAway) = {Away(x) : x \in V}
      /\ Alike(ToSet(PutAway))
      /\ \A x \in V : /\ Away(x) \in ConfigRecords
                      /\ Away(x).id = x.id /\ Away(x).siteId = x.siteId
                      /\ Away(x).content = HeldBy(view, x) /\ Away(x).content \in Contents
  BY <1>2, PutAwayIs
<1>4. /\ rest \in Seq(SiteRecords) /\ ToSet(rest) = {t \in ToSet(view.sites) : t.id # home}
      /\ \A i : i # home /\ Shared(view.sites, i) => Shared(rest, i)
  <2> DEFINE others == {t \in ToSet(view.sites) : t.id # home}
  <2>1. rest = Only(view.sites, others)
    BY DEF Where
  <2>2. /\ Only(view.sites, others) \in Seq(SiteRecords)
        /\ ToSet(Only(view.sites, others)) = ToSet(view.sites) \cap others
    BY <1>2, ViewRecord, OnlyElements
  <2>3. ASSUME NEW i, i # home, Shared(view.sites, i) PROVE Shared(Only(view.sites, others), i)
    <3>1. \A n \in DOMAIN view.sites : view.sites[n].id = i => view.sites[n] \in others
      BY <2>3 DEF ToSet
    <3>2. view.sites \in Seq(SiteRecords)
      BY <1>2, ViewRecord
    <3> HIDE DEF others, home
    <3> QED BY <2>3, <3>1, <3>2, OnlyShared
  <2> QED BY <2>1, <2>2, <2>3
<1>5. /\ kept \in Seq(ConfigRecords) /\ ToSet(kept) = {x \in ToSet(PutAway) : x.siteId # home}
      /\ Divided(kept, view.sites)
  <2> DEFINE others == {x \in ToSet(PutAway) : x.siteId # home}
  <2>1. kept = Only(PutAway, others)
    BY DEF Where
  <2>2. /\ Only(PutAway, others) \in Seq(ConfigRecords)
        /\ ToSet(Only(PutAway, others)) = ToSet(PutAway) \cap others
    BY <1>3, OnlyElements
  <2>3. Divided(Only(PutAway, others), view.sites)
    <3> HIDE DEF others
    <3> QED BY PutAwayDivided, OnlyDivided
  <2> QED BY <2>1, <2>2, <2>3
<1> HIDE DEF rest, kept
<1>6. s \in ToSet(rest) /\ s \in ToSet(view.sites) /\ s.id # home
  <2>1. Len(rest) \in Nat \ {0}
    BY <1>1, <1>4
  <2>2. s = rest[1] /\ 1 \in DOMAIN rest
    BY <1>4, <2>1
  <2> HIDE DEF s
  <2>3. s \in ToSet(rest)
    BY <2>2 DEF ToSet
  <2> QED BY <1>4, <2>3
<1> HIDE DEF s
<1>7. \A t \in ToSet(rest) : \E x \in ToSet(kept) : x.siteId = t.id
  <2>1. ASSUME NEW t \in ToSet(rest) PROVE \E x \in ToSet(kept) : x.siteId = t.id
    <3>1. PICK x \in V : x.siteId = t.id
      BY <1>2, <1>4 DEF ViewInv
    <3>2. Away(x) \in ToSet(kept)
      BY <1>3, <1>4, <1>5, <3>1
    <3> QED BY <1>3, <3>1, <3>2
  <2> QED BY <2>1
<1>8. first \in ToSet(kept) /\ first.siteId = s.id
  BY <1>5, <1>6, <1>7, FirstOfSite
<1>9. SetData(next)
  BY <1>1, <1>6, <1>7 DEF ToSet
<1> HIDE DEF first
<1>10. \A x \in ToSet(kept) : /\ x \in ToSet(PutAway) /\ x \in ConfigRecords
                              /\ x.content \in Contents
  BY <1>3, <1>5
<1>11. /\ shifted \in Seq(ConfigRecords) /\ ToSet(shifted) = {turned(x) : x \in ToSet(kept)}
       /\ Divided(shifted, view.sites)
  <2>1. shifted = [k \in DOMAIN kept |-> With(kept[k], first.id, NoContent)]
    BY DEF Mapped, With
  <2>2. Alike(ToSet(kept))
    BY <1>3, <1>5 DEF Alike
  <2>3. Divided([k \in DOMAIN kept |-> With(kept[k], first.id, NoContent)], view.sites)
    BY <1>5, <2>2, WithDivided
  <2> HIDE DEF shifted
  <2>4. /\ shifted \in Seq(ConfigRecords)
        /\ ToSet(shifted) = {With(x, first.id, NoContent) : x \in ToSet(kept)}
    BY <1>5, <2>1, MappedContent
  <2>5. Divided(shifted, view.sites)
    BY <2>1, <2>3
  <2>6. {turned(x) : x \in ToSet(kept)} = {With(x, first.id, NoContent) : x \in ToSet(kept)}
    OBVIOUS
  <2> HIDE DEF turned
  <2> QED BY <2>4, <2>5, <2>6
<1>12. ASSUME NEW x \in ToSet(kept)
       PROVE  /\ turned(x).id = x.id /\ turned(x).siteId = x.siteId
              /\ turned(x).content = IF x.id = first.id THEN NoContent ELSE x.content
  BY <1>10, WithIs
<1>13. Fetched(first, 0) = first.content
  BY <1>8, <1>10, ContentsAre DEF Fetched
<1>14. /\ next.site = s /\ next.sites = rest /\ next.configs = shifted
       /\ next.active = first.id /\ next.live = first.content
  BY <1>13
<1> HIDE DEF next, shifted, turned
<1>15. Proper(next)
  BY <1>2, <1>4, <1>6, <1>8, <1>10, <1>11, <1>14 DEF Proper
<1>16. Alike(ToSet(next.configs))
  BY <1>3, <1>10, <1>11, <1>12, <1>14 DEF Alike
<1>17. \A t \in ToSet(next.sites) : \E x \in ToSet(next.configs) : x.siteId = t.id
  BY <1>7, <1>11, <1>12, <1>14
<1>18. \E x \in ToSet(next.configs) : x.siteId = next.site.id /\ x.id = next.active
  BY <1>8, <1>11, <1>12, <1>14
<1>19. Whole(next)
  <2>1. Apart(next.configs, next.sites)
    <3>1. ASSUME NEW x, Repeated(shifted, x), \E t \in ToSet(rest) : t.id = x.siteId
          PROVE  Shared(rest, x.siteId)
      BY <1>4, <1>11, <3>1 DEF Divided
    <3> QED BY <1>14, <3>1 DEF Apart
  <2> QED BY <1>15, <1>16, <1>17, <1>18, <2>1 DEF Whole
<1>20. Carries(next)
  <2>1. ASSUME NEW x \in V, NEW d \in ToSet(shifted), x.id = d.id
        PROVE  HeldBy(view, x) = IF d.siteId = s.id /\ d.id = first.id
                                 THEN first.content ELSE d.content
    <3>1. PICK y \in ToSet(kept) : d = turned(y)
      BY <1>11
    <3>2. y = Away(x)
      BY <1>3, <1>10, <1>12, <2>1, <3>1 DEF Alike
    <3>3. CASE y.id = first.id
      <4>1. y = first
        BY <1>3, <1>8, <1>10, <3>3 DEF Alike
      <4> QED BY <1>3, <1>8, <1>12, <3>1, <3>2, <4>1
    <3>4. CASE y.id # first.id
      BY <1>3, <1>12, <3>1, <3>2, <3>4
    <3> QED BY <3>3, <3>4
  <2> QED BY <1>14, <2>1 DEF Carries
<1>21. /\ ViewOf(view', next, ToSet(next.configs), next.active)
       /\ ViewInv(view') /\ Ordered(view')
  BY <1>9, <1>19, WholeView
<1>22. ToSet(view'.sites) \subseteq ToSet(view.sites)
  BY <1>4, <1>14, <1>21 DEF ViewOf
<1>23. SitesInv'
  BY <1>1, <1>21, <1>22 DEF SitesInv, TagsTell
<1>24. KeepsSites
  <2>1. ASSUME DistinctSites, NEW a \in ToSet(view.sites), NEW b \in ToSet(view'.sites),
               a.tag = b.tag
        PROVE  a = b
    BY <1>22, <2>1, SitesDiffer
  <2> QED BY <2>1 DEF KeepsSites, Kept
<1>25. KeepsContents
  BY <1>2, <1>9, <1>19, <1>20, ContentsStay
<1>26. KeepsConfigurations
  BY DEF KeepsConfigurations
<1> QED BY <1>23, <1>24, <1>25, <1>26 DEF StepKeeps, NamedKeepConfigurations

\* What the installer types, or a discovery finds, is about the same site, and
\* takes nothing away.
LEMMA UpdatesAre ==
    ASSUME SitesAssumption, ViewInv(view), NEW updated \in Updates
    PROVE  /\ updated \in SiteRecords /\ updated.tag = view.site.tag
           /\ view.site.code => updated.code
           /\ view.site.address = "found" => updated.address = "found"
<1>1. view.site \in SiteRecords
  BY ViewRecord
<1>2. CASE \E id \in SiteIds : updated = [view.site EXCEPT !.id = id]
  <2>1. PICK id \in SiteIds : updated = [view.site EXCEPT !.id = id]
    BY <1>2
  <2>2. id \in Nat
    BY DEF SitesAssumption
  <2> QED BY <1>1, <2>1, <2>2 DEF SiteRecords
<1>3. CASE updated = [view.site EXCEPT !.details = "typed"]
  BY <1>1, <1>3 DEF SiteRecords
<1>4. CASE updated = [view.site EXCEPT !.code = TRUE]
  BY <1>1, <1>4 DEF SiteRecords
<1>5. CASE updated = [view.site EXCEPT !.address = "found"]
  BY <1>1, <1>5 DEF SiteRecords
<1> QED BY <1>2, <1>3, <1>4, <1>5 DEF Updates

LEMMA UpdateSiteKeeps ==
    ASSUME SitesAssumption, SitesInv, NEW updated \in Updates, UpdateSite(updated)
    PROVE  SitesInv' /\ StepKeeps
<1> DEFINE V == ToSet(view.configs)
           S == ToSet(view.sites)
           home == view.site.id
           moves(c) == updated.id \notin {0, home} /\ c.siteId = home
           moved(c) == IF moves(c) THEN [c EXCEPT !.siteId = updated.id] ELSE c
           sites == [k \in DOMAIN view.sites |-> IF view.sites[k].id = home THEN updated
                                                 ELSE view.sites[k]]
           configs == [k \in DOMAIN view.configs |-> moved(view.configs[k])]
           next == [view EXCEPT !.site = updated, !.sites = sites, !.configs = configs]
<1>1. /\ updates < UpdatesMax /\ updates' = updates + 1 /\ UNCHANGED <<made, edits>>
      /\ SetData(next)
  BY DEF UpdateSite, Mapped
<1>2. ViewInv(view) /\ TagsTell(S, made)
  BY DEF SitesInv
<1>3. /\ updated \in SiteRecords /\ updated.tag = view.site.tag
      /\ view.site.code => updated.code
      /\ view.site.address = "found" => updated.address = "found"
  BY <1>2, UpdatesAre
<1>4. /\ next.site = updated /\ next.sites = sites /\ next.configs = configs
      /\ next.active = view.active /\ next.live = view.live
  BY <1>2, ViewRecord
<1> HIDE DEF next
<1>5. /\ view.site \in S /\ view.sites \in Seq(SiteRecords) /\ S \subseteq SiteRecords
      /\ view.configs \in Seq(ConfigRecords) /\ V \subseteq ConfigRecords
      /\ view.live \in Contents /\ home \in Nat /\ updated.id \in Nat
  <2>1. \A s \in SiteRecords : s.id \in Nat
    BY DEF SiteRecords
  <2> QED BY <1>2, <1>3, <2>1, ViewRecord DEF ViewInv
<1>6. /\ Len(view.sites) \in Nat /\ DOMAIN view.sites = 1..Len(view.sites)
      /\ \A k \in DOMAIN view.sites : view.sites[k] \in SiteRecords /\ view.sites[k] \in S
  BY <1>5 DEF ToSet
<1>7. /\ Len(view.configs) \in Nat /\ DOMAIN view.configs = 1..Len(view.configs)
      /\ \A k \in DOMAIN view.configs : view.configs[k] \in V
  BY <1>5 DEF ToSet
<1>8. ASSUME NEW c \in V
      PROVE  /\ moved(c) \in ConfigRecords /\ moved(c).id = c.id
             /\ moved(c).content = c.content
             /\ moved(c).siteId = IF moves(c) THEN updated.id ELSE c.siteId
  <2>1. CASE moves(c)
    BY <1>5, <2>1 DEF ConfigRecords
  <2>2. CASE ~moves(c)
    BY <1>5, <2>2
  <2> QED BY <2>1, <2>2
<1> HIDE DEF moved
<1>9. sites \in Seq(SiteRecords)
  <2>1. \A k \in 1..Len(view.sites) : sites[k] \in SiteRecords
    BY <1>3, <1>6
  <2>2. DOMAIN sites = 1..Len(view.sites) /\ sites = [k \in DOMAIN sites |-> sites[k]]
    BY <1>6
  <2> HIDE DEF sites
  <2> QED BY <1>6, <2>1, <2>2
<1>10. ToSet(sites) = {updated} \cup {t \in S : t.id # home}
  <2>1. ASSUME NEW t \in ToSet(sites) PROVE t \in {updated} \cup {x \in S : x.id # home}
    BY <1>6 DEF ToSet
  <2>2. ASSUME NEW t \in S, t.id # home PROVE t \in ToSet(sites)
    BY <2>2 DEF ToSet
  <2>3. updated \in ToSet(sites)
    BY <1>5 DEF ToSet
  <2> QED BY <2>1, <2>2, <2>3
<1>11. configs \in Seq(ConfigRecords)
  <2>1. \A k \in 1..Len(view.configs) : configs[k] \in ConfigRecords
    BY <1>7, <1>8
  <2>2. DOMAIN configs = 1..Len(view.configs) /\ configs = [k \in DOMAIN configs |-> configs[k]]
    BY <1>7
  <2> HIDE DEF configs
  <2> QED BY <1>7, <2>1, <2>2
<1>12. /\ ToSet(configs) = {moved(c) : c \in V} /\ DOMAIN configs = DOMAIN view.configs
       /\ \A n \in DOMAIN configs : configs[n] = moved(view.configs[n])
  BY <1>7 DEF ToSet
<1> HIDE DEF configs
<1>13. Proper(next)
  BY <1>3, <1>4, <1>5, <1>9, <1>10, <1>11 DEF Proper
<1>14. Alike(ToSet(next.configs))
  <2>1. ASSUME NEW x \in ToSet(configs), NEW y \in ToSet(configs), x.id = y.id PROVE x = y
    <3>1. PICK c \in V : x = moved(c)
      BY <1>12
    <3>2. PICK d \in V : y = moved(d)
      BY <1>12
    <3>3. c = d
      BY <1>2, <1>8, <2>1, <3>1, <3>2 DEF ViewInv, Alike
    <3> QED BY <3>1, <3>2, <3>3
  <2> QED BY <1>4, <2>1 DEF Alike
<1>15. Apart(next.configs, next.sites)
  <2>1. ASSUME NEW x, Repeated(configs, x), NEW t \in ToSet(sites), t.id = x.siteId
        PROVE  Shared(sites, x.siteId)
    <3>1. Divided(view.configs, view.sites) /\ Alike(ToSet(view.configs))
      BY PutAwayDivided
    <3>2. \A n \in DOMAIN view.configs : configs[n].id = view.configs[n].id
      BY <1>7, <1>8, <1>12
    <3>3. PICK n \in DOMAIN view.configs :
               Repeated(view.configs, view.configs[n]) /\ x = configs[n]
      BY <1>12, <2>1, <3>1, <3>2, ChangedRepeated
    <3> DEFINE c == view.configs[n]
    <3>4. c \in V /\ x = moved(c) /\ Shared(view.sites, c.siteId)
      BY <1>7, <1>12, <3>1, <3>3 DEF Divided
    <3> HIDE DEF c
    <3>5. x.siteId = IF moves(c) THEN updated.id ELSE c.siteId
      BY <1>8, <3>4
    <3>6. PICK i \in DOMAIN view.sites, j \in DOMAIN view.sites :
               i # j /\ view.sites[i].id = c.siteId /\ view.sites[j].id = c.siteId
      BY <3>4 DEF Shared
    <3>7. i \in DOMAIN sites /\ j \in DOMAIN sites
      OBVIOUS
    <3>8. CASE c.siteId = home
      <4>1. sites[i] = updated /\ sites[j] = updated
        BY <3>6, <3>8
      <4>2. x.siteId = updated.id
        BY <1>10, <2>1, <3>5, <3>8
      <4> HIDE DEF sites
      <4> QED BY <3>6, <3>7, <4>1, <4>2 DEF Shared
    <3>9. CASE c.siteId # home
      <4>1. sites[i] = view.sites[i] /\ sites[j] = view.sites[j] /\ x.siteId = c.siteId
        BY <3>5, <3>6, <3>9
      <4> HIDE DEF sites
      <4> QED BY <3>6, <3>7, <4>1 DEF Shared
    <3> QED BY <3>8, <3>9
  <2> HIDE DEF sites
  <2> QED BY <1>4, <2>1 DEF Apart
<1>16. PICK D, active : Chosen(next, D, active) /\ ViewOf(view', next, D, active)
  <2>1. view' = Materialized(Canonical(next))
    BY <1>1 DEF SetData
  <2> QED BY <1>13, <2>1, SetDataView
<1>17. ViewInv(view')
  BY <1>13, <1>14, <1>16, ViewIsWhole
<1>18. Ordered(view')
  BY <1>13, <1>14, <1>15, <1>16, ViewIsOrdered
<1>19. view'.sites = sites
  BY <1>4, <1>16 DEF ViewOf
<1>20. \A t \in S : t.tag = updated.tag => t.id = home
  BY <1>2, <1>3, <1>5 DEF TagsTell
<1>21. SitesInv'
  <2>1. TagsTell(ToSet(view'.sites), made)
    <3>1. \A t \in ToSet(sites) : t.tag <= made
      BY <1>2, <1>3, <1>5, <1>10 DEF TagsTell
    <3>2. \A t, u \in ToSet(sites) : t.tag = u.tag => t.id = u.id
      BY <1>2, <1>10, <1>20 DEF TagsTell
    <3> QED BY <1>19, <3>1, <3>2 DEF TagsTell
  <2>2. updates' \in 0..UpdatesMax
    BY <1>1 DEF SitesInv, SitesAssumption
  <2> QED BY <1>1, <1>17, <1>18, <2>1, <2>2 DEF SitesInv
<1>22. KeepsSites
  <2> HIDE DEF sites
  <2>1. SUFFICES ASSUME DistinctSites
                 PROVE  /\ SiteTags \subseteq SiteTags'
                        /\ \A s \in S, t \in ToSet(view'.sites) :
                              s.tag = t.tag => /\ s.code => t.code
                                               /\ s.address = "found" => t.address = "found"
    BY DEF KeepsSites, Kept
  <2>2. SiteTags = {t.tag : t \in S} /\ SiteTags' = {t.tag : t \in ToSet(view'.sites)}
    BY DEF SiteTags, ToSet
  <2>3. ASSUME NEW s \in S PROVE \E t \in ToSet(sites) : t.tag = s.tag
    <3>1. CASE s.id = home
      <4>1. s = view.site
        BY <1>5, <2>1, <3>1, SitesDiffer
      <4> QED BY <1>3, <1>10, <4>1
    <3>2. CASE s.id # home
      BY <1>10, <3>2
    <3> QED BY <3>1, <3>2
  <2>4. ASSUME NEW s \in S, NEW t \in ToSet(sites), s.tag = t.tag
        PROVE  (s.code => t.code) /\ (s.address = "found" => t.address = "found")
    <3>1. CASE t = updated
      <4>1. s = view.site
        BY <1>3, <1>5, <2>1, <2>4, <3>1, SitesDiffer
      <4> QED BY <1>3, <3>1, <4>1
    <3>2. CASE t \in S
      <4>1. s = t
        BY <2>1, <2>4, <3>2, SitesDiffer
      <4> QED BY <4>1
    <3> QED BY <1>10, <3>1, <3>2
  <2> QED BY <1>19, <2>2, <2>3, <2>4
<1>23. CASE updated.id # 0 \/ home = 0
  <2>1. ASSUME NEW c \in V
        PROVE  moved(c).siteId = IF c.siteId = home THEN updated.id ELSE c.siteId
    BY <1>8, <1>23
  <2>2. Whole(next)
    <3>1. ASSUME NEW t \in ToSet(next.sites)
          PROVE  \E x \in ToSet(next.configs) : x.siteId = t.id
      <4>1. CASE t = updated
        <5>1. PICK c \in V : c.siteId = home
          BY <1>2 DEF ViewInv
        <5> QED BY <1>4, <1>12, <2>1, <4>1, <5>1
      <4>2. CASE t \in S /\ t.id # home
        <5>1. PICK c \in V : c.siteId = t.id
          BY <1>2, <4>2 DEF ViewInv
        <5> QED BY <1>4, <1>12, <2>1, <4>2, <5>1
      <4> QED BY <1>4, <1>10, <4>1, <4>2
    <3>2. \E x \in ToSet(next.configs) : x.siteId = next.site.id /\ x.id = next.active
      <4>1. PICK c \in V : c.siteId = home /\ c.id = view.active
        BY <1>2 DEF ViewInv
      <4> QED BY <1>4, <1>8, <1>12, <2>1, <4>1
    <3> QED BY <1>13, <1>14, <1>15, <3>1, <3>2 DEF Whole
  <2>3. Carries(next)
    <3>1. ASSUME NEW c \in V, NEW d \in ToSet(configs), c.id = d.id
          PROVE  HeldBy(view, c) = IF d.siteId = updated.id /\ d.id = view.active
                                   THEN view.live ELSE d.content
      <4>1. d = moved(c)
        <5>1. PICK x \in V : d = moved(x)
          BY <1>12
        <5>2. x = c
          BY <1>2, <1>8, <3>1, <5>1 DEF ViewInv, Alike
        <5> QED BY <5>1, <5>2
      <4>2. CASE c.id = view.active
        <5>1. c.content = NoContent /\ c.siteId = home
          BY <1>2, <4>2 DEF ViewInv, Alike
        <5> QED BY <1>8, <2>1, <4>1, <4>2, <5>1 DEF HeldBy
      <4>3. CASE c.id # view.active
        <5>1. c.content # NoContent
          BY <1>2, <4>3 DEF ViewInv
        <5> QED BY <1>8, <4>1, <4>3, <5>1 DEF HeldBy
      <4> QED BY <4>2, <4>3
    <3> QED BY <1>4, <3>1 DEF Carries
  <2>4. KeepsContents
    BY <1>1, <1>2, <2>2, <2>3, ContentsStay
  <2>5. ViewOf(view', next, ToSet(next.configs), next.active)
    BY <1>1, <2>2, WholeView
  <2>6. ASSUME NEW c \in V
        PROVE  \E d \in OfSites(ToSet(next.configs), next.sites) : d.id = c.id
    <3>1. PICK t \in S : c.siteId = t.id
      BY <1>2, InSites
    <3>2. \E u \in ToSet(next.sites) : moved(c).siteId = u.id
      <4>1. CASE c.siteId = home
        BY <1>4, <1>10, <2>1, <4>1
      <4>2. CASE c.siteId # home
        BY <1>4, <1>10, <2>1, <3>1, <4>2
      <4> QED BY <4>1, <4>2
    <3>3. moved(c) \in OfSites(ToSet(next.configs), next.sites)
      BY <1>4, <1>12, <3>2 DEF OfSites
    <3> QED BY <1>8, <3>3
  <2>7. KeepsConfigurations
    BY <2>5, <2>6, ConfigurationsStay
  <2> QED BY <1>21, <1>22, <2>4, <2>7 DEF StepKeeps, NamedKeepConfigurations
<1>24. CASE updated.id = 0 /\ home # 0
  <2>1. ToSet(configs) = V
    <3>1. \A c \in V : moved(c) = c
      BY <1>24 DEF moved
    <3> QED BY <1>12, <3>1
  <2>2. Fills(V, D, ToSet(sites)) /\ D \subseteq ConfigRecords
    BY <1>4, <1>16, <2>1 DEF Chosen
  <2>3. NamedKeepConfigurations
    <3> HIDE DEF sites
    <3>1. updated \in ToSet(view'.sites)
      BY <1>10, <1>19
    <3>2. PICK k \in DOMAIN view'.sites : view'.sites[k] = updated
      BY <3>1 DEF ToSet
    <3> QED BY <1>24, <3>2 DEF NamedKeepConfigurations
  <2>4. ASSUME DistinctSites', NEW t \in S, t.id # home PROVE t.id # 0
    <3>1. PICK k \in DOMAIN view.sites : view.sites[k] = t
      BY DEF ToSet
    <3>2. PICK j \in DOMAIN view.sites : view.sites[j] = view.site
      BY <1>5 DEF ToSet
    <3>3. sites[k] = t /\ sites[j] = updated /\ k # j
      BY <2>4, <3>1, <3>2
    <3> HIDE DEF sites
    <3>4. k \in DOMAIN sites /\ j \in DOMAIN sites
      BY <3>1, <3>2 DEF sites
    <3> QED BY <1>19, <1>24, <2>4, <3>3, <3>4 DEF DistinctSites
  <2>5. ASSUME DistinctSites', NEW id \in ConfigIds \cap ConfigIds'
        PROVE  HeldIn(view', id) = HeldIn(view, id)
    <3>1. PICK c \in V : c.id = id
      BY <2>5 DEF ConfigIds, ToSet
    <3>2. PICK x \in ToSet(view'.configs) : x.id = id
      BY <2>5 DEF ConfigIds, ToSet
    <3>3. PICK e \in OfSites(D, sites) : x = Put(e, 0, active)
      BY <1>4, <1>16, <1>24, <3>2 DEF ViewOf
    <3>4. e \in D /\ e.id = c.id /\ \E t \in ToSet(sites) : e.siteId = t.id
      BY <3>1, <3>2, <3>3 DEF Put, OfSites
    <3>5. e \in V
      <4>1. ASSUME e \notin V PROVE FALSE
        <5>1. c.id < e.id
          BY <2>2, <3>4, <4>1 DEF Fills
        <5>2. c.id \in Nat
          BY <1>5 DEF ConfigRecords
        <5> QED BY <3>4, <5>1, <5>2
      <4> QED BY <4>1
    <3>6. e = c
      BY <1>2, <3>4, <3>5 DEF ViewInv, Alike
    <3>7. PICK t \in ToSet(sites) : e.siteId = t.id
      BY <3>4
    <3>8. e.siteId # home
      BY <1>10, <1>24, <3>7
    <3>9. e.content # NoContent
      BY <1>2, <3>5, <3>8 DEF ViewInv
    <3>10. e.siteId # 0
      <4>1. PICK s \in S : e.siteId = s.id
        BY <1>2, <3>5, InSites
      <4> QED BY <2>4, <2>5, <3>8, <4>1
    <3>11. x.content = c.content /\ c.content # NoContent
      BY <3>3, <3>6, <3>9, <3>10 DEF Put
    <3>12. HeldIn(view, id) = {HeldBy(view, c)} /\ HeldIn(view', id) = {HeldBy(view', x)}
      BY <1>2, <1>17, <3>1, <3>2, HeldIsOne
    <3> QED BY <3>11, <3>12 DEF HeldBy
  <2>6. KeepsContents
    <3>1. \A id : Held(id) = HeldIn(view, id) /\ Held(id)' = HeldIn(view', id)
      BY DEF Held, HeldIn, HeldBy
    <3> QED BY <2>5, <3>1 DEF KeepsContents
  <2> QED BY <1>21, <1>22, <2>3, <2>6 DEF StepKeeps
<1> QED BY <1>23, <1>24

-----------------------------------------------------------------------------
(* The import *)

\* The site of an archive, merged with the one that is there: it keeps a valid
\* code and the address in use.
LEMMA MergedIs ==
    ASSUME SitesAssumption, NEW current \in SiteRecords, NEW useImported \in BOOLEAN,
           NEW valid \in BOOLEAN, NEW imported,
           imported = [id |-> current.id, tag |-> 1, details |-> "archive",
                       code |-> valid, address |-> "archived"]
    PROVE  LET target == Merged(current, imported, useImported)
           IN  /\ target \in SiteRecords /\ target.id = current.id
               /\ current.code => target.code
               /\ current.address = "found" => target.address = "found"
<1> DEFINE target == Merged(current, imported, useImported)
           base == IF useImported THEN imported ELSE current
           address == IF current.address # "none" THEN current.address ELSE base.address
           code == current.code \/ imported.code
<1>1. target = [base EXCEPT !.code = code, !.address = address]
  BY DEF Merged
<1>2. /\ current.id \in Nat /\ current.tag \in 1..SitesMax /\ current.code \in BOOLEAN
      /\ current.details \in {"starter", "typed", "archive"}
      /\ current.address \in {"none", "found", "archived"}
  BY DEF SiteRecords
<1>3. code \in BOOLEAN /\ (current.code => code)
  <2>1. imported.code = valid
    OBVIOUS
  <2> QED BY <1>2, <2>1
<1>4. /\ address \in {"none", "found", "archived"}
      /\ current.address = "found" => address = "found"
  <2>1. base.address \in {"none", "found", "archived"}
    <3>1. imported.address = "archived"
      OBVIOUS
    <3> QED BY <1>2, <3>1
  <2> QED BY <1>2, <2>1
<1> HIDE DEF code, address
<1>5. \E details \in {"starter", "typed", "archive"}, tag \in 1..SitesMax :
         target = [id |-> current.id, tag |-> tag, details |-> details,
                   code |-> code, address |-> address]
  <2>1. CASE useImported
    <3>1. target = [imported EXCEPT !.code = code, !.address = address]
      BY <1>1, <2>1
    <3>2. target = [id |-> current.id, tag |-> 1, details |-> "archive",
                    code |-> code, address |-> address]
      BY <3>1
    <3>3. 1 \in 1..SitesMax
      BY DEF SitesAssumption
    <3> QED BY <3>2, <3>3
  <2>2. CASE ~useImported
    <3>1. target = [current EXCEPT !.code = code, !.address = address]
      BY <1>1, <2>2
    <3>2. target = [id |-> current.id, tag |-> current.tag, details |-> current.details,
                    code |-> code, address |-> address]
      BY <3>1 DEF SiteRecords
    <3> QED BY <1>2, <3>2
  <2> QED BY <2>1, <2>2
<1> HIDE DEF target
<1>6. PICK details \in {"starter", "typed", "archive"}, tag \in 1..SitesMax :
         target = [id |-> current.id, tag |-> tag, details |-> details,
                   code |-> code, address |-> address]
  BY <1>5
<1>7. target \in SiteRecords
  BY <1>2, <1>3, <1>4, <1>6 DEF SiteRecords
<1>8. /\ target.id = current.id
      /\ target.code = code /\ target.address = address
  BY <1>6
<1>9. /\ target \in SiteRecords /\ target.id = current.id
      /\ current.code => target.code
      /\ current.address = "found" => target.address = "found"
  BY <1>3, <1>4, <1>7, <1>8
<1> QED BY <1>9 DEF target

\* The ID the imported configuration gets is of no other that stays.
LEMMA UpsertedIs ==
    ASSUME NEW configs \in Seq(ConfigRecords), Alike(ToSet(configs)),
           NEW M \in SUBSET ToSet(configs), NEW id,
           (\E m \in M : id = m.id) \/ id = Largest(configs) + 1
    PROVE  id \in Nat \ {0} /\ \A c \in ToSet(configs) : c.id = id => c \in M
<1>1. \A c \in ConfigRecords : c.id \in Nat \ {0}
  BY DEF ConfigRecords
<1>2. \A c \in ToSet(configs) : c.id \in Nat \ {0}
  BY <1>1 DEF ToSet
<1>3. CASE \E m \in M : id = m.id
  <2>1. PICK m \in M : id = m.id
    BY <1>3
  <2> QED BY <1>2, <2>1 DEF Alike
<1>4. CASE id = Largest(configs) + 1
  <2>1. Largest(configs) \in Nat /\ \A c \in ToSet(configs) : c.id <= Largest(configs)
    <3>1. \A x \in ConfigRecords : x.id \in Nat
      BY <1>1
    <3> QED BY <3>1, LargestIs
  <2> QED BY <1>2, <1>4, <2>1
<1> QED BY <1>3, <1>4

LEMMA ImportKeeps ==
    ASSUME SitesAssumption, SitesInv, ImportsFit, NEW read \in importing,
           NEW useImported \in BOOLEAN, Import(read, useImported)
    PROVE  SitesInv' /\ StepKeeps
<1> DEFINE V == ToSet(view.configs)
           S == ToSet(view.sites)
           file == read.file
           imported == [id |-> file.id, tag |-> 1, details |-> "archive",
                        code |-> file.code, address |-> "archived"]
           known == read.found # {}
           current == CHOOSE s \in read.found : TRUE
           merged == Incoming(read, useImported)
           there == \E n \in DOMAIN view.sites : view.sites[n].id = file.id
           place == FirstOf(view.sites, LAMBDA s : s.id = file.id)
           tag == IF there THEN place.tag ELSE made + 1
           target == [merged EXCEPT !.tag = tag]
           starters == {s.id : s \in {x \in S : ~(x.id = file.id) /\ IsStarter(x)}}
           retained == Where(view.sites, LAMBDA s : s.id \notin starters)
           configs == Where(PutAway, LAMBDA c : c.siteId \notin starters)
           id == UpsertedId(configs, LAMBDA c : c.siteId = file.id /\ c.name = file.name)
           others == Where(configs, LAMBDA c : ~(c.siteId = file.id /\ c.name = file.name))
           e == [id |-> id, siteId |-> file.id, name |-> file.name, content |-> NoContent]
           sites == IF there THEN [n \in DOMAIN retained |->
                                     IF retained[n].id = file.id THEN target ELSE retained[n]]
                    ELSE Append(retained, target)
           next == [site |-> target, sites |-> sites, configs |-> Append(others, e),
                    active |-> id, live |-> edits + 1]
<1>1. /\ edits < EditsMax /\ edits' = edits + 1 /\ UNCHANGED updates
      /\ there => made' = made
      /\ ~there => made < SitesMax /\ made' = made + 1
      /\ SetData(next)
  <2>1. edits < EditsMax /\ edits' = edits + 1 /\ UNCHANGED updates
    BY DEF Import
  <2>2. (there => made' = made) /\ (~there => made < SitesMax /\ made' = made + 1)
    BY DEF Import, Has
  <2>3. SetData(next)
    BY Zenon DEF Import, Has
  <2> HIDE DEF next, there
  <2> QED BY <2>1, <2>2, <2>3
<1>2. ViewInv(view) /\ TagsTell(S, made) /\ made \in 1..SitesMax
  BY DEF SitesInv
<1>r. /\ importing' = importing \ {read} /\ file \in Archives
      /\ known => read.found = {current} /\ current \in SiteRecords /\ current.id = file.id
  <2>1. file \in Archives /\ read.found \in {{}} \cup {{s} : s \in SiteRecords}
    BY DEF ImportsFit, Imports
  <2>2. ASSUME known
        PROVE  read.found = {current} /\ current \in SiteRecords /\ current.id = file.id
    <3>1. PICK s \in SiteRecords : read.found = {s}
      BY <2>1, <2>2
    <3>2. current = s
      BY <3>1
    <3>3. s.id = file.id
      BY <3>1 DEF ImportsFit
    <3> QED BY <3>1, <3>2, <3>3
  <2>3. importing' = importing \ {read}
    BY DEF Import
  <2> QED BY <2>1, <2>2, <2>3
<1> HIDE DEF current
<1>3. /\ file.id \in Nat \ {0} /\ file.code \in BOOLEAN /\ file.name \in Names
  BY <1>r DEF SitesAssumption, Names
<1>4. edits' \in Contents /\ edits' # edits
  BY <1>1 DEF SitesInv, Contents, SitesAssumption
<1>5. /\ view.site \in S /\ view.sites \in Seq(SiteRecords) /\ S \subseteq SiteRecords
      /\ V \subseteq ConfigRecords
  BY <1>2, ViewRecord DEF ViewInv
<1>6. /\ PutAway \in Seq(ConfigRecords) /\ ToSet(PutAway) = {Away(x) : x \in V}
      /\ Alike(ToSet(PutAway))
      /\ \A x \in V : /\ Away(x) \in ConfigRecords
                      /\ Away(x).id = x.id /\ Away(x).siteId = x.siteId
                      /\ Away(x).name = x.name /\ Away(x).content = HeldBy(view, x)
  BY <1>2, PutAwayIs
<1>7. there <=> \E s \in S : s.id = file.id
  BY DEF ToSet
<1>8. there => place \in S /\ place.id = file.id
  BY <1>5, <1>7, FirstWithId
<1> HIDE DEF place
<1>m. /\ merged \in SiteRecords /\ merged.id = file.id
      /\ known => Kept(current, merged)
  <2>1. CASE known
    <3>1. current \in SiteRecords /\ current.id = file.id
      BY <1>r, <2>1
    <3>2. imported = [id |-> current.id, tag |-> 1, details |-> "archive",
                      code |-> file.code, address |-> "archived"]
      BY <3>1
    <3>3. merged = Merged(current, imported, useImported)
      BY <2>1 DEF Incoming, current
    <3> HIDE DEF imported, merged, known, file
    <3> QED BY <1>3, <2>1, <3>1, <3>2, <3>3, MergedIs DEF Kept
  <2>2. CASE ~known
    <3>1. merged = imported
      BY <2>2 DEF Incoming
    <3>2. 1 \in 1..SitesMax
      BY DEF SitesAssumption
    <3> HIDE DEF known
    <3> QED BY <1>3, <2>2, <3>1, <3>2 DEF SiteRecords
  <2> QED BY <2>1, <2>2
<1> HIDE DEF merged
<1>9. /\ target \in SiteRecords /\ target.id = file.id
      /\ there => target.tag = place.tag
      /\ ~there => target.tag = made + 1
      /\ known => Kept(current, target)
  <2>1. tag \in 1..SitesMax
    <3>1. there => place.tag \in 1..SitesMax
      BY <1>5, <1>8 DEF SiteRecords
    <3>2. ~there => made + 1 \in 1..SitesMax
      BY <1>1, <1>2 DEF SitesAssumption
    <3> HIDE DEF there
    <3> QED BY <3>1, <3>2
  <2>2. (there => tag = place.tag) /\ (~there => tag = made + 1)
    OBVIOUS
  <2> HIDE DEF tag
  <2>3. target = [id |-> merged.id, tag |-> tag, details |-> merged.details,
                  code |-> merged.code, address |-> merged.address]
    BY <1>m DEF SiteRecords
  <2> HIDE DEF target
  <2>4. target \in SiteRecords
    BY <1>m, <2>1, <2>3 DEF SiteRecords
  <2> QED BY <1>m, <2>2, <2>3, <2>4 DEF Kept
<1> HIDE DEF target, there, known
<1>10. /\ \A i \in starters : i # file.id /\ \E s \in S : s.id = i /\ IsStarter(s)
       /\ \A s \in S : s.id # file.id /\ IsStarter(s) => s.id \in starters
  OBVIOUS
<1> HIDE DEF starters
<1>11. /\ retained \in Seq(SiteRecords) /\ ToSet(retained) = {s \in S : s.id \notin starters}
       /\ \A i : i \notin starters /\ Shared(view.sites, i) => Shared(retained, i)
  <2> DEFINE kept == {s \in S : s.id \notin starters}
  <2>1. retained = Only(view.sites, kept)
    BY DEF Where
  <2>2. /\ Only(view.sites, kept) \in Seq(SiteRecords)
        /\ ToSet(Only(view.sites, kept)) = S \cap kept
    BY <1>5, OnlyElements
  <2>3. ASSUME NEW i, i \notin starters, Shared(view.sites, i)
        PROVE  Shared(Only(view.sites, kept), i)
    <3>1. \A n \in DOMAIN view.sites : view.sites[n].id = i => view.sites[n] \in kept
      BY <2>3 DEF ToSet
    <3> HIDE DEF kept
    <3> QED BY <1>5, <2>3, <3>1, OnlyShared
  <2> QED BY <2>1, <2>2, <2>3
<1>12. /\ configs \in Seq(ConfigRecords)
       /\ ToSet(configs) = {x \in ToSet(PutAway) : x.siteId \notin starters}
       /\ Divided(configs, view.sites)
  <2> DEFINE kept == {x \in ToSet(PutAway) : x.siteId \notin starters}
  <2>1. configs = Only(PutAway, kept)
    BY DEF Where
  <2>2. /\ Only(PutAway, kept) \in Seq(ConfigRecords)
        /\ ToSet(Only(PutAway, kept)) = ToSet(PutAway) \cap kept
    BY <1>6, OnlyElements
  <2>3. Divided(Only(PutAway, kept), view.sites)
    <3> HIDE DEF kept
    <3> QED BY PutAwayDivided, OnlyDivided
  <2> QED BY <2>1, <2>2, <2>3
<1> HIDE DEF retained, configs
<1>13. /\ others \in Seq(ConfigRecords)
       /\ ToSet(others) = {x \in ToSet(configs) :
                             ~(x.siteId = file.id /\ x.name = file.name)}
       /\ Divided(others, view.sites)
  <2> DEFINE kept == {x \in ToSet(configs) : ~(x.siteId = file.id /\ x.name = file.name)}
  <2>1. others = Only(configs, kept)
    BY DEF Where
  <2>2. /\ Only(configs, kept) \in Seq(ConfigRecords)
        /\ ToSet(Only(configs, kept)) = ToSet(configs) \cap kept
    BY <1>12, OnlyElements
  <2>3. Divided(Only(configs, kept), view.sites)
    <3> HIDE DEF kept
    <3> QED BY <1>12, OnlyDivided
  <2> QED BY <2>1, <2>2, <2>3
<1>14. /\ id \in Nat \ {0}
       /\ \A x \in ToSet(configs) : x.id = id => x.siteId = file.id /\ x.name = file.name
  <2> DEFINE M == {x \in ToSet(configs) : x.siteId = file.id /\ x.name = file.name}
             matching == Only(configs, M)
  <2>1. Alike(ToSet(configs))
    BY <1>6, <1>12 DEF Alike
  <2>2. matching \in Seq(ConfigRecords) /\ ToSet(matching) = M
    <3>1. /\ Only(configs, M) \in Seq(ConfigRecords)
          /\ ToSet(Only(configs, M)) = ToSet(configs) \cap M
      BY <1>12, OnlyElements
    <3> QED BY <3>1
  <2>3. id = IF \E n \in DOMAIN matching : matching[n].id = view.active THEN view.active
             ELSE IF matching # <<>> THEN matching[1].id
             ELSE Largest(configs) + 1
    BY DEF UpsertedId, Has, Where
  <2>4. M \in SUBSET ToSet(configs)
    OBVIOUS
  <2> HIDE DEF id, matching, M
  <2>5. ASSUME NEW n \in DOMAIN matching PROVE \E m \in M : matching[n].id = m.id
    BY <2>2 DEF ToSet
  <2>6. (\E m \in M : id = m.id) \/ id = Largest(configs) + 1
    <3>1. CASE \E n \in DOMAIN matching : matching[n].id = view.active
      BY <2>3, <2>5, <3>1
    <3>2. CASE matching # <<>> /\ ~\E n \in DOMAIN matching : matching[n].id = view.active
      <4>1. Len(matching) \in Nat \ {0}
        BY <2>2, <3>2
      <4>2. 1 \in DOMAIN matching
        BY <2>2, <4>1
      <4> QED BY <2>3, <2>5, <3>2, <4>2
    <3>3. CASE matching = <<>> /\ ~\E n \in DOMAIN matching : matching[n].id = view.active
      BY <2>3, <3>3
    <3> QED BY <3>1, <3>2, <3>3
  <2>7. id \in Nat \ {0} /\ \A x \in ToSet(configs) : x.id = id => x \in M
    BY <1>12, <2>1, <2>4, <2>6, UpsertedIs
  <2> QED BY <2>7 DEF M
<1> HIDE DEF id, others
<1>15. e \in ConfigRecords /\ e.id = id /\ e.siteId = file.id
  BY <1>3, <1>14 DEF ConfigRecords
<1> HIDE DEF e
<1>16. sites \in Seq(SiteRecords)
       /\ ToSet(sites) = {target} \cup {s \in S : s.id \notin starters /\ s.id # file.id}
  <2>1. CASE there
    <3>1. sites = [n \in DOMAIN retained |-> IF retained[n].id = file.id THEN target
                                             ELSE retained[n]]
      BY <2>1
    <3> HIDE DEF sites
    <3>2. /\ Len(retained) \in Nat /\ DOMAIN retained = 1..Len(retained)
          /\ \A n \in DOMAIN retained : retained[n] \in SiteRecords /\ retained[n] \in ToSet(retained)
      BY <1>11 DEF ToSet
    <3>3. /\ DOMAIN sites = 1..Len(retained)
          /\ \A n \in 1..Len(retained) : sites[n] \in SiteRecords
          /\ sites = [n \in DOMAIN sites |-> sites[n]]
      BY <1>9, <3>1, <3>2
    <3>4. sites \in Seq(SiteRecords)
      BY <3>2, <3>3
    <3>5. ASSUME NEW t \in ToSet(sites)
          PROVE  t \in {target} \cup {s \in ToSet(retained) : s.id # file.id}
      BY <3>1, <3>2 DEF ToSet
    <3>6. ASSUME NEW t \in ToSet(retained), t.id # file.id PROVE t \in ToSet(sites)
      BY <3>1, <3>6 DEF ToSet
    <3>7. target \in ToSet(sites)
      <4>1. place \in ToSet(retained) /\ place.id = file.id
        BY <1>8, <1>10, <1>11, <2>1
      <4> QED BY <3>1, <4>1 DEF ToSet
    <3> QED BY <1>11, <3>4, <3>5, <3>6, <3>7
  <2>2. CASE ~there
    <3>1. sites = Append(retained, target)
      BY <2>2
    <3> HIDE DEF sites
    <3>2. sites \in Seq(SiteRecords) /\ ToSet(sites) = ToSet(retained) \cup {target}
      BY <1>9, <1>11, <3>1, AppendedSet
    <3> QED BY <1>7, <1>11, <2>2, <3>2
  <2> QED BY <2>1, <2>2
<1>17. ASSUME NEW i, i \notin starters, Shared(view.sites, i) PROVE Shared(sites, i)
  <2>1. Shared(retained, i)
    BY <1>11, <1>17
  <2>2. CASE there
    <3>1. PICK m \in DOMAIN retained, n \in DOMAIN retained :
               m # n /\ retained[m].id = i /\ retained[n].id = i
      BY <2>1 DEF Shared
    <3>2. DOMAIN sites = DOMAIN retained /\ \A k \in DOMAIN retained : sites[k].id = retained[k].id
      BY <1>9, <2>2
    <3> HIDE DEF sites
    <3> QED BY <3>1, <3>2 DEF Shared
  <2>3. CASE ~there
    <3>1. Shared(Append(retained, target), i)
      BY <1>9, <1>11, <2>1, AppendShared
    <3> QED BY <2>3, <3>1
  <2> QED BY <2>2, <2>3
<1> HIDE DEF sites
<1>18. /\ next.site = target /\ next.sites = sites /\ next.configs = Append(others, e)
       /\ next.active = id /\ next.live = edits'
  BY <1>1
<1> HIDE DEF next
<1>19. next.configs \in Seq(ConfigRecords) /\ ToSet(next.configs) = ToSet(others) \cup {e}
  BY <1>13, <1>15, <1>18, AppendedSet
<1>20. Proper(next)
  BY <1>4, <1>9, <1>16, <1>18, <1>19 DEF Proper
<1>21. \A x \in ToSet(others) : x \in ToSet(PutAway) /\ x.id # id
  BY <1>12, <1>13, <1>14
<1>22. Whole(next)
  <2>1. Alike(ToSet(next.configs))
    BY <1>6, <1>15, <1>19, <1>21 DEF Alike
  <2>2. ASSUME NEW t \in ToSet(sites)
        PROVE  \E x \in ToSet(next.configs) : x.siteId = t.id
    <3>1. CASE t = target
      BY <1>9, <1>15, <1>19, <3>1
    <3>2. CASE t \in S /\ t.id \notin starters /\ t.id # file.id
      <4>1. PICK x \in V : x.siteId = t.id
        BY <1>2, <3>2 DEF ViewInv
      <4>2. Away(x) \in ToSet(others) /\ Away(x).siteId = t.id
        BY <1>6, <1>12, <1>13, <3>2, <4>1
      <4> QED BY <1>19, <4>2
    <3> QED BY <1>16, <3>1, <3>2
  <2>3. \E x \in ToSet(next.configs) : x.siteId = next.site.id /\ x.id = next.active
    BY <1>9, <1>15, <1>18, <1>19
  <2>4. Apart(next.configs, next.sites)
    <3>1. Divided(Append(others, e), view.sites)
      BY <1>13, <1>15, <1>21, AppendDivided
    <3>2. ASSUME NEW x, Repeated(Append(others, e), x) PROVE Shared(sites, x.siteId)
      <4>1. Shared(view.sites, x.siteId)
        BY <3>1, <3>2 DEF Divided
      <4>2. x \in ToSet(others) \cup {e}
        BY <1>18, <1>19, <3>2 DEF Repeated, ToSet
      <4>3. x.siteId \notin starters
        BY <1>10, <1>12, <1>13, <1>15, <4>2
      <4> QED BY <1>17, <4>1, <4>3
    <3> QED BY <1>18, <3>2 DEF Apart
  <2> QED BY <1>18, <1>20, <2>1, <2>2, <2>3, <2>4 DEF Whole
<1>23. Carries(next)
  <2>1. ASSUME NEW x \in V, NEW d \in ToSet(others), x.id = d.id
        PROVE  HeldBy(view, x) = d.content
    <3>1. Away(x) = d
      BY <1>6, <1>21, <2>1 DEF Alike
    <3> QED BY <1>6, <3>1
  <2> QED BY <1>4, <1>15, <1>18, <1>19, <1>21, <2>1 DEF Carries
<1>24. /\ ViewOf(view', next, ToSet(next.configs), next.active)
       /\ ViewInv(view') /\ Ordered(view')
  BY <1>1, <1>22, WholeView
<1>25. view'.sites = sites /\ view'.site.id = file.id
  BY <1>9, <1>18, <1>24 DEF ViewOf
<1>26. KeepsContents
  BY <1>1, <1>2, <1>22, <1>23, ContentsStay
<1>27. /\ made' \in 1..SitesMax
       /\ target.tag <= made' /\ \A s \in S : s.tag <= made'
       /\ \A s \in S : s.tag = target.tag => there /\ s.id = file.id
  <2>1. \A s \in S : s.tag \in Nat /\ s.tag <= made
    <3>1. \A s \in SiteRecords : s.tag \in Nat
      BY DEF SiteRecords, SitesAssumption
    <3> QED BY <1>2, <1>5, <3>1 DEF TagsTell
  <2>2. CASE there
    <3>1. made' = made /\ place \in S /\ place.id = file.id /\ target.tag = place.tag
      BY <1>1, <1>8, <1>9, <2>2
    <3> QED BY <1>2, <2>1, <2>2, <3>1 DEF TagsTell
  <2>3. CASE ~there
    <3>1. made < SitesMax /\ made' = made + 1 /\ target.tag = made + 1
      BY <1>1, <1>9, <2>3
    <3> QED BY <1>2, <2>1, <3>1 DEF SitesAssumption
  <2> QED BY <2>2, <2>3
<1>28. SitesInv'
  <2>1. TagsTell(ToSet(view'.sites), made')
    BY <1>2, <1>9, <1>16, <1>25, <1>27 DEF TagsTell
  <2> QED BY <1>1, <1>4, <1>24, <1>27, <2>1 DEF SitesInv
<1>29. KeepsSites
  <2>1. SUFFICES ASSUME DistinctSites
                 PROVE  /\ \A s \in S : s.tag \in SiteTags' \/ IsStarter(s)
                        /\ \A s \in S, t \in ToSet(view'.sites) :
                              s.tag = t.tag /\ SeenBy(s) => Kept(s, t)
    BY <1>4 DEF KeepsSites
  <2>2. SiteTags' = {t.tag : t \in ToSet(sites)}
    BY <1>25 DEF SiteTags, ToSet
  <2>3. ASSUME NEW s \in S, s.id = file.id PROVE there /\ s = place
    BY <1>7, <1>8, <2>1, <2>3, SitesDiffer
  <2>4. ASSUME NEW s \in S PROVE s.tag \in SiteTags' \/ IsStarter(s)
    <3>1. CASE s.id \in starters
      <4>1. PICK x \in S : x.id = s.id /\ IsStarter(x)
        BY <1>10, <3>1
      <4>2. x = s
        BY <2>1, <4>1, SitesDiffer
      <4> QED BY <4>1, <4>2
    <3>2. CASE s.id = file.id
      BY <1>9, <1>16, <2>2, <2>3, <3>2
    <3>3. CASE s.id \notin starters /\ s.id # file.id
      BY <1>16, <2>2, <3>3
    <3> QED BY <3>1, <3>2, <3>3
  <2>5. ASSUME NEW s \in S, NEW t \in ToSet(sites), s.tag = t.tag, SeenBy(s)
        PROVE  Kept(s, t)
    <3>1. CASE t = target
      <4>1. s.id = file.id
        BY <1>27, <2>5, <3>1
      <4>2. s \in read.found
        BY <1>r, <2>5, <4>1 DEF SeenBy
      <4>3. known /\ s = current
        BY <1>r, <4>2 DEF known
      <4> QED BY <1>9, <3>1, <4>3
    <3>2. CASE t \in S
      <4>1. s = t
        BY <2>1, <2>5, <3>2, SitesDiffer
      <4> QED BY <4>1 DEF Kept
    <3> QED BY <1>16, <3>1, <3>2
  <2> QED BY <1>25, <2>4, <2>5
<1>30. Lost \subseteq Replaced
  <2>1. ASSUME NEW i \in Lost PROVE i \in Replaced
    <3>1. i \in ConfigIds /\ i \notin ConfigIds'
      BY DEF Lost
    <3>2. PICK x \in V : x.id = i
      BY <3>1 DEF ConfigIds, ToSet
    <3>3. x.siteId \in {file.id} \cup starters
      <4>1. SUFFICES ASSUME x.siteId # file.id, x.siteId \notin starters PROVE FALSE
        OBVIOUS
      <4>2. Away(x) \in ToSet(next.configs)
        BY <1>6, <1>12, <1>13, <1>19, <4>1
      <4>3. PICK s \in S : x.siteId = s.id
        BY <1>2, InSites
      <4>4. s \in ToSet(sites)
        BY <1>16, <4>1, <4>3
      <4>5. Away(x) \in OfSites(ToSet(next.configs), next.sites)
        BY <1>6, <1>18, <4>2, <4>3, <4>4 DEF OfSites
      <4>6. Put(Away(x), next.site.id, next.active) \in ToSet(view'.configs)
        BY <1>24, <4>5 DEF ViewOf
      <4>7. Put(Away(x), next.site.id, next.active).id = i
        BY <1>6, <3>2 DEF Put
      <4>8. i \in ConfigIds'
        BY <4>6, <4>7 DEF ConfigIds, ToSet
      <4> QED BY <3>1, <4>8
    <3>4. starters \subseteq Starters
      BY <1>10 DEF Starters
    <3>5. x.siteId \in {view'.site.id} \cup Starters
      BY <1>25, <3>3, <3>4
    <3> QED BY <3>2, <3>5 DEF Replaced
  <2> QED BY <2>1
<1>31. KeepsConfigurations
  BY <1>4, <1>30 DEF KeepsConfigurations
<1> QED BY <1>26, <1>28, <1>29, <1>31 DEF StepKeeps, NamedKeepConfigurations

-----------------------------------------------------------------------------
(* What is saved and restored *)

\* In a view whose site IDs are distinct, the configurations of a site are
\* one block.
LEMMA OwnIsBlock ==
    ASSUME SitesAssumption, SitesInv, DistinctSites, NEW b, InBlocks(view, b)
    PROVE  /\ FilledUp(view.configs, view.sites) = view.configs
           /\ \A n \in DOMAIN view.sites :
                 /\ Own(view, view.sites[n]) = b[n]
                 /\ ToSet(b[n]) \subseteq ToSet(view.configs)
<1> DEFINE V == ToSet(view.configs)
           sites == view.sites
<1>1. ViewInv(view)
  BY DEF SitesInv
<1>2. /\ b \in Seq(Seq(ConfigRecords)) /\ DOMAIN b = DOMAIN sites
      /\ view.configs = FlattenSeq(b)
      /\ \A n \in DOMAIN b : \A c \in ToSet(b[n]) : c.siteId = sites[n].id
  BY DEF InBlocks
<1>3. FilledUp(view.configs, sites) = view.configs
  <2>1. \A s \in SiteRecords : s.id \in Nat
    BY DEF SiteRecords
  <2>2. \A s \in ToSet(sites) : \E c \in V : c.siteId = s.id
    BY <1>1 DEF ViewInv
  <2>3. view.configs \in Seq(ConfigRecords) /\ sites \in Seq(SiteRecords)
    BY <1>1, ViewRecord
  <2> QED BY <2>1, <2>2, <2>3, FilledElements
<1>4. V = UNION {ToSet(b[n]) : n \in DOMAIN b}
  <2>1. ToSet(FlattenSeq(b)) = UNION {ToSet(b[n]) : n \in DOMAIN b}
    BY <1>2, FlattenElements
  <2> QED BY <1>2, <2>1
<1>5. ASSUME NEW k \in DOMAIN sites
      PROVE  Own(view, sites[k]) = b[k] /\ ToSet(b[k]) \subseteq V
  <2> DEFINE mine == {c \in V : c.siteId = sites[k].id}
  <2>1. Own(view, sites[k]) = Only(view.configs, mine)
    BY <1>3 DEF Own
  <2>2. ToSet(b[k]) \subseteq V
    BY <1>2, <1>4
  <2>3. ToSet(b[k]) \subseteq mine
    BY <1>2, <2>2
  <2>4. ASSUME NEW n \in DOMAIN b, n # k PROVE ToSet(b[n]) \cap mine = {}
    BY <1>2, <2>4 DEF DistinctSites
  <2> HIDE DEF mine
  <2>5. Only(FlattenSeq(b), mine) = b[k]
    BY <1>2, <2>3, <2>4, OnlyBlock
  <2> QED BY <1>2, <2>1, <2>2, <2>5
<1> QED BY <1>3, <1>5

\* The tree of such a view has the shape of a workspace,
LEMMA TreeIsWorkspace ==
    ASSUME SitesAssumption, SitesInv, DistinctSites,
           NEW w, IsTreeOf(w, view, ToSet(view.configs), view.active)
    PROVE  IsWorkspace(w)
<1> DEFINE V == ToSet(view.configs)
           sites == view.sites
           saved(n, c) == SavedAs(view, view.active, sites[n], c)
<1>1. ViewInv(view)
  BY DEF SitesInv
<1>2. PICK b : InBlocks(view, b)
  BY DEF SitesInv, Ordered
<1>3. /\ b \in Seq(Seq(ConfigRecords)) /\ DOMAIN b = DOMAIN sites
      /\ \A n \in DOMAIN b : /\ \A c \in ToSet(b[n]) : c.siteId = sites[n].id
                             /\ \A x : Repeated(b[n], x) => Shared(sites, sites[n].id)
  BY <1>2 DEF InBlocks
<1>4. \A n \in DOMAIN sites : Own(view, sites[n]) = b[n] /\ ToSet(b[n]) \subseteq V
  BY <1>2, OwnIsBlock
<1>5. /\ w.site = view.site.id /\ w.config = view.active
      /\ w.sites \in Seq(Trees) /\ DOMAIN w.sites = DOMAIN sites
      /\ \A n \in DOMAIN sites :
            /\ w.sites[n].site = sites[n]
            /\ w.sites[n].configs = [k \in DOMAIN b[n] |-> saved(n, b[n][k])]
            /\ ToSet(w.sites[n].configs) = {saved(n, c) : c \in OfSite(V, sites[n])}
  BY <1>4 DEF IsTreeOf
<1>6. \A n \in DOMAIN sites : sites[n] \in ToSet(sites)
  BY DEF ToSet
<1>7. \A n, c : saved(n, c).id = c.id
  BY DEF SavedAs
<1>8. view.site \in ToSet(sites)
  BY <1>1 DEF ViewInv
<1>9. PICK h \in DOMAIN sites : sites[h] = view.site
  BY <1>8 DEF ToSet
<1> HIDE DEF saved
<1>10. w.sites # <<>>
  BY <1>5, <1>9
<1>11. ASSUME NEW n \in DOMAIN w.sites PROVE w.sites[n].configs # <<>>
  <2>1. n \in DOMAIN sites /\ sites[n] \in ToSet(sites)
    BY <1>5, <1>6
  <2>2. PICK c \in V : c.siteId = sites[n].id
    BY <1>1, <2>1 DEF ViewInv
  <2>3. saved(n, c) \in ToSet(w.sites[n].configs)
    BY <1>5, <2>1, <2>2 DEF OfSite
  <2> QED BY <2>3 DEF ToSet
<1>12. Distinct(SiteIdsOf(w))
  <2> DEFINE ids == [n \in DOMAIN w.sites |-> w.sites[n].site.id]
  <2>1. DOMAIN ids = DOMAIN sites /\ \A n \in DOMAIN sites : ids[n] = sites[n].id
    BY <1>5
  <2>2. SiteIdsOf(w) = ids
    BY DEF SiteIdsOf
  <2> HIDE DEF ids
  <2>3. Distinct(ids)
    BY <2>1 DEF Distinct, DistinctSites
  <2> QED BY <2>2, <2>3
<1>13. Distinct(ConfigIdsOf(w))
  <2> DEFINE ids == [n \in DOMAIN w.sites |->
                       [m \in DOMAIN w.sites[n].configs |-> w.sites[n].configs[m].id]]
  <2>1. DOMAIN ids = DOMAIN sites
    BY <1>5
  <2>2. ASSUME NEW n \in DOMAIN sites
        PROVE  /\ DOMAIN ids[n] = DOMAIN b[n]
               /\ \A m \in DOMAIN b[n] : ids[n][m] = b[n][m].id
               /\ ids[n] \in Seq(Nat)
    <3>1. n \in DOMAIN w.sites /\ DOMAIN w.sites[n].configs = DOMAIN b[n]
      BY <1>5
    <3>2. ids[n] = [m \in DOMAIN b[n] |-> w.sites[n].configs[m].id]
      BY <3>1
    <3>3. \A m \in DOMAIN b[n] : w.sites[n].configs[m].id = b[n][m].id
      <4>1. w.sites[n].configs = [k \in DOMAIN b[n] |-> saved(n, b[n][k])]
        BY <1>5
      <4>2. \A k \in DOMAIN b[n] : saved(n, b[n][k]).id = b[n][k].id
        BY <1>7
      <4> QED BY <4>1, <4>2
    <3> HIDE DEF ids
    <3>4. ids[n] = [m \in DOMAIN b[n] |-> b[n][m].id]
      BY <3>2, <3>3
    <3>5. b[n] \in Seq(ConfigRecords)
      BY <1>3
    <3>6. Len(b[n]) \in Nat /\ \A m \in 1..Len(b[n]) : b[n][m].id \in Nat
      <4>1. \A c \in ConfigRecords : c.id \in Nat
        BY DEF ConfigRecords
      <4>2. Len(b[n]) \in Nat /\ \A m \in 1..Len(b[n]) : b[n][m] \in ConfigRecords
        BY <3>5
      <4> QED BY <4>1, <4>2
    <3>7. DOMAIN b[n] = 1..Len(b[n])
      BY <3>5
    <3>8. ids[n] \in Seq(Nat)
      BY <3>4, <3>6, <3>7
    <3> QED BY <3>4, <3>8
  <2>3. ids \in Seq(Seq(Nat))
    <3>1. Len(w.sites) \in Nat /\ DOMAIN w.sites = 1..Len(w.sites)
      BY <1>5
    <3>2. ids = [n \in DOMAIN w.sites |-> ids[n]]
      OBVIOUS
    <3>3. \A n \in DOMAIN w.sites : ids[n] \in Seq(Nat)
      BY <1>5, <2>2
    <3> DEFINE N == Len(w.sites)
    <3> HIDE DEF ids
    <3>4. N \in Nat /\ ids = [n \in 1..N |-> ids[n]] /\ \A n \in 1..N : ids[n] \in Seq(Nat)
      BY <3>1, <3>2, <3>3
    <3> HIDE DEF N
    <3>5. Len(ids) = N /\ DOMAIN ids = 1..N
      BY <3>4
    <3> QED BY <3>4, <3>5
  <2>4. ConfigIdsOf(w) = FlattenSeq(ids)
    BY DEF ConfigIdsOf
  <2> HIDE DEF ids
  <2>5. Alike(V)
    BY <1>1 DEF ViewInv
  <2>6. \A n \in DOMAIN sites : \A m \in DOMAIN b[n] :
           b[n][m] \in ToSet(b[n]) /\ b[n][m] \in V /\ b[n][m].siteId = sites[n].id
    BY <1>3, <1>4 DEF ToSet
  <2>7. ASSUME NEW x, Repeated(FlattenSeq(ids), x) PROVE FALSE
    <3>1. \/ \E n \in DOMAIN ids : Repeated(ids[n], x)
          \/ \E m, n \in DOMAIN ids : m # n /\ x \in ToSet(ids[m]) /\ x \in ToSet(ids[n])
      BY <2>3, <2>7, FlattenRepeated
    <3>2. ASSUME NEW n \in DOMAIN sites, Repeated(ids[n], x) PROVE FALSE
      <4>1. PICK i \in DOMAIN b[n], j \in DOMAIN b[n] : i # j /\ ids[n][i] = x /\ ids[n][j] = x
        BY <2>2, <3>2 DEF Repeated
      <4>2. b[n][i].id = b[n][j].id
        BY <2>2, <4>1
      <4>3. b[n][i] = b[n][j]
        BY <2>5, <2>6, <4>2 DEF Alike
      <4>4. Repeated(b[n], b[n][i])
        BY <4>1, <4>3 DEF Repeated
      <4>5. Shared(sites, sites[n].id)
        BY <1>3, <4>4
      <4> QED BY <4>5 DEF Shared, DistinctSites
    <3>3. ASSUME NEW m \in DOMAIN sites, NEW n \in DOMAIN sites, m # n,
                 x \in ToSet(ids[m]), x \in ToSet(ids[n])
          PROVE  FALSE
      <4>1. PICK i \in DOMAIN b[m] : x = b[m][i].id
        <5>1. PICK i \in DOMAIN ids[m] : x = ids[m][i]
          BY <3>3 DEF ToSet
        <5> QED BY <2>2, <5>1
      <4>2. PICK j \in DOMAIN b[n] : x = b[n][j].id
        <5>1. PICK j \in DOMAIN ids[n] : x = ids[n][j]
          BY <3>3 DEF ToSet
        <5> QED BY <2>2, <5>1
      <4>3. b[m][i] = b[n][j]
        <5>1. b[m][i] \in V /\ b[n][j] \in V
          BY <2>6
        <5> QED BY <2>5, <4>1, <4>2, <5>1 DEF Alike
      <4>4. sites[m].id = sites[n].id
        BY <2>6, <4>3
      <4> QED BY <3>3, <4>4 DEF DistinctSites
    <3> QED BY <2>1, <3>1, <3>2, <3>3
  <2>8. Distinct(FlattenSeq(ids))
    BY <2>7 DEF Distinct, Repeated
  <2> QED BY <2>4, <2>8
<1>14. \E n \in DOMAIN w.sites : /\ w.sites[n].site.id = w.site
                                 /\ Has(w.sites[n].configs, LAMBDA c : c.id = w.config)
  <2>1. PICK c \in V : c.siteId = view.site.id /\ c.id = view.active
    BY <1>1 DEF ViewInv
  <2>2. saved(h, c) \in ToSet(w.sites[h].configs) /\ saved(h, c).id = w.config
    <3>1. ToSet(w.sites[h].configs) = {saved(h, d) : d \in OfSite(V, sites[h])}
      BY <1>5
    <3>2. c \in OfSite(V, sites[h])
      BY <1>9, <2>1 DEF OfSite
    <3>3. saved(h, c).id = w.config
      BY <1>5, <1>7, <2>1
    <3> QED BY <3>1, <3>2, <3>3
  <2>3. Has(w.sites[h].configs, LAMBDA d : d.id = w.config)
    BY <2>2 DEF Has, ToSet
  <2> QED BY <1>5, <1>9, <2>3
<1> QED BY <1>10, <1>11, <1>12, <1>13, <1>14 DEF IsWorkspace

\* and it is materialized as the same view.
LEMMA TreeIsView ==
    ASSUME SitesAssumption, SitesInv, DistinctSites,
           NEW v, ViewOf(v, view, ToSet(view.configs), view.active)
    PROVE  v = view
<1> DEFINE V == ToSet(view.configs)
           sites == view.sites
           home == view.site.id
           active == view.active
<1>1. ViewInv(view)
  BY DEF SitesInv
<1>2. PICK b : InBlocks(view, b)
  BY DEF SitesInv, Ordered
<1>3. /\ b \in Seq(Seq(ConfigRecords)) /\ DOMAIN b = DOMAIN sites
      /\ view.configs = FlattenSeq(b)
  BY <1>2 DEF InBlocks
<1>4. \A n \in DOMAIN sites : Own(view, sites[n]) = b[n] /\ ToSet(b[n]) \subseteq V
  BY <1>2, OwnIsBlock
<1>5. ASSUME NEW c \in V PROVE Put(c, home, active) = c
  <2>1. c \in ConfigRecords
    BY <1>1, ViewRecord
  <2>2. c.content = NoContent <=> c.siteId = home /\ c.id = active
    BY <1>1 DEF ViewInv
  <2>3. c = [id |-> c.id, siteId |-> c.siteId, name |-> c.name, content |-> c.content]
    BY <2>1 DEF ConfigRecords
  <2> QED BY <2>2, <2>3 DEF Put
<1>6. ASSUME NEW n \in DOMAIN sites PROVE Block(view, active, sites[n]) = b[n]
  <2>1. Block(view, active, sites[n]) = [k \in DOMAIN b[n] |-> Put(b[n][k], home, active)]
    BY <1>4 DEF Block
  <2>2. \A k \in DOMAIN b[n] : Put(b[n][k], home, active) = b[n][k]
    BY <1>4, <1>5 DEF ToSet
  <2>3. b[n] = [k \in DOMAIN b[n] |-> b[n][k]]
    <3>1. b[n] \in Seq(ConfigRecords)
      BY <1>3
    <3> QED BY <3>1
  <2> QED BY <2>1, <2>2, <2>3
<1>7. v.configs = view.configs
  <2> DEFINE rows == [n \in DOMAIN sites |-> Block(view, active, sites[n])]
  <2>1. v.configs = FlattenSeq(rows)
    BY DEF ViewOf
  <2>2. b = [n \in DOMAIN sites |-> b[n]]
    BY <1>3
  <2>3. rows = b
    BY <1>6, <2>2
  <2> HIDE DEF rows
  <2> QED BY <1>3, <2>1, <2>3
<1>8. v.site = view.site
  <2>1. v.site \in ToSet(sites) /\ v.site.id = home
    BY DEF ViewOf
  <2>2. view.site \in ToSet(sites)
    BY <1>1 DEF ViewInv
  <2> QED BY <2>1, <2>2 DEF DistinctSites, ToSet
<1>9. v \in Views /\ v.sites = sites /\ v.active = active /\ v.live = view.live
  BY DEF ViewOf
<1>10. v = [site |-> v.site, sites |-> v.sites, configs |-> v.configs,
            active |-> v.active, live |-> v.live]
  BY <1>9 DEF Views
<1> QED BY <1>1, <1>7, <1>8, <1>9, <1>10, ViewRecord

\* A workspace with distinct site IDs can be saved, and its backup restores it.
LEMMA SavedAndRestored ==
    ASSUME SitesAssumption, SitesInv
    PROVE  SavesAndRestores
<1> SUFFICES ASSUME DistinctSites
             PROVE  IsWorkspace(Canonical(view)) /\ Restored(Canonical(view)) = view
  BY DEF SavesAndRestores, workspace
<1>1. ViewInv(view) /\ Ordered(view)
  BY DEF SitesInv
<1>2. Proper(view)
  BY <1>1, ViewRecord DEF Proper, ViewInv
<1>3. Whole(view)
  <2>1. Apart(view.configs, view.sites)
    BY <1>1, ViewDivided, DividedApart
  <2> QED BY <1>1, <1>2, <2>1 DEF Whole, ViewInv
<1>4. PICK D, active : Chosen(view, D, active) /\ IsTreeOf(Canonical(view), view, D, active)
  BY <1>2, CanonicalIs
<1>5. D = ToSet(view.configs) /\ active = view.active
  BY <1>3, <1>4, WholeChosen
<1>6. IsWorkspace(Canonical(view))
  BY <1>4, <1>5, TreeIsWorkspace
<1>7. ViewOf(Materialized(Canonical(view)), view, D, active)
  BY <1>2, <1>4, MaterializedIs
<1>8. Materialized(Canonical(view)) = view
  BY <1>5, <1>7, TreeIsView
<1> QED BY <1>6, <1>8 DEF Restored

-----------------------------------------------------------------------------
(* The steps together *)

\* While a file is chosen, or is found to be no archive, the page stays as it is.
LEMMA UnseenKeeps ==
    ASSUME SitesInv, UNCHANGED <<view, made, updates, edits>>
    PROVE  SitesInv' /\ StepKeeps
<1>1. SitesInv'
  BY DEF SitesInv
<1>2. KeepsSites
  BY SitesStay
<1>3. /\ ConfigIds' = ConfigIds
      /\ \A id : Held(id)' = Held(id)
  BY DEF ConfigIds, Held
<1>4. KeepsContents
  BY <1>3 DEF KeepsContents
<1>5. KeepsConfigurations
  BY <1>3 DEF KeepsConfigurations, Lost
<1> QED BY <1>1, <1>2, <1>4, <1>5 DEF StepKeeps, NamedKeepConfigurations

LEMMA SitesStep ==
    ASSUME SitesAssumption, SitesInv, ImportsFit, SitesNext
    PROVE  SitesInv' /\ StepKeeps
<1>1. \A n \in DOMAIN view.sites : view.sites[n] \in ToSet(view.sites)
  BY DEF ToSet
<1>2. CASE Edit
  BY <1>2, EditKeeps
<1>3. CASE CreateSite
  BY <1>3, CreateSiteKeeps
<1>4. CASE DeleteSite
  BY <1>4, DeleteSiteKeeps
<1>5. ASSUME NEW n \in DOMAIN view.sites, SelectSite(view.sites[n])
      PROVE  SitesInv' /\ StepKeeps
  BY <1>1, <1>5, SelectSiteKeeps
<1>6. ASSUME NEW updated \in Updates, UpdateSite(updated)
      PROVE  SitesInv' /\ StepKeeps
  BY <1>6, UpdateSiteKeeps
<1>7. ASSUME NEW n \in DOMAIN view.configs, SelectConfiguration(view.configs[n])
      PROVE  SitesInv' /\ StepKeeps
  BY <1>7, SelectConfigurationKeeps DEF ToSet
<1>8. ASSUME NEW n \in DOMAIN view.configs, DuplicateConfiguration(view.configs[n])
      PROVE  SitesInv' /\ StepKeeps
  BY <1>8, DuplicateKeeps DEF ToSet
<1>9. ASSUME NEW n \in DOMAIN view.configs, DeleteConfiguration(view.configs[n])
      PROVE  SitesInv' /\ StepKeeps
  BY <1>9, DeleteConfigurationKeeps
<1>10. ASSUME NEW read \in importing, NEW useImported \in BOOLEAN, Import(read, useImported)
       PROVE  SitesInv' /\ StepKeeps
  BY <1>10, ImportKeeps
<1>11. ASSUME UNCHANGED <<view, made, updates, edits>>
       PROVE  SitesInv' /\ StepKeeps
  BY <1>11, UnseenKeeps
<1>12. ASSUME NEW file \in Archives, ChooseFile(file)
       PROVE  SitesInv' /\ StepKeeps
  BY <1>11, <1>12 DEF ChooseFile
<1>13. ASSUME NEW read \in importing, ImportFails(read)
       PROVE  SitesInv' /\ StepKeeps
  BY <1>11, <1>13 DEF ImportFails
<1> QED
  BY <1>2, <1>3, <1>4, <1>5, <1>6, <1>7, <1>8, <1>9, <1>10, <1>12, <1>13 DEF SitesNext

\* What the page had when a file was chosen is a site of that ID.
LEMMA ChosenFits ==
    ASSUME SitesAssumption, SitesInv, ImportsFit, NEW file \in Archives, ChooseFile(file)
    PROVE  ImportsFit'
<1> DEFINE known == \E n \in DOMAIN view.sites : view.sites[n].id = file.id
           current == FirstOf(view.sites, LAMBDA s : s.id = file.id)
           read == [file |-> file, found |-> IF known THEN {current} ELSE {}]
<1>1. importing' = importing \cup {read}
  BY DEF ChooseFile, Has
<1>2. ViewInv(view)
  BY DEF SitesInv
<1>3. view.sites \in Seq(SiteRecords) /\ ToSet(view.sites) \subseteq SiteRecords
  BY <1>2, ViewRecord
<1>4. known <=> \E s \in ToSet(view.sites) : s.id = file.id
  BY DEF ToSet
<1>5. known => current \in SiteRecords /\ current.id = file.id
  BY <1>3, <1>4, FirstWithId
<1> HIDE DEF known, current
<1>6. read \in Imports /\ \A s \in read.found : s.id = read.file.id
  BY <1>5 DEF Imports
<1> QED BY <1>1, <1>6 DEF ImportsFit

\* Only the choice of a file adds an import.
LEMMA ImportsStay ==
    ASSUME SitesAssumption, SitesInv, ImportsFit, SitesNext
    PROVE  ImportsFit'
<1>1. ASSUME importing' \subseteq importing PROVE ImportsFit'
  BY <1>1 DEF ImportsFit
<1>2. ASSUME NEW file \in Archives, ChooseFile(file) PROVE ImportsFit'
  BY <1>2, ChosenFits
<1>3. ASSUME NEW read \in importing, ImportFails(read) PROVE importing' \subseteq importing
  BY <1>3 DEF ImportFails
<1>4. ASSUME NEW read \in importing, NEW useImported \in BOOLEAN, Import(read, useImported)
      PROVE  importing' \subseteq importing
  BY <1>4 DEF Import
<1>5. ASSUME \/ Edit \/ CreateSite \/ DeleteSite
             \/ \E n \in DOMAIN view.sites : SelectSite(view.sites[n])
             \/ \E updated \in Updates : UpdateSite(updated)
             \/ \E n \in DOMAIN view.configs :
                   \/ SelectConfiguration(view.configs[n])
                   \/ DuplicateConfiguration(view.configs[n])
                   \/ DeleteConfiguration(view.configs[n])
      PROVE  importing' = importing
  BY <1>5 DEF Edit, CreateSite, DeleteSite, SelectSite, UpdateSite, SelectConfiguration,
              DuplicateConfiguration, DeleteConfiguration
<1> QED BY <1>1, <1>2, <1>3, <1>4, <1>5 DEF SitesNext

\* The invariant of the sites, with whatever else happens around them.
LEMMA SitesStutter ==
    ASSUME SitesInv, ImportsFit, UNCHANGED sitesVars
    PROVE  SitesInv' /\ ImportsFit'
BY DEF SitesInv, ImportsFit, sitesVars

\* What the invariant says of the types.
LEMMA SitesTyped == SitesInv /\ ImportsFit => SitesTypeOK
BY DEF SitesInv, ImportsFit, ViewInv, Views, SitesTypeOK

-----------------------------------------------------------------------------
(* Rooms *)

\* The rooms that the floor of this one names.
FloorsOf(rooms, r) == {n \in 1..Len(rooms) : rooms[n].id # r.id /\ rooms[n].name = r.floor}

LEMMA RestoredRoomsIs ==
    ASSUME NEW rooms \in Seq(OldRooms)
    PROVE  RestoredRooms(rooms) =
             [n \in 1..Len(rooms) |->
                IF rooms[n].parent # 0 \/ rooms[n].floor \in {"", "FlexiDim"}
                   \/ FloorsOf(rooms, rooms[n]) = {}
                THEN rooms[n]
                ELSE [rooms[n] EXCEPT !.parent = rooms[Min(FloorsOf(rooms, rooms[n]))].id]]
<1>1. DOMAIN rooms = 1..Len(rooms)
  OBVIOUS
<1> DEFINE named(r) == {n \in 1..Len(rooms) : rooms[n].id # r.id /\ rooms[n].name = r.floor}
           one(r) == IF r.parent # 0 \/ r.floor \in {"", "FlexiDim"} \/ named(r) = {} THEN r
                     ELSE [r EXCEPT !.parent = rooms[Min(named(r))].id]
<1>2. RestoredRooms(rooms) = [n \in DOMAIN rooms |->
        IF rooms[n].parent # 0 \/ rooms[n].floor \in {"", "FlexiDim"}
           \/ ~(\E m \in DOMAIN rooms : /\ rooms[m].id # rooms[n].id
                                       /\ rooms[m].name = rooms[n].floor)
        THEN rooms[n]
        ELSE [rooms[n] EXCEPT !.parent =
                rooms[IF named(rooms[n]) # {} THEN Min(named(rooms[n])) ELSE 0].id]]
  BY Zenon DEF RestoredRooms, Each, Has, FirstOf, SelectInSeq
<1>3. ASSUME NEW n \in DOMAIN rooms
      PROVE  (\E m \in DOMAIN rooms : /\ rooms[m].id # rooms[n].id
                                     /\ rooms[m].name = rooms[n].floor) <=> named(rooms[n]) # {}
  BY <1>1
<1> QED BY <1>1, <1>2, <1>3 DEF FloorsOf

\* One of a floor's rooms is the first.
LEMMA FirstFloor ==
    ASSUME NEW rooms \in Seq(OldRooms), NEW r, FloorsOf(rooms, r) # {}
    PROVE  Min(FloorsOf(rooms, r)) \in 1..Len(rooms)
<1>1. FloorsOf(rooms, r) \in SUBSET Nat
  BY DEF FloorsOf
<1>2. Min(FloorsOf(rooms, r)) \in FloorsOf(rooms, r)
  BY <1>1, MinIn
<1> QED BY <1>2 DEF FloorsOf

LEMMA RoomsOnce ==
    ASSUME NEW rooms \in Seq(OldRooms)
    PROVE  RestoredRooms(RestoredRooms(rooms)) = RestoredRooms(rooms)
<1> DEFINE now == RestoredRooms(rooms)
           found(n) == rooms[Min(FloorsOf(rooms, rooms[n]))].id
<1>1. /\ Len(rooms) \in Nat
      /\ \A n \in 1..Len(rooms) : rooms[n] \in OldRooms
  OBVIOUS
<1>2. ASSUME NEW n \in 1..Len(rooms), FloorsOf(rooms, rooms[n]) # {}
      PROVE  found(n) \in Nat
  <2>1. Min(FloorsOf(rooms, rooms[n])) \in 1..Len(rooms)
    BY <1>2, FirstFloor
  <2> QED BY <1>1, <2>1 DEF OldRooms
<1>3. /\ now \in Seq(OldRooms) /\ Len(now) = Len(rooms) /\ DOMAIN now = 1..Len(rooms)
      /\ \A n \in 1..Len(rooms) :
           now[n] = IF rooms[n].parent # 0 \/ rooms[n].floor \in {"", "FlexiDim"}
                       \/ FloorsOf(rooms, rooms[n]) = {}
                    THEN rooms[n] ELSE [rooms[n] EXCEPT !.parent = found(n)]
  <2> DEFINE one(n) == IF rooms[n].parent # 0 \/ rooms[n].floor \in {"", "FlexiDim"}
                          \/ FloorsOf(rooms, rooms[n]) = {}
                       THEN rooms[n] ELSE [rooms[n] EXCEPT !.parent = found(n)]
  <2>1. now = [n \in 1..Len(rooms) |-> one(n)]
    BY RestoredRoomsIs
  <2>2. ASSUME NEW n \in 1..Len(rooms) PROVE one(n) \in OldRooms
    <3>1. rooms[n] \in OldRooms
      OBVIOUS
    <3> HIDE DEF found
    <3> QED BY <1>2, <3>1 DEF OldRooms
  <2> HIDE DEF one, now
  <2>3. now \in [1..Len(rooms) -> OldRooms] /\ DOMAIN now = 1..Len(rooms)
    BY <2>1, <2>2
  <2>4. now \in Seq(OldRooms) /\ Len(now) = Len(rooms) /\ DOMAIN now = 1..Len(rooms)
    BY <1>1, <2>3
  <2> QED BY <2>1, <2>4 DEF one
<1> HIDE DEF now, found
<1>4. \A n \in 1..Len(rooms) : /\ now[n].id = rooms[n].id /\ now[n].name = rooms[n].name
                               /\ now[n].floor = rooms[n].floor
  BY <1>1, <1>3 DEF OldRooms
<1>5. ASSUME NEW n \in 1..Len(rooms)
      PROVE  /\ FloorsOf(now, now[n]) = FloorsOf(rooms, rooms[n])
             /\ FloorsOf(now, now[n]) # {} => now[Min(FloorsOf(now, now[n]))].id = found(n)
  <2>1. FloorsOf(now, now[n]) = FloorsOf(rooms, rooms[n])
    BY <1>3, <1>4 DEF FloorsOf
  <2>2. ASSUME FloorsOf(rooms, rooms[n]) # {}
        PROVE  Min(FloorsOf(rooms, rooms[n])) \in 1..Len(rooms)
    BY <2>2, FirstFloor
  <2>3. ASSUME FloorsOf(rooms, rooms[n]) # {}
        PROVE  now[Min(FloorsOf(rooms, rooms[n]))].id = found(n)
    <3> DEFINE m == Min(FloorsOf(rooms, rooms[n]))
    <3>1. m \in 1..Len(rooms)
      BY <2>2, <2>3
    <3>2. found(n) = rooms[m].id
      BY DEF found
    <3> HIDE DEF m
    <3>3. now[m].id = rooms[m].id
      BY <1>4, <3>1
    <3> QED BY <3>2, <3>3 DEF m
  <2> QED BY <2>1, <2>3
<1>6. ASSUME NEW n \in 1..Len(rooms)
      PROVE  now[n] = IF now[n].parent # 0 \/ now[n].floor \in {"", "FlexiDim"}
                         \/ FloorsOf(now, now[n]) = {}
                      THEN now[n]
                      ELSE [now[n] EXCEPT !.parent = now[Min(FloorsOf(now, now[n]))].id]
  <2> DEFINE v == now[n]
             u == rooms[n]
  <2>0. u \in OldRooms /\ v \in OldRooms
    <3>1. now \in Seq(OldRooms) /\ n \in DOMAIN now
      BY <1>3
    <3>2. now[n] \in OldRooms
      BY <3>1
    <3> QED BY <1>1, <3>2
  <2>1. /\ u \in OldRooms /\ v \in OldRooms
        /\ v = IF u.parent # 0 \/ u.floor \in {"", "FlexiDim"} \/ FloorsOf(rooms, u) = {}
               THEN u ELSE [u EXCEPT !.parent = found(n)]
    BY <1>3, <2>0
  <2>2. /\ v.floor = u.floor /\ FloorsOf(now, v) = FloorsOf(rooms, u)
        /\ FloorsOf(now, v) # {} => now[Min(FloorsOf(now, v))].id = found(n)
    BY <1>4, <1>5
  <2>3. v.parent = found(n) => [v EXCEPT !.parent = found(n)] = v
    BY <2>1 DEF OldRooms
  <2>4. ~(u.parent # 0 \/ u.floor \in {"", "FlexiDim"} \/ FloorsOf(rooms, u) = {})
          => v.parent = found(n)
    BY <2>1 DEF OldRooms
  <2> HIDE DEF u, v
  <2>5. v = IF v.parent # 0 \/ v.floor \in {"", "FlexiDim"} \/ FloorsOf(now, v) = {} THEN v
            ELSE [v EXCEPT !.parent = now[Min(FloorsOf(now, v))].id]
    <3>1. CASE u.parent # 0 \/ u.floor \in {"", "FlexiDim"} \/ FloorsOf(rooms, u) = {}
      BY <2>1, <2>2, <3>1
    <3>2. CASE ~(u.parent # 0 \/ u.floor \in {"", "FlexiDim"} \/ FloorsOf(rooms, u) = {})
      BY <2>1, <2>2, <2>3, <2>4, <3>2
    <3> QED BY <3>1, <3>2
  <2> QED BY <2>5 DEF v
<1>7. RestoredRooms(now) = [n \in 1..Len(rooms) |-> now[n]]
  <2>1. RestoredRooms(now) = [n \in 1..Len(now) |->
           IF now[n].parent # 0 \/ now[n].floor \in {"", "FlexiDim"}
              \/ FloorsOf(now, now[n]) = {}
           THEN now[n] ELSE [now[n] EXCEPT !.parent = now[Min(FloorsOf(now, now[n]))].id]]
    BY <1>3, RestoredRoomsIs, Zenon
  <2> QED BY <1>3, <1>6, <2>1
<1>8. now = [n \in 1..Len(rooms) |-> now[n]]
  <2>1. now \in Seq(OldRooms) /\ DOMAIN now = 1..Len(rooms)
    BY <1>3
  <2>2. now = [n \in DOMAIN now |-> now[n]]
    BY <2>1
  <2> QED BY <2>1, <2>2
<1>9. RestoredRooms(now) = now
  BY <1>7, <1>8
<1> QED BY <1>9 DEF now

-----------------------------------------------------------------------------
(* Users, codes and connections *)

LEMMA UsersOnce ==
    ASSUME NEW t, t \in [rooms : Seq(Links), switches : Seq(Links), users : Seq(OldUsers)]
    PROVE  /\ WithAccess(WithAccess(t)) = WithAccess(t)
           /\ \A n \in DOMAIN t.users :
                ~MayResolve(t.users[n]) => WithAccess(t).users[n] = t.users[n]
<1> DEFINE rooms(u) == Resolved(t.rooms, [n \in DOMAIN u.access |-> u.access[n][1]])
           switches(u) == Resolved(t.switches,
                                   FlattenSeq([n \in DOMAIN u.access |-> Tail(u.access[n])]))
           seen(u) == IF MayResolve(u) THEN [u EXCEPT !.rooms = rooms(u), !.switches = switches(u)]
                      ELSE u
           now == [t EXCEPT !.users = [n \in DOMAIN t.users |-> seen(t.users[n])]]
<1>1. WithAccess(t) = now
  BY DEF WithAccess, Each
<1>2. /\ now.rooms = t.rooms /\ now.switches = t.switches
      /\ now.users = [n \in DOMAIN t.users |-> seen(t.users[n])]
      /\ DOMAIN t.users = 1..Len(t.users) /\ \A n \in DOMAIN t.users : t.users[n] \in OldUsers
  OBVIOUS
<1>3. WithAccess(now) = [now EXCEPT !.users = [n \in DOMAIN now.users |-> seen(now.users[n])]]
  <2> DEFINE links == now.rooms
             others == now.switches
             seen2(u) == IF MayResolve(u)
                         THEN [u EXCEPT !.rooms = Resolved(links, [n \in DOMAIN u.access |-> u.access[n][1]]),
                                        !.switches = Resolved(others,
                                   FlattenSeq([n \in DOMAIN u.access |-> Tail(u.access[n])]))]
                         ELSE u
  <2> HIDE DEF now
  <2>1. WithAccess(now) = [now EXCEPT !.users = [n \in DOMAIN now.users |-> seen2(now.users[n])]]
    BY DEF WithAccess, Each
  <2>2. links = t.rooms /\ others = t.switches
    BY <1>2
  <2> HIDE DEF links, others
  <2>3. \A u : seen2(u) = seen(u)
    BY <2>2, Zenon
  <2> HIDE DEF seen, seen2
  <2> QED BY <2>1, <2>3
<1>4. ASSUME NEW u \in OldUsers PROVE seen(seen(u)) = seen(u)
  <2> DEFINE v == [u EXCEPT !.rooms = rooms(u), !.switches = switches(u)]
  <2>1. rooms(v) = rooms(u) /\ switches(v) = switches(u)
    BY DEF OldUsers
  <2>2. [v EXCEPT !.rooms = rooms(u), !.switches = switches(u)] = v
    BY DEF OldUsers
  <2> HIDE DEF rooms, switches
  <2>3. seen(v) = v
    BY <2>1, <2>2
  <2> QED BY <2>3
<1> HIDE DEF seen
<1>5. [n \in DOMAIN now.users |-> seen(now.users[n])] = now.users
  BY <1>2, <1>4
<1>6. [now EXCEPT !.users = now.users] = now
  BY <1>2
<1>7. WithAccess(now) = now
  BY <1>3, <1>5, <1>6
<1>8. \A n \in DOMAIN t.users : ~MayResolve(t.users[n]) => now.users[n] = t.users[n]
  BY <1>2 DEF seen
<1> HIDE DEF now
<1> QED BY <1>1, <1>7, <1>8

LEMMA CodeOnce ==
    ASSUME NEW t, t \in [modules : Nat, hardware : Nat, code : STRING, top : Seq(STRING)]
    PROVE  WithCode(WithCode(t)) = WithCode(t)
BY DEF WithCode, IsCode

LEMMA ConnectionOnce ==
    ASSUME NEW s \in Connections, NEW b \in Connections
    PROVE  /\ WithConnection(WithConnection(s, b), b) = WithConnection(s, b)
           /\ s.ip # "" => WithConnection(s, b).ip # ""
           /\ s.code # "" => WithConnection(s, b).code # ""
<1>1. CASE b.id # s.id
  BY <1>1 DEF WithConnection
<1>2. CASE b.id = s.id
  <2> DEFINE ip == IF b.ip # "" THEN b.ip ELSE s.ip
             port == IF b.port \in Ports THEN b.port ELSE s.port
             code == IF b.code # "" THEN b.code ELSE s.code
             now == [s EXCEPT !.ip = ip, !.port = port, !.auto = b.auto, !.code = code]
  <2>1. WithConnection(s, b) = now
    BY <1>2 DEF WithConnection
  <2>2. /\ now.ip = ip /\ now.port = port /\ now.auto = b.auto /\ now.code = code
        /\ now.id = s.id /\ now \in Connections
    BY DEF Connections
  <2>3. /\ ip = IF b.ip # "" THEN b.ip ELSE ip
        /\ port = IF b.port \in Ports THEN b.port ELSE port
        /\ code = IF b.code # "" THEN b.code ELSE code
        /\ (s.ip # "" => ip # "") /\ (s.code # "" => code # "")
    OBVIOUS
  <2> HIDE DEF now, ip, port, code
  <2>4. WithConnection(now, b) =
          [now EXCEPT !.ip = ip, !.port = port, !.auto = b.auto, !.code = code]
    BY <1>2, <2>2, <2>3 DEF WithConnection
  <2>5. [now EXCEPT !.ip = ip, !.port = port, !.auto = b.auto, !.code = code] = now
    BY <2>2 DEF Connections
  <2> QED BY <2>1, <2>2, <2>3, <2>4, <2>5
<1> QED BY <1>1, <1>2

-----------------------------------------------------------------------------
(* Rows of tables *)

\* Only takes no notice of what is not in the sequence.
LEMMA OnlyWithin ==
    ASSUME NEW T, NEW s \in Seq(T), NEW S
    PROVE  Only(s, S \cap ToSet(s)) = Only(s, S)
<1> DEFINE N == Len(s)
<1>1. PICK f : OnlySteps(f, T, s, S \cap ToSet(s))
  BY OnlyStepped
<1>2. PICK g : OnlySteps(g, T, s, S)
  BY OnlyStepped
<1>3. N \in Nat /\ \A n \in 1..N : s[n] \in ToSet(s)
  BY DEF ToSet
<1> DEFINE Same == {n \in 0..N : f[n] = g[n]}
<1>4. 0 \in Same
  BY <1>1, <1>2, <1>3 DEF OnlySteps
<1>5. ASSUME NEW n \in 1..N, n - 1 \in Same PROVE n \in Same
  BY <1>1, <1>2, <1>3, <1>5 DEF OnlySteps
<1>6. \A n \in 0..N : n \in Same
  <2> HIDE DEF Same, N
  <2> QED BY <1>3, <1>4, <1>5, CountUp
<1>7. N \in 0..N
  BY <1>3
<1> QED BY <1>1, <1>2, <1>6, <1>7 DEF OnlySteps

Rows == STRING \cup {BlankRow}
Named == Rows \ {BlankRow}

LEMMA NamedRows ==
    ASSUME NEW s \in Seq(Rows)
    PROVE  Where(s, LAMBDA r : r # BlankRow) = Only(s, Named)
<1>1. {r \in ToSet(s) : r # BlankRow} = Named \cap ToSet(s)
  BY DEF ToSet, Named
<1>2. Where(s, LAMBDA r : r # BlankRow) = Only(s, {r \in ToSet(s) : r # BlankRow})
  BY DEF Where
<1> QED BY <1>1, <1>2, OnlyWithin

\* Blank rows at the end are not named.
LEMMA PaddedRows ==
    ASSUME NEW s \in Seq(Rows), NEW count \in Nat, Len(s) <= count
    PROVE  /\ Padded(s, count) \in Seq(Rows) /\ Len(Padded(s, count)) = count
           /\ Only(Padded(s, count), Named) = Only(s, Named)
<1> DEFINE p == Padded(s, count)
           b == [n \in 1..count - Len(s) |-> BlankRow]
<1>0. BlankRow \in Rows
  BY DEF Rows
<1>1. Len(s) \in Nat
  OBVIOUS
<1>2. p \in Seq(Rows) /\ Len(p) = count
  <2>1. \A n \in 1..Len(s) : s[n] \in Rows
    OBVIOUS
  <2> QED BY <1>0, <1>1, <2>1 DEF Padded
<1>3. b \in Seq(Rows) /\ Len(b) = count - Len(s)
  <2>1. count - Len(s) \in Nat
    BY <1>1
  <2> QED BY <1>0, <2>1
<1>4. \A n \in 1..count : p[n] = IF n <= Len(s) THEN s[n] ELSE BlankRow
  BY <1>1 DEF Padded
<1>5. \A n \in 1..Len(b) : b[n] = BlankRow
  BY <1>3
<1> HIDE DEF p, b
<1>6. p = s \o b
  <2>1. DOMAIN p = 1..count /\ Len(s) + Len(b) = count
    BY <1>1, <1>2, <1>3
  <2>2. ASSUME NEW n \in 1..count PROVE p[n] = (s \o b)[n]
    <3>1. (s \o b)[n] = IF n <= Len(s) THEN s[n] ELSE b[n - Len(s)]
      BY <1>3, <2>1, ConcatProperties
    <3>2. n > Len(s) => n - Len(s) \in 1..Len(b)
      BY <1>1, <1>3
    <3>3. CASE n <= Len(s)
      BY <1>4, <3>1, <3>3
    <3>4. CASE ~(n <= Len(s))
      <4>1. n > Len(s)
        BY <1>1, <3>4
      <4> QED BY <1>4, <1>5, <3>1, <3>2, <3>4, <4>1
    <3> QED BY <3>3, <3>4
  <2>3. s \o b \in Seq(Rows) /\ Len(s \o b) = count
    BY <1>3, <2>1, ConcatProperties
  <2> QED BY <1>2, <2>2, <2>3, SeqEqual
<1>7. ToSet(b) \cap Named = {}
  BY <1>3, <1>5 DEF ToSet, Named
<1>8. Only(b, Named) = <<>>
  BY <1>3, <1>7, OnlyNone
<1>9. Joins(Only(p, Named), Only(s, Named), Only(b, Named))
  <2>1. Joins(p, s, b)
    BY <1>6 DEF Joins
  <2> QED BY <1>3, <2>1, OnlyConcat
<1>10. Only(s, Named) \in Seq(Rows)
  BY OnlyElements
<1>11. Only(p, Named) = Only(s, Named)
  BY <1>8, <1>9, <1>10, ConcatEmptySeq DEF Joins
<1> QED BY <1>2, <1>11 DEF p

LEMMA PaddedAlready ==
    ASSUME NEW s \in Seq(Rows)
    PROVE  Padded(s, Len(s)) = s
BY DEF Padded

RowTables == [periods : Seq(Rows), flags : Seq(Rows)]

LEMMA RowsStay ==
    ASSUME NEW t \in RowTables, PeriodRows \in Nat \ {0}, FlagRows \in Nat \ {0},
           Len(t.periods) <= PeriodRows + FlagRows, Len(t.flags) <= FlagRows
    PROVE  LET now == NormalTables(t)
               before == t.periods \o t.flags
               after == now.periods \o now.flags
           IN  /\ NormalTables(now) = now
               /\ Len(t.periods) <= PeriodRows \/ t.flags = <<>> =>
                    Where(before, LAMBDA r : r # BlankRow) = Where(after, LAMBDA r : r # BlankRow)
<1> DEFINE p == t.periods
           f == t.flags
           rows == IF f # <<>> THEN f ELSE SubSeq(p, PeriodRows + 1, Len(p))
           first == Padded(p, PeriodRows)
           second == Padded(rows, FlagRows)
           now == NormalTables(t)
<1>1. p \in Seq(Rows) /\ f \in Seq(Rows)
  BY DEF RowTables
<1>2. Len(p) \in Nat /\ Len(f) \in Nat /\ Len(p) <= PeriodRows + FlagRows /\ Len(f) <= FlagRows
  BY <1>1
<1>3. now = [periods |-> first, flags |-> second]
  BY DEF NormalTables
<1> HIDE DEF now, p, f, first, second
<1>4. rows \in Seq(Rows) /\ Len(rows) \in Nat /\ Len(rows) <= FlagRows
  <2>1. CASE f # <<>>
    BY <1>1, <1>2, <2>1
  <2>2. CASE f = <<>> /\ Len(p) > PeriodRows
    <3>1. PeriodRows + 1 \in 1..Len(p) + 1
      BY <1>2, <2>2
    <3>2. /\ SubSeq(p, PeriodRows + 1, Len(p)) \in Seq(Rows)
          /\ Len(SubSeq(p, PeriodRows + 1, Len(p))) = Len(p) - PeriodRows
      BY <1>1, <1>2, <2>2
    <3> QED BY <1>2, <2>2, <3>2
  <2>3. CASE f = <<>> /\ Len(p) <= PeriodRows
    <3>1. SubSeq(p, PeriodRows + 1, Len(p)) = <<>>
      BY <1>1, <1>2, <2>3
    <3> QED BY <2>3, <3>1
  <2> QED BY <1>2, <2>1, <2>2, <2>3
<1>5. /\ second \in Seq(Rows) /\ Len(second) = FlagRows
      /\ Only(second, Named) = Only(rows, Named)
  <2> HIDE DEF rows
  <2> QED BY <1>4, PaddedRows DEF second
<1>6. first \in Seq(Rows) /\ Len(first) = PeriodRows
  <2>1. first = [n \in 1..PeriodRows |-> IF n <= Len(p) THEN p[n] ELSE BlankRow]
    BY DEF first, Padded
  <2>2. \A n \in 1..PeriodRows : n <= Len(p) => p[n] \in Rows
    BY <1>1
  <2>3. BlankRow \in Rows
    BY DEF Rows
  <2> QED BY <1>2, <2>1, <2>2, <2>3
<1>7. NormalTables(now) = now
  <2>1. second # <<>>
    BY <1>5
  <2>2. Padded(first, PeriodRows) = first /\ Padded(second, FlagRows) = second
    BY <1>5, <1>6, PaddedAlready
  <2>3. now.periods = first /\ now.flags = second
    BY <1>3
  <2>4. NormalTables(now) = [periods |-> Padded(first, PeriodRows),
                             flags |-> Padded(second, FlagRows)]
    BY <2>1, <2>3 DEF NormalTables
  <2> QED BY <1>3, <2>2, <2>4
<1>8. ASSUME Len(p) <= PeriodRows \/ f = <<>>
      PROVE  Only(p \o f, Named) = Only(first \o second, Named)
  <2>1. /\ Joins(Only(p \o f, Named), Only(p, Named), Only(f, Named))
        /\ Joins(Only(first \o second, Named), Only(first, Named), Only(second, Named))
    <3>1. Joins(p \o f, p, f) /\ Joins(first \o second, first, second)
      BY DEF Joins
    <3> QED BY <1>1, <1>5, <1>6, <3>1, OnlyConcat
  <2>2. CASE Len(p) <= PeriodRows
    <3>1. Only(first, Named) = Only(p, Named)
      BY <1>1, <2>2, PaddedRows DEF first
    <3>2. Only(rows, Named) = Only(f, Named)
      <4>1. SubSeq(p, PeriodRows + 1, Len(p)) = <<>>
        BY <1>1, <1>2, <2>2
      <4> QED BY <4>1
    <3> QED BY <1>5, <2>1, <3>1, <3>2 DEF Joins
  <2>3. CASE f = <<>> /\ Len(p) > PeriodRows
    <3>1. p \o f = p
      BY <1>1, <2>3, ConcatEmptySeq
    <3>2. first = SubSeq(p, 1, PeriodRows)
      <4>1. first = [n \in 1..PeriodRows |-> p[n]]
        BY <1>2, <2>3 DEF first, Padded
      <4> QED BY <1>1, <1>2, <2>3, <4>1
    <3>3. rows = SubSeq(p, PeriodRows + 1, Len(p))
      BY <2>3
    <3>4. Joins(p, first, rows)
      <4>1. p = SubSeq(p, 1, PeriodRows) \o SubSeq(p, PeriodRows + 1, Len(p))
        <5>1. 1 \in 1..Len(p) + 1 /\ PeriodRows \in 1 - 1..Len(p) /\ Len(p) \in PeriodRows..Len(p)
          BY <1>2, <2>3
        <5>2. SubSeq(p, 1, PeriodRows) \o SubSeq(p, PeriodRows + 1, Len(p)) = SubSeq(p, 1, Len(p))
          BY <1>1, <5>1, ConcatAdjacentSubSeq
        <5> QED BY <1>1, <5>2, SubSeqFull
      <4> HIDE DEF rows
      <4> QED BY <3>2, <3>3, <4>1 DEF Joins
    <3>5. Joins(Only(p, Named), Only(first, Named), Only(rows, Named))
      <4> HIDE DEF rows
      <4> QED BY <1>1, <1>4, <1>6, <3>4, OnlyConcat
    <3> HIDE DEF rows
    <3> QED BY <1>5, <2>1, <3>1, <3>5 DEF Joins
  <2> QED BY <1>2, <1>8, <2>2, <2>3
<1>9. p \o f \in Seq(Rows) /\ first \o second \in Seq(Rows)
  BY <1>1, <1>5, <1>6
<1>10. ASSUME Len(p) <= PeriodRows \/ f = <<>>
       PROVE  Where(p \o f, LAMBDA r : r # BlankRow) = Where(first \o second, LAMBDA r : r # BlankRow)
  <2>1. /\ Where(p \o f, LAMBDA r : r # BlankRow) = Only(p \o f, Named)
        /\ Where(first \o second, LAMBDA r : r # BlankRow) = Only(first \o second, Named)
    BY <1>9, NamedRows
  <2> QED BY <1>8, <1>10, <2>1
<1>11. now.periods = first /\ now.flags = second
  BY <1>3
<1> QED BY <1>7, <1>10, <1>11 DEF now, p, f

-----------------------------------------------------------------------------
(* Addresses *)

Outputs == [module : Nat, index : 1..8, address : Nat]

\* Where a module is does not depend on the addresses.
LEMMA SamePosition ==
    ASSUME NEW C, NEW D, {c.module : c \in C} = {d.module : d \in D}, NEW module
    PROVE  SortedPosition(C, module) = SortedPosition(D, module)
BY DEF SortedPosition

LEMMA PositionIsNat ==
    ASSUME NEW C, IsFiniteSet(C), NEW module
    PROVE  SortedPosition(C, module) \in Nat
<1> DEFINE M == {c.module : c \in C}
           f == [c \in C |-> c.module]
<1>1. IsFiniteSet(M)
  <2>1. f \in Surjection(C, M)
    BY DEF Surjection
  <2> HIDE DEF M, f
  <2> QED BY <2>1, FS_Surjection DEF ExistsSurjection
<1>2. IsFiniteSet({m \in M : m < module})
  BY <1>1, FS_Subset
<1> QED BY <1>2, FS_CardinalityType DEF SortedPosition

\* Addressing twice is addressing once.
LEMMA AddressedTwice ==
    ASSUME NEW C, C \subseteq Outputs, \A m : SortedPosition(C, m) \in Nat
    PROVE  LET D == {Addressed(C, c) : c \in C}
           IN  /\ {d.module : d \in D} = {c.module : c \in C}
               /\ D \subseteq Outputs
               /\ \A d \in D : d.address = SortedPosition(D, d.module) * 8 + d.index
<1> DEFINE D == {Addressed(C, c) : c \in C}
<1>1. ASSUME NEW c \in C
      PROVE  /\ Addressed(C, c) \in Outputs /\ Addressed(C, c).module = c.module
             /\ Addressed(C, c).address = SortedPosition(C, c.module) * 8 + c.index
             /\ Addressed(C, c).index = c.index
  <2>1. SortedPosition(C, c.module) * 8 + c.index \in Nat
    <3>1. SortedPosition(C, c.module) \in Nat /\ c.index \in Nat
      BY DEF Outputs
    <3> QED BY <3>1
  <2> QED BY <2>1 DEF Addressed, Outputs
<1>2. {d.module : d \in D} = {c.module : c \in C}
  BY <1>1
<1>3. \A m : SortedPosition(D, m) = SortedPosition(C, m)
  <2> HIDE DEF D
  <2> QED BY <1>2, SamePosition
<1>4. \A d \in D : d.address = SortedPosition(D, d.module) * 8 + d.index
  BY <1>1, <1>3
<1> QED BY <1>1, <1>2, <1>4

\* Where the addresses are right, nothing is restored.
LEMMA RightStays ==
    ASSUME NEW C, C \subseteq Outputs,
           \A c \in C : c.address = SortedPosition(C, c.module) * 8 + c.index
    PROVE  RestoredChannels(C) = C
<1>1. \A c \in C : Addressed(C, c) = c
  BY DEF Addressed, Outputs
<1>2. {Addressed(C, c) : c \in C} = C
  BY <1>1
<1> QED BY <1>2 DEF RestoredChannels

\* The position of a module in an ascending order.
LEMMA AscendingPosition ==
    ASSUME NEW order \in Seq(Nat), Ascending(order), NEW p \in DOMAIN order
    PROVE  Cardinality({m \in {order[q] : q \in DOMAIN order} : m < order[p]}) = p - 1
<1> DEFINE S == {m \in {order[q] : q \in DOMAIN order} : m < order[p]}
           f == [q \in 1..p - 1 |-> order[q]]
<1>1. DOMAIN order = 1..Len(order) /\ \A q \in 1..Len(order) : order[q] \in Nat
  OBVIOUS
<1>2. Len(order) \in Nat /\ p \in 1..Len(order)
  OBVIOUS
<1>3. \A q, r \in 1..Len(order) : q < r => order[q] < order[r]
  BY <1>1 DEF Ascending
<1>4. \A q \in 1..Len(order) : order[q] < order[p] <=> q < p
  <2> TAKE q \in 1..Len(order)
  <2>1. order[q] \in Nat /\ order[p] \in Nat
    BY <1>1, <1>2
  <2>2. q < p => order[q] < order[p]
    BY <1>2, <1>3
  <2>3. p < q => order[p] < order[q]
    BY <1>2, <1>3
  <2> QED BY <1>2, <2>1, <2>2, <2>3
<1>5. S = {order[q] : q \in 1..p - 1}
  <2>1. \A q : q \in 1..p - 1 <=> q \in 1..Len(order) /\ q < p
    BY <1>2
  <2> QED BY <1>1, <1>4, <2>1
<1>6. f \in Bijection(1..p - 1, S)
  <2>1. \A q, r \in 1..p - 1 : order[q] = order[r] => q = r
    <3> TAKE q, r \in 1..p - 1
    <3>1. q \in 1..Len(order) /\ r \in 1..Len(order)
      BY <1>2
    <3>2. order[q] \in Nat /\ order[r] \in Nat
      BY <1>1, <3>1
    <3>3. (q < r => order[q] < order[r]) /\ (r < q => order[r] < order[q])
      BY <1>3, <3>1
    <3> QED BY <3>1, <3>2, <3>3
  <2> HIDE DEF S
  <2>2. f \in [1..p - 1 -> S]
    BY <1>5
  <2>3. \A s \in S : \E q \in 1..p - 1 : f[q] = s
    BY <1>5
  <2>4. \A q, r \in 1..p - 1 : f[q] = f[r] => q = r
    BY <2>1
  <2> HIDE DEF f
  <2> QED BY <2>2, <2>3, <2>4 DEF Bijection, Injection, Surjection, IsInjective
<1>7. IsFiniteSet(1..p - 1) /\ Cardinality(1..p - 1) = p - 1
  <2> DEFINE k == p - 1
  <2>2. k \in Int /\ (1 > k => k = 0)
    BY <1>2
  <2> HIDE DEF k
  <2>3. IsFiniteSet(1..k) /\ Cardinality(1..k) = IF 1 > k THEN 0 ELSE k - 1 + 1
    BY <2>2, FS_Interval
  <2>4. Cardinality(1..k) = k
    BY <2>2, <2>3
  <2> QED BY <2>3, <2>4 DEF k
<1> HIDE DEF S, f
<1>8. Cardinality(S) = Cardinality(1..p - 1)
  <2>1. ExistsBijection(1..p - 1, S)
    BY <1>6 DEF ExistsBijection
  <2> QED BY <1>7, <2>1, FS_Bijection
<1> QED BY <1>7, <1>8 DEF S

LEMMA ImportedTyped ==
    ASSUME NEW order \in Seq(Nat), Indexes \subseteq 1..8
    PROVE  Imported(order) \subseteq Outputs /\ IsFiniteSet(Imported(order))
<1> DEFINE P == (DOMAIN order) \X Indexes
           one(x) == [module |-> order[x[1]], index |-> x[2], address |-> (x[1] - 1) * 8 + x[2]]
<1>1. DOMAIN order = 1..Len(order) /\ Len(order) \in Nat
  OBVIOUS
<1>2. IsFiniteSet(DOMAIN order) /\ IsFiniteSet(Indexes)
  <2>1. IsFiniteSet(1..Len(order)) /\ IsFiniteSet(1..8)
    <3>1. 1 \in Int /\ 8 \in Int /\ Len(order) \in Int
      BY <1>1
    <3> QED BY <3>1, FS_Interval
  <2> QED BY <1>1, <2>1, FS_Subset
<1>3. IsFiniteSet(P)
  BY <1>2, FS_Product
<1>4. Imported(order) = {one(x) : x \in P}
  <2>1. ASSUME NEW x \in P PROVE one(x) \in Imported(order)
    <3>1. x[1] \in DOMAIN order /\ x[2] \in Indexes
      OBVIOUS
    <3>2. \A p \in DOMAIN order, i \in Indexes :
             [module |-> order[p], index |-> i, address |-> (p - 1) * 8 + i] \in Imported(order)
      BY DEF Imported
    <3> QED BY <3>1, <3>2, Zenon
  <2>2. ASSUME NEW c \in Imported(order) PROVE \E x \in P : c = one(x)
    <3>1. PICK p \in DOMAIN order, i \in Indexes :
             c = [module |-> order[p], index |-> i, address |-> (p - 1) * 8 + i]
      BY DEF Imported
    <3>2. <<p, i>> \in P /\ c = one(<<p, i>>)
      BY <3>1
    <3> QED BY <3>2
  <2> HIDE DEF P, one
  <2> QED BY <2>1, <2>2
<1>5. IsFiniteSet({one(x) : x \in P})
  <2> DEFINE f == [x \in P |-> one(x)]
             T == {one(x) : x \in P}
  <2> HIDE DEF P, one
  <2>1. f \in Surjection(P, T)
    BY DEF Surjection
  <2> HIDE DEF f, T
  <2>2. IsFiniteSet(T)
    BY <1>3, <2>1, FS_Surjection DEF ExistsSurjection
  <2> QED BY <2>2 DEF T
<1>6. ASSUME NEW p \in DOMAIN order, NEW i \in Indexes
      PROVE  [module |-> order[p], index |-> i, address |-> (p - 1) * 8 + i] \in Outputs
  <2>1. (p - 1) * 8 + i \in Nat /\ order[p] \in Nat /\ i \in 1..8
    BY <1>1
  <2> QED BY <2>1 DEF Outputs
<1>7. Imported(order) \subseteq Outputs
  BY <1>6 DEF Imported
<1> QED BY <1>4, <1>5, <1>7

\* The addresses of an archive in ascending order stay.
LEMMA ImportedStays ==
    ASSUME NEW order \in Seq(Nat), Indexes \subseteq 1..8, Ascending(order)
    PROVE  RestoredChannels(Imported(order)) = Imported(order)
<1> DEFINE C == Imported(order)
<1>1. C \subseteq Outputs
  BY ImportedTyped
<1>2. ASSUME NEW p \in DOMAIN order, NEW i \in Indexes
      PROVE  SortedPosition(C, order[p]) = p - 1
  <2>1. {c.module : c \in C} = {order[q] : q \in DOMAIN order}
    <3>1. ASSUME NEW q \in DOMAIN order PROVE \E c \in C : c.module = order[q]
      <4>1. [module |-> order[q], index |-> i, address |-> (q - 1) * 8 + i] \in C
        BY DEF Imported
      <4> QED BY <4>1
    <3>2. ASSUME NEW c \in C PROVE \E q \in DOMAIN order : c.module = order[q]
      BY DEF Imported
    <3> HIDE DEF C
    <3>3. ASSUME NEW m \in {c.module : c \in C} PROVE m \in {order[q] : q \in DOMAIN order}
      <4>1. PICK c \in C : m = c.module
        OBVIOUS
      <4> QED BY <3>2, <4>1
    <3>4. ASSUME NEW m \in {order[q] : q \in DOMAIN order} PROVE m \in {c.module : c \in C}
      <4>1. PICK q \in DOMAIN order : m = order[q]
        OBVIOUS
      <4> QED BY <3>1, <4>1
    <3> QED BY <3>3, <3>4
  <2> HIDE DEF C
  <2> QED BY <2>1, AscendingPosition DEF SortedPosition
<1>3. ASSUME NEW c \in C PROVE c.address = SortedPosition(C, c.module) * 8 + c.index
  <2>1. PICK p \in DOMAIN order, i \in Indexes :
           c = [module |-> order[p], index |-> i, address |-> (p - 1) * 8 + i]
    BY DEF Imported
  <2> HIDE DEF C
  <2> QED BY <1>2, <2>1
<1> HIDE DEF C
<1>4. RestoredChannels(C) = C
  BY <1>1, <1>3, RightStays
<1> QED BY <1>4 DEF C

\* Those of the older importer get eight to a module, once.
LEMMA NibblesRestored ==
    ASSUME NEW order \in Seq(Nat), Indexes \subseteq 1..8
    PROVE  LET now == RestoredChannels(Nibbled(order))
           IN  /\ \A c \in now : c.address = SortedPosition(now, c.module) * 8 + c.index
               /\ RestoredChannels(now) = now
<1> DEFINE I == Imported(order)
           N == Nibbled(order)
           now == RestoredChannels(N)
           put(c) == [c EXCEPT !.address = Nibble(I, c)]
<1>1. I \subseteq Outputs /\ IsFiniteSet(I)
  BY ImportedTyped
<1> HIDE DEF I
<1>2. \A m : SortedPosition(I, m) \in Nat
  BY <1>1, PositionIsNat
<1>3. N = {put(c) : c \in I}
  BY DEF Nibbled, I
<1>4. ASSUME NEW c \in I
      PROVE  /\ put(c) \in Outputs /\ put(c).module = c.module /\ put(c).index = c.index
             /\ put(c).address = SortedPosition(I, c.module) * 16 + c.index
  <2>1. c \in Outputs /\ c.index \in 1..8 /\ SortedPosition(I, c.module) \in Nat
    BY <1>1, <1>2 DEF Outputs
  <2>2. c.index % 16 = c.index
    BY <2>1
  <2>3. Nibble(I, c) = SortedPosition(I, c.module) * 16 + c.index
    BY <2>2 DEF Nibble
  <2>4. Nibble(I, c) \in Nat
    BY <2>1, <2>3
  <2> QED BY <2>1, <2>3, <2>4 DEF Outputs
<1>5. {c.module : c \in N} = {c.module : c \in I} /\ N \subseteq Outputs
  <2> HIDE DEF N, put
  <2> QED BY <1>3, <1>4
<1>6. \A m : SortedPosition(N, m) = SortedPosition(I, m)
  <2> HIDE DEF N
  <2> QED BY <1>5, SamePosition
<1>7. \A c \in N : c.address = SortedPosition(N, c.module) * 16 + c.index /\ c.index \in 1..8
  <2>1. \A c \in N : c.index \in 1..8
    <3> HIDE DEF N
    <3> QED BY <1>5 DEF Outputs
  <2> HIDE DEF N, put
  <2> QED BY <1>3, <1>4, <1>6, <2>1
<1> HIDE DEF N
<1>8. now \subseteq Outputs /\ \A c \in now : c.address = SortedPosition(now, c.module) * 8 + c.index
  <2>1. CASE HasSignature(N)
    <3>1. now = {Addressed(N, c) : c \in N}
      BY <2>1 DEF RestoredChannels
    <3>2. \A m : SortedPosition(N, m) \in Nat
      BY <1>2, <1>6
    <3>3. LET D == {Addressed(N, c) : c \in N}
          IN  D \subseteq Outputs /\ \A d \in D : d.address = SortedPosition(D, d.module) * 8 + d.index
      BY <1>5, <3>2, AddressedTwice
    <3> HIDE DEF now
    <3> QED BY <3>1, <3>3
  <2>2. CASE ~HasSignature(N)
    <3>1. now = N
      BY <2>2 DEF RestoredChannels
    <3>2. ASSUME NEW c \in N PROVE SortedPosition(N, c.module) = 0
      <4>1. c.address = SortedPosition(N, c.module) * 16 + c.index /\ c.index \in 1..8
        BY <1>7
      <4>2. c.index % 16 = c.index
        BY <4>1
      <4>3. c.address = Nibble(N, c)
        BY <4>1, <4>2 DEF Nibble
      <4>4. ~(SortedPosition(N, c.module) > 0) /\ SortedPosition(N, c.module) \in Nat
        BY <1>2, <1>6, <2>2, <4>3 DEF HasSignature
      <4> QED BY <4>4
    <3>3. \A c \in N : c.address = SortedPosition(N, c.module) * 8 + c.index
      BY <1>7, <3>2
    <3> HIDE DEF now
    <3> QED BY <1>5, <3>1, <3>3
  <2> QED BY <2>1, <2>2
<1> HIDE DEF now
<1>9. RestoredChannels(now) = now
  BY <1>8, RightStays
<1> QED BY <1>8, <1>9 DEF now, N

-----------------------------------------------------------------------------
(* Scenes and their groups *)

Nodes == [path : GroupPaths, id : Nat \ {0}]
Progress == [groups : Seq(SceneGroups), paths : SUBSET Nodes, parent : Nat,
             scenes : Seq(OldScenes)]

There(groups, id) == \E n \in DOMAIN groups : groups[n].id = id

\* The groups of t are those of s and perhaps more.
Longer(s, t) == Len(s) <= Len(t) /\ \A n \in 1..Len(s) : t[n] = s[n]

\* What is true of the groups while they are made: those that were there stay,
\* each path has one group, and what is above a new one is there.
Walks(before) ==
    {s \in Progress :
       /\ Longer(before, s.groups)
       /\ \A e \in s.paths : There(s.groups, e.id)
       /\ \A d, e \in s.paths : d.path = e.path => d.id = e.id
       /\ \A n \in Len(before) + 1..Len(s.groups) :
             s.groups[n].parent = 0 \/ There(s.groups, s.groups[n].parent)
       /\ s.parent = 0 \/ There(s.groups, s.parent)}

\* And one comes after the other.
After(s, t) == Longer(s.groups, t.groups) /\ s.paths \subseteq t.paths /\ s.scenes = t.scenes

LEMMA LongerKeeps ==
    ASSUME NEW T, NEW s \in Seq(T), NEW t \in Seq(T), Longer(s, t), NEW id, There(s, id)
    PROVE  There(t, id)
<1>1. DOMAIN s = 1..Len(s) /\ DOMAIN t = 1..Len(t) /\ Len(s) \in Nat /\ Len(t) \in Nat
  OBVIOUS
<1>2. PICK n \in DOMAIN s : s[n].id = id
  BY DEF There
<1>3. n \in DOMAIN t /\ t[n] = s[n]
  BY <1>1 DEF Longer
<1> QED BY <1>2, <1>3 DEF There

LEMMA LongerAfter ==
    ASSUME NEW T, NEW s \in Seq(T), NEW t \in Seq(T), NEW u \in Seq(T), Longer(s, t), Longer(t, u)
    PROVE  Longer(s, u)
<1>1. Len(s) \in Nat /\ Len(t) \in Nat /\ Len(u) \in Nat
  OBVIOUS
<1> QED BY <1>1 DEF Longer

LEMMA EnteredIs ==
    ASSUME NEW before \in Seq(SceneGroups), NEW s \in Walks(before), NEW prefix \in GroupPaths
    PROVE  LET t == Entered(s, prefix)
           IN  /\ t \in Walks(before) /\ After(s, t)
               /\ t.parent # 0 /\ [path |-> prefix, id |-> t.parent] \in t.paths
<1> DEFINE t == Entered(s, prefix)
           node(id) == [path |-> prefix, id |-> id]
<1>1. /\ s \in Progress /\ s.groups \in Seq(SceneGroups) /\ s.paths \subseteq Nodes
      /\ s.parent \in Nat /\ s.scenes \in Seq(OldScenes)
  BY DEF Walks, Progress
<1>2. /\ Longer(before, s.groups)
      /\ \A e \in s.paths : There(s.groups, e.id)
      /\ \A d, e \in s.paths : d.path = e.path => d.id = e.id
      /\ \A n \in Len(before) + 1..Len(s.groups) :
            s.groups[n].parent = 0 \/ There(s.groups, s.groups[n].parent)
      /\ s.parent = 0 \/ There(s.groups, s.parent)
  BY DEF Walks
<1>3. Len(s.groups) \in Nat /\ Len(before) \in Nat
  BY <1>1
<1>4. CASE \E e \in s.paths : e.path = prefix
  <2> DEFINE e == CHOOSE e \in s.paths : e.path = prefix
  <2>1. e \in s.paths /\ e.path = prefix
    BY <1>4
  <2> HIDE DEF e
  <2>2. t = [s EXCEPT !.parent = e.id]
    BY <1>4 DEF Entered, e
  <2>3. e.id \in Nat \ {0} /\ node(e.id) \in s.paths
    BY <1>1, <2>1 DEF Nodes
  <2>4. /\ t \in Progress /\ t.groups = s.groups /\ t.paths = s.paths /\ t.scenes = s.scenes
        /\ t.parent = e.id
    BY <1>1, <2>2, <2>3 DEF Progress
  <2>5. There(s.groups, e.id)
    BY <1>2, <2>1
  <2> HIDE DEF t
  <2>6. t \in Walks(before)
    BY <1>2, <2>4, <2>5 DEF Walks
  <2>7. After(s, t)
    BY <1>3, <2>4 DEF After, Longer
  <2> QED BY <2>3, <2>4, <2>6, <2>7 DEF t
<1>5. CASE ~(\E e \in s.paths : e.path = prefix)
  <2> DEFINE id == Largest(s.groups) + 1
             fresh == [id |-> id, name |-> Last(prefix), parent |-> s.parent]
             groups == Append(s.groups, fresh)
  <2>1. id \in Nat \ {0}
    <3>1. \A g \in SceneGroups : g.id \in Nat
      BY DEF SceneGroups
    <3>2. Largest(s.groups) \in Nat
      BY <1>1, <3>1, LargestIs
    <3> QED BY <3>2
  <2>2. Last(prefix) \in STRING
    <3>1. prefix \in Seq(STRING) /\ prefix # <<>>
      BY DEF GroupPaths
    <3>2. Len(prefix) \in DOMAIN prefix
      BY <3>1, EmptySeq
    <3> QED BY <3>1, <3>2 DEF Last
  <2> HIDE DEF id
  <2>3. fresh \in SceneGroups /\ fresh.id = id /\ fresh.parent = s.parent
    BY <1>1, <2>1, <2>2 DEF SceneGroups
  <2>4. t = [s EXCEPT !.groups = groups, !.paths = @ \cup {node(id)}, !.parent = id]
    BY <1>5 DEF Entered, id
  <2> HIDE DEF fresh
  <2>5. /\ groups \in Seq(SceneGroups) /\ Len(groups) = Len(s.groups) + 1
        /\ DOMAIN groups = 1..Len(s.groups) + 1
        /\ \A n \in 1..Len(s.groups) : groups[n] = s.groups[n]
        /\ groups[Len(s.groups) + 1] = fresh
    BY <1>1, <2>3, AppendProperties
  <2> HIDE DEF groups
  <2>6. node(id) \in Nodes
    BY <2>1 DEF Nodes
  <2>7. /\ t \in Progress /\ t.groups = groups /\ t.paths = s.paths \cup {node(id)}
        /\ t.parent = id /\ t.scenes = s.scenes
    <3> DEFINE paths == s.paths \cup {node(id)}
    <3>1. paths \in SUBSET Nodes
      BY <1>1, <2>6
    <3>2. t = [s EXCEPT !.groups = groups, !.paths = paths, !.parent = id]
      BY <2>4
    <3> HIDE DEF paths, t
    <3>3. /\ t \in Progress /\ t.groups = groups /\ t.paths = paths
          /\ t.parent = id /\ t.scenes = s.scenes
      BY <1>1, <2>1, <2>5, <3>1, <3>2 DEF Progress
    <3> QED BY <3>3 DEF paths
  <2> HIDE DEF t
  <2>8. Longer(s.groups, groups) /\ Longer(before, groups)
    <3>1. Longer(s.groups, groups)
      BY <1>3, <2>5 DEF Longer
    <3> QED BY <1>1, <1>2, <2>5, <3>1, LongerAfter
  <2>9. \A i : There(s.groups, i) => There(groups, i)
    BY <1>1, <2>5, <2>8, LongerKeeps
  <2>10. There(groups, id)
    <3>1. Len(s.groups) + 1 \in DOMAIN groups
      BY <1>3, <2>5
    <3> QED BY <2>3, <2>5, <3>1 DEF There
  <2>11. \A e \in t.paths : There(groups, e.id)
    BY <1>2, <2>7, <2>9, <2>10
  <2>12. \A d, e \in t.paths : d.path = e.path => d.id = e.id
    BY <1>2, <1>5, <2>7
  <2>13. ASSUME NEW n \in Len(before) + 1..Len(groups)
         PROVE  groups[n].parent = 0 \/ There(groups, groups[n].parent)
    <3>1. CASE n = Len(s.groups) + 1
      BY <1>2, <2>3, <2>5, <2>9, <3>1
    <3>2. CASE n # Len(s.groups) + 1
      <4>1. n \in Len(before) + 1..Len(s.groups) /\ n \in 1..Len(s.groups)
        BY <1>3, <2>5, <3>2
      <4> QED BY <1>2, <2>5, <2>9, <4>1
    <3> QED BY <3>1, <3>2
  <2>14. t \in Walks(before)
    BY <2>7, <2>8, <2>10, <2>11, <2>12, <2>13 DEF Walks
  <2>15. After(s, t)
    BY <2>7, <2>8 DEF After
  <2> QED BY <2>1, <2>7, <2>14, <2>15 DEF t
<1> QED BY <1>4, <1>5

\* Steps that stay in a set have their results in it.
LEMMA StaysIn ==
    ASSUME NEW N \in Nat, NEW A, NEW start \in A, NEW step,
           \A n \in 1..N : \A a \in A : step[n][a] \in A
    PROVE  \E g : Steps(g, N, start, step) /\ \A n \in 0..N : g[n] \in A
<1>1. PICK g : Steps(g, N, start, step)
  BY StepsExist
<1> DEFINE In == {n \in 0..N : g[n] \in A}
<1>2. 0 \in In
  BY <1>1 DEF Steps
<1>3. ASSUME NEW n \in 1..N, n - 1 \in In PROVE n \in In
  <2>1. g[n - 1] \in A
    BY <1>3
  <2>2. g[n] = step[n][g[n - 1]]
    BY <1>1 DEF Steps
  <2>3. g[n] \in A
    BY <2>1, <2>2
  <2> QED BY <2>3
<1>4. \A n \in 0..N : n \in In
  <2> HIDE DEF In
  <2> QED BY <1>2, <1>3, CountUp
<1> QED BY <1>1, <1>4

GroupedOf(f, s, path) ==
    f = [k \in 0..Len(path) |->
           IF k = 0 THEN [s EXCEPT !.parent = 0] ELSE Entered(f[k - 1], SubSeq(path, 1, k))]

LEMMA GroupedIs ==
    ASSUME NEW before \in Seq(SceneGroups), NEW s \in Walks(before), NEW path \in GroupPaths
    PROVE  LET t == Grouped(s, path)
           IN  /\ t \in Walks(before) /\ After(s, t)
               /\ t.parent # 0 /\ [path |-> path, id |-> t.parent] \in t.paths
<1> DEFINE N == Len(path)
           base == [s EXCEPT !.parent = 0]
           prefix(k) == SubSeq(path, 1, k)
           E(k, r) == Entered(r, prefix(k))
           A == {r \in Walks(before) : After(s, r)}
           step == [k \in 1..N |-> [r \in A |-> E(k, r)]]
<1>1. N \in Nat \ {0} /\ path \in Seq(STRING) /\ prefix(N) = path
  <2>1. path \in Seq(STRING) /\ path # <<>>
    BY DEF GroupPaths
  <2>2. N \in Nat /\ N # 0
    BY <2>1, EmptySeq
  <2> QED BY <2>1, <2>2, SubSeqFull
<1>2. base \in A
  <2>1. s \in Progress
    BY DEF Walks
  <2>2. /\ base \in Progress /\ base.groups = s.groups /\ base.paths = s.paths
        /\ base.scenes = s.scenes /\ base.parent = 0
    BY <2>1 DEF Progress
  <2> HIDE DEF base
  <2>3. base \in Walks(before)
    BY <2>2 DEF Walks
  <2>4. After(s, base)
    <3>1. Len(s.groups) \in Nat
      BY <2>1 DEF Progress
    <3> QED BY <2>2, <3>1 DEF After, Longer
  <2> QED BY <2>3, <2>4
<1>3. ASSUME NEW k \in 1..N PROVE prefix(k) \in GroupPaths
  <2>1. \A i \in 1..k : path[i] \in STRING
    BY <1>1
  <2>2. prefix(k) \in Seq(STRING) /\ Len(prefix(k)) = k
    BY <2>1, SubSeqProperties
  <2> HIDE DEF prefix
  <2>3. prefix(k) # <<>>
    BY <2>2
  <2> QED BY <2>2, <2>3 DEF GroupPaths
<1>4. ASSUME NEW k \in 1..N, NEW r \in A
      PROVE  /\ E(k, r) \in A /\ E(k, r).parent # 0
             /\ [path |-> prefix(k), id |-> E(k, r).parent] \in E(k, r).paths
  <2> DEFINE t == E(k, r)
  <2>1. /\ t \in Walks(before) /\ After(r, t) /\ t.parent # 0
        /\ [path |-> prefix(k), id |-> t.parent] \in t.paths
    BY <1>3, EnteredIs
  <2> HIDE DEF t
  <2>2. s.groups \in Seq(SceneGroups) /\ r.groups \in Seq(SceneGroups) /\ t.groups \in Seq(SceneGroups)
    BY <2>1 DEF Walks, Progress
  <2>3. After(s, t)
    BY <2>1, <2>2, LongerAfter DEF After
  <2> QED BY <2>1, <2>3 DEF t
<1> HIDE DEF A, E, base
<1>5. \A k \in 1..N : \A r \in A : step[k][r] = E(k, r)
  OBVIOUS
<1> HIDE DEF step
<1>6. PICK g : Steps(g, N, base, step) /\ \A k \in 0..N : g[k] \in A
  <2>1. \A k \in 1..N : \A r \in A : step[k][r] \in A
    BY <1>4, <1>5
  <2> HIDE DEF N
  <2> QED BY <1>1, <1>2, <2>1, StaysIn
<1>7. GroupedOf(g, s, path)
  <2>1. ASSUME NEW k \in 0..N PROVE g[k] = IF k = 0 THEN base ELSE E(k, g[k - 1])
    <3>1. CASE k = 0
      BY <1>6, <3>1 DEF Steps
    <3>2. CASE k # 0
      <4>1. k \in 1..N /\ k - 1 \in 0..N
        BY <1>1, <3>2
      <4> QED BY <1>5, <1>6, <3>2, <4>1 DEF Steps
    <3> QED BY <3>1, <3>2
  <2>2. g = [k \in 0..N |-> g[k]]
    BY <1>6 DEF Steps
  <2> QED BY <2>1, <2>2, Zenon DEF GroupedOf, E, base
<1> DEFINE f == CHOOSE f : GroupedOf(f, s, path)
<1>8. GroupedOf(f, s, path)
  BY <1>7
<1>9. Grouped(s, path) = f[N]
  BY Zenon DEF Grouped, GroupedOf
<1> HIDE DEF f
<1>10. \A k \in 0..N : f[k] = IF k = 0 THEN base ELSE E(k, f[k - 1])
  BY <1>8 DEF GroupedOf, E, base
<1> DEFINE In == {k \in 0..N : f[k] \in A}
<1>11. \A k \in 0..N : k \in In
  <2>1. 0 \in In
    BY <1>1, <1>2, <1>10
  <2>2. ASSUME NEW k \in 1..N, k - 1 \in In PROVE k \in In
    <3>1. f[k - 1] \in A
      BY <2>2
    <3>2. f[k] = E(k, f[k - 1])
      BY <1>10
    <3>3. f[k] \in A
      BY <1>4, <3>1, <3>2
    <3> QED BY <3>3
  <2> HIDE DEF In, N
  <2> QED BY <1>1, <2>1, <2>2, CountUp
<1>12. f[N] = E(N, f[N - 1]) /\ f[N - 1] \in A
  BY <1>1, <1>10, <1>11
<1>13. N \in 1..N
  BY <1>1
<1>14. /\ f[N] \in A /\ f[N].parent # 0
       /\ [path |-> prefix(N), id |-> f[N].parent] \in f[N].paths
  BY <1>4, <1>12, <1>13
<1> QED BY <1>1, <1>9, <1>14 DEF A

\* A scene goes to a group that is there, that of its path if it had none.
Settles(s, scene, t, x) ==
    /\ Longer(s.groups, t.groups) /\ s.paths \subseteq t.paths
    /\ t.scenes = Append(s.scenes, x) /\ x.path = scene.path /\ There(t.groups, x.group)
    /\ scene.group = 0 => [path |-> scene.path, id |-> x.group] \in t.paths
    /\ scene.group # 0 /\ There(s.groups, scene.group) => t.groups = s.groups /\ x = scene

LEMMA WithSceneIs ==
    ASSUME NEW before \in Seq(SceneGroups), NEW s \in Walks(before), NEW scene \in OldScenes
    PROVE  LET t == WithScene(s, scene)
           IN  t \in Walks(before) /\ \E x \in OldScenes : Settles(s, scene, t, x)
<1> DEFINE t == WithScene(s, scene)
<1>1. scene.group \in Nat /\ scene.path \in GroupPaths
  BY DEF OldScenes
<1>2. Has(s.groups, LAMBDA g : g.id = scene.group) <=> There(s.groups, scene.group)
  BY Zenon DEF Has, There
<1>3. CASE scene.group # 0 /\ There(s.groups, scene.group)
  <2>1. t = [s EXCEPT !.scenes = Append(s.scenes, scene)]
    BY <1>2, <1>3 DEF WithScene
  <2>2. s \in Progress /\ Append(s.scenes, scene) \in Seq(OldScenes)
    <3>1. s \in Progress
      BY DEF Walks
    <3>2. s.scenes \in Seq(OldScenes)
      BY <3>1 DEF Progress
    <3> QED BY <3>1, <3>2, AppendProperties
  <2>3. /\ t \in Progress /\ t.groups = s.groups /\ t.paths = s.paths /\ t.parent = s.parent
        /\ t.scenes = Append(s.scenes, scene)
    BY <2>1, <2>2 DEF Progress
  <2> HIDE DEF t
  <2>4. t \in Walks(before)
    BY <2>3 DEF Walks
  <2>5. Longer(s.groups, t.groups)
    <3>1. Len(s.groups) \in Nat
      BY <2>2 DEF Progress
    <3> QED BY <2>3, <3>1 DEF Longer
  <2>6. Settles(s, scene, t, scene)
    BY <1>3, <2>3, <2>5 DEF Settles
  <2> QED BY <2>4, <2>6 DEF t
<1>4. CASE ~(scene.group # 0 /\ There(s.groups, scene.group))
  <2> DEFINE next == Grouped(s, scene.path)
             x == [scene EXCEPT !.group = next.parent]
  <2>1. /\ next \in Walks(before) /\ After(s, next)
        /\ next.parent # 0 /\ [path |-> scene.path, id |-> next.parent] \in next.paths
    BY <1>1, GroupedIs
  <2>2. t = [next EXCEPT !.scenes = Append(next.scenes, x)]
    BY <1>2, <1>4 DEF WithScene
  <2> HIDE DEF next
  <2>3. next \in Progress /\ next.parent \in Nat /\ next.scenes \in Seq(OldScenes)
    BY <2>1 DEF Walks, Progress
  <2>4. x \in OldScenes /\ x.group = next.parent /\ x.path = scene.path
    BY <2>3 DEF OldScenes
  <2> HIDE DEF x
  <2>5. Append(next.scenes, x) \in Seq(OldScenes) /\ next.scenes = s.scenes
    BY <2>1, <2>3, <2>4, AppendProperties DEF After
  <2>6. /\ t \in Progress /\ t.groups = next.groups /\ t.paths = next.paths
        /\ t.parent = next.parent /\ t.scenes = Append(next.scenes, x)
    BY <2>2, <2>3, <2>5 DEF Progress
  <2> HIDE DEF t
  <2>7. t \in Walks(before)
    BY <2>1, <2>6 DEF Walks
  <2>8. There(t.groups, x.group)
    BY <2>1, <2>4, <2>6 DEF Walks
  <2>9. Settles(s, scene, t, x)
    BY <1>4, <2>1, <2>4, <2>5, <2>6, <2>8 DEF Settles, After
  <2> QED BY <2>4, <2>7, <2>9 DEF t
<1> QED BY <1>3, <1>4

RestoredOf(f, table) ==
    f = [n \in 0..Len(table.scenes) |->
           IF n = 0 THEN [groups |-> table.groups, paths |-> {}, parent |-> 0, scenes |-> <<>>]
           ELSE WithScene(f[n - 1], table.scenes[n])]

Tables == [groups : Seq(SceneGroups), scenes : Seq(OldScenes)]

RestoredSteps(f, table) ==
    /\ RestoredScenes(table) = [groups |-> f[Len(table.scenes)].groups,
                                scenes |-> f[Len(table.scenes)].scenes]
    /\ f[0] = [groups |-> table.groups, paths |-> {}, parent |-> 0, scenes |-> <<>>]
    /\ \A n \in 1..Len(table.scenes) : f[n] = WithScene(f[n - 1], table.scenes[n])
    /\ \A n \in 0..Len(table.scenes) : f[n] \in Walks(table.groups)

LEMMA RestoredStepped == ASSUME NEW table \in Tables PROVE \E f : RestoredSteps(f, table)
<1> DEFINE N == Len(table.scenes)
           base == [groups |-> table.groups, paths |-> {}, parent |-> 0, scenes |-> <<>>]
           E(n, r) == WithScene(r, table.scenes[n])
           A == Walks(table.groups)
           step == [n \in 1..N |-> [r \in A |-> E(n, r)]]
<1>1. N \in Nat /\ table.groups \in Seq(SceneGroups) /\ \A n \in 1..N : table.scenes[n] \in OldScenes
  BY DEF Tables
<1>2. base \in A
  <2>1. /\ base \in Progress /\ base.groups = table.groups /\ base.paths = {} /\ base.parent = 0
    BY <1>1 DEF Progress
  <2>2. Len(table.groups) \in Nat
    BY <1>1
  <2> HIDE DEF base
  <2> QED BY <2>1, <2>2 DEF Walks, Longer
<1>3. ASSUME NEW n \in 1..N, NEW r \in A PROVE E(n, r) \in A
  BY <1>1, WithSceneIs
<1> HIDE DEF A, E, base
<1>4. \A n \in 1..N : \A r \in A : step[n][r] = E(n, r)
  OBVIOUS
<1> HIDE DEF step
<1>5. PICK g : Steps(g, N, base, step) /\ \A n \in 0..N : g[n] \in A
  <2>1. \A n \in 1..N : \A r \in A : step[n][r] \in A
    BY <1>3, <1>4
  <2> HIDE DEF N
  <2> QED BY <1>1, <1>2, <2>1, StaysIn
<1>6. RestoredOf(g, table)
  <2>1. ASSUME NEW n \in 0..N PROVE g[n] = IF n = 0 THEN base ELSE E(n, g[n - 1])
    <3>1. CASE n = 0
      BY <1>5, <3>1 DEF Steps
    <3>2. CASE n # 0
      <4>1. n \in 1..N /\ n - 1 \in 0..N
        BY <1>1, <3>2
      <4> QED BY <1>4, <1>5, <3>2, <4>1 DEF Steps
    <3> QED BY <3>1, <3>2
  <2>2. g = [n \in 0..N |-> g[n]]
    BY <1>5 DEF Steps
  <2> QED BY <2>1, <2>2, Zenon DEF RestoredOf, E, base
<1> DEFINE f == CHOOSE f : RestoredOf(f, table)
<1>7. RestoredOf(f, table)
  BY <1>6
<1>8. RestoredScenes(table) = [groups |-> f[N].groups, scenes |-> f[N].scenes]
  BY Zenon DEF RestoredScenes, RestoredOf
<1> HIDE DEF f
<1>9. \A n \in 0..N : f[n] = IF n = 0 THEN base ELSE E(n, f[n - 1])
  BY <1>7 DEF RestoredOf, E, base
<1> DEFINE In == {n \in 0..N : f[n] \in A}
<1>10. \A n \in 0..N : n \in In
  <2>1. 0 \in In
    BY <1>1, <1>2, <1>9
  <2>2. ASSUME NEW n \in 1..N, n - 1 \in In PROVE n \in In
    <3>1. f[n - 1] \in A
      BY <2>2
    <3>2. f[n] = E(n, f[n - 1])
      BY <1>9
    <3>3. f[n] \in A
      BY <1>3, <3>1, <3>2
    <3> QED BY <3>3
  <2> HIDE DEF In, N
  <2> QED BY <1>1, <2>1, <2>2, CountUp
<1>11. f[0] = base
  BY <1>1, <1>9
<1>12. \A n \in 1..N : f[n] = E(n, f[n - 1])
  BY <1>9
<1>13. \A n \in 0..N : f[n] \in A
  BY <1>10
<1> HIDE DEF In, step
<1> QED BY <1>8, <1>11, <1>12, <1>13 DEF RestoredSteps, A, E, base

\* The first n scenes have a group that is there, that of their path if they
\* had none.
Found(scenes, n, s) ==
    /\ Len(s.scenes) = n
    /\ \A m \in 1..n :
          /\ s.scenes[m].path = scenes[m].path /\ There(s.groups, s.scenes[m].group)
          /\ scenes[m].group = 0 => [path |-> scenes[m].path, id |-> s.scenes[m].group] \in s.paths

LEMMA SettlesFound ==
    ASSUME NEW s \in Progress, NEW t \in Progress, NEW scenes, NEW n \in Nat \ {0},
           NEW x \in OldScenes, Found(scenes, n - 1, s), Settles(s, scenes[n], t, x)
    PROVE  Found(scenes, n, t)
<1>1. s.groups \in Seq(SceneGroups) /\ t.groups \in Seq(SceneGroups) /\ s.scenes \in Seq(OldScenes)
  BY DEF Progress
<1>2. \A id : There(s.groups, id) => There(t.groups, id)
  BY <1>1, LongerKeeps DEF Settles
<1>3. /\ Len(t.scenes) = Len(s.scenes) + 1
      /\ \A m \in 1..Len(s.scenes) : t.scenes[m] = s.scenes[m]
      /\ t.scenes[Len(s.scenes) + 1] = x
  BY <1>1, AppendProperties DEF Settles
<1>4. Len(s.scenes) = n - 1 /\ s.paths \subseteq t.paths
  BY DEF Found, Settles
<1>5. Len(t.scenes) = n /\ t.scenes[n] = x /\ \A m \in 1..n - 1 : t.scenes[m] = s.scenes[m]
  BY <1>3, <1>4
<1>6. ASSUME NEW m \in 1..n
      PROVE  /\ t.scenes[m].path = scenes[m].path /\ There(t.groups, t.scenes[m].group)
             /\ scenes[m].group = 0 =>
                   [path |-> scenes[m].path, id |-> t.scenes[m].group] \in t.paths
  <2>1. CASE m = n
    BY <1>5, <2>1 DEF Settles
  <2>2. CASE m # n
    <3>1. m \in 1..n - 1
      BY <2>2
    <3> QED BY <1>2, <1>4, <1>5, <3>1 DEF Found
  <2> QED BY <2>1, <2>2
<1> QED BY <1>5, <1>6 DEF Found

LEMMA RestoredFound ==
    ASSUME NEW table \in Tables, NEW f, RestoredSteps(f, table)
    PROVE  /\ f[Len(table.scenes)] \in Walks(table.groups)
           /\ Found(table.scenes, Len(table.scenes), f[Len(table.scenes)])
<1> DEFINE N == Len(table.scenes)
           In == {n \in 0..N : Found(table.scenes, n, f[n])}
<1>1. N \in Nat /\ table.groups \in Seq(SceneGroups) /\ \A n \in 1..N : table.scenes[n] \in OldScenes
  BY DEF Tables
<1>2. 0 \in In
  BY <1>1 DEF RestoredSteps, Found
<1>3. ASSUME NEW n \in 1..N, n - 1 \in In PROVE n \in In
  <2>1. Found(table.scenes, n - 1, f[n - 1]) /\ n - 1 \in 0..N /\ n \in 0..N
    BY <1>1, <1>3
  <2>2. /\ f[n] = WithScene(f[n - 1], table.scenes[n])
        /\ f[n - 1] \in Walks(table.groups) /\ f[n] \in Walks(table.groups)
    BY <2>1 DEF RestoredSteps
  <2>3. PICK x \in OldScenes : Settles(f[n - 1], table.scenes[n], f[n], x)
    BY <1>1, <2>2, WithSceneIs
  <2>4. f[n - 1] \in Progress /\ f[n] \in Progress /\ n \in Nat \ {0}
    BY <2>2 DEF Walks
  <2>5. Found(table.scenes, n, f[n])
    BY <2>1, <2>3, <2>4, SettlesFound
  <2> QED BY <2>1, <2>5
<1>4. \A n \in 0..N : n \in In
  <2> HIDE DEF In, N
  <2> QED BY <1>1, <1>2, <1>3, CountUp
<1>5. N \in 0..N
  BY <1>1
<1> QED BY <1>4, <1>5 DEF RestoredSteps

\* What restoring the scenes returns.
LEMMA ScenesRestored ==
    ASSUME NEW table \in Tables
    PROVE  LET now == RestoredScenes(table)
           IN  /\ now \in Tables /\ Longer(table.groups, now.groups)
               /\ Len(now.scenes) = Len(table.scenes)
               /\ \A n \in 1..Len(now.scenes) : There(now.groups, now.scenes[n].group)
               /\ \A n \in Len(table.groups) + 1..Len(now.groups) :
                     now.groups[n].parent = 0 \/ There(now.groups, now.groups[n].parent)
               /\ \A m, n \in 1..Len(now.scenes) :
                     /\ table.scenes[m].group = 0 /\ table.scenes[n].group = 0
                     /\ now.scenes[m].path = now.scenes[n].path
                     => now.scenes[m].group = now.scenes[n].group
<1> DEFINE now == RestoredScenes(table)
           N == Len(table.scenes)
<1>1. PICK f : RestoredSteps(f, table)
  BY RestoredStepped
<1> DEFINE s == f[N]
<1>2. s \in Walks(table.groups) /\ Found(table.scenes, N, s)
  BY <1>1, RestoredFound
<1>3. now = [groups |-> s.groups, scenes |-> s.scenes]
  BY <1>1 DEF RestoredSteps
<1>4. s \in Progress
  BY <1>2 DEF Walks
<1>5. now \in Tables /\ now.groups = s.groups /\ now.scenes = s.scenes
  BY <1>3, <1>4 DEF Progress, Tables
<1> HIDE DEF now, s
<1>6. Len(now.scenes) = N /\ \A n \in 1..N : There(now.groups, now.scenes[n].group)
  BY <1>2, <1>5 DEF Found
<1>7. /\ Longer(table.groups, now.groups)
      /\ \A n \in Len(table.groups) + 1..Len(now.groups) :
            now.groups[n].parent = 0 \/ There(now.groups, now.groups[n].parent)
  BY <1>2, <1>5 DEF Walks
<1>8. ASSUME NEW m \in 1..N, NEW n \in 1..N,
             table.scenes[m].group = 0 /\ table.scenes[n].group = 0,
             now.scenes[m].path = now.scenes[n].path
      PROVE  now.scenes[m].group = now.scenes[n].group
  <2> DEFINE d == [path |-> table.scenes[m].path, id |-> now.scenes[m].group]
             e == [path |-> table.scenes[n].path, id |-> now.scenes[n].group]
  <2>1. d \in s.paths /\ e \in s.paths
    BY <1>2, <1>5, <1>8 DEF Found
  <2>2. d.path = e.path
    BY <1>2, <1>5, <1>8 DEF Found
  <2>3. d.id = e.id
    <3> HIDE DEF d, e
    <3> QED BY <1>2, <2>1, <2>2 DEF Walks
  <2> QED BY <2>3
<1> QED BY <1>5, <1>6, <1>7, <1>8 DEF now

\* Scenes whose groups are there stay as they are.
LEMMA SettledStay ==
    ASSUME NEW table \in Tables, \A n \in 1..Len(table.scenes) : There(table.groups, table.scenes[n].group)
    PROVE  RestoredScenes(table) = table
<1> DEFINE N == Len(table.scenes)
           S == table.scenes
<1>1. /\ N \in Nat /\ table.groups \in Seq(SceneGroups) /\ S \in Seq(OldScenes)
      /\ \A n \in 1..N : S[n] \in OldScenes
  BY DEF Tables
<1>2. ASSUME NEW n \in 1..N PROVE S[n].group # 0
  <2>1. PICK k \in DOMAIN table.groups : table.groups[k].id = S[n].group
    BY DEF There
  <2>2. table.groups[k] \in SceneGroups
    BY <1>1
  <2> QED BY <2>1, <2>2 DEF SceneGroups
<1>3. PICK f : RestoredSteps(f, table)
  BY RestoredStepped
<1> DEFINE In == {n \in 0..N : /\ f[n].groups = table.groups /\ Len(f[n].scenes) = n
                               /\ \A m \in 1..n : f[n].scenes[m] = S[m]}
<1>4. 0 \in In
  BY <1>1, <1>3 DEF RestoredSteps
<1>5. ASSUME NEW n \in 1..N, n - 1 \in In PROVE n \in In
  <2>1. /\ f[n - 1].groups = table.groups /\ Len(f[n - 1].scenes) = n - 1
        /\ \A m \in 1..n - 1 : f[n - 1].scenes[m] = S[m]
        /\ n - 1 \in 0..N /\ n \in 0..N
    BY <1>1, <1>5
  <2>2. f[n] = WithScene(f[n - 1], S[n]) /\ f[n - 1] \in Walks(table.groups)
    BY <1>3, <2>1 DEF RestoredSteps
  <2>3. PICK x \in OldScenes : Settles(f[n - 1], S[n], f[n], x)
    BY <1>1, <2>2, WithSceneIs
  <2>4. f[n].groups = table.groups /\ x = S[n] /\ f[n].scenes = Append(f[n - 1].scenes, x)
    BY <1>2, <2>1, <2>3 DEF Settles
  <2>5. f[n - 1].scenes \in Seq(OldScenes)
    BY <2>2 DEF Walks, Progress
  <2>6. /\ Len(f[n].scenes) = n /\ f[n].scenes[n] = x
        /\ \A m \in 1..n - 1 : f[n].scenes[m] = f[n - 1].scenes[m]
    BY <2>1, <2>4, <2>5, AppendProperties
  <2>7. ASSUME NEW m \in 1..n PROVE f[n].scenes[m] = S[m]
    <3>1. m = n \/ m \in 1..n - 1
      OBVIOUS
    <3> QED BY <2>1, <2>4, <2>6, <3>1
  <2> QED BY <2>1, <2>4, <2>6, <2>7
<1>6. \A n \in 0..N : n \in In
  <2> HIDE DEF In, N
  <2> QED BY <1>1, <1>4, <1>5, CountUp
<1>7. N \in In
  <2> HIDE DEF In
  <2> QED BY <1>1, <1>6
<1>8. f[N].scenes \in Seq(OldScenes)
  <2>1. f[N] \in Progress
    BY <1>1, <1>3 DEF RestoredSteps, Walks
  <2> QED BY <2>1 DEF Progress
<1>9. f[N].groups = table.groups /\ f[N].scenes = S
  <2> DEFINE t == f[N].scenes
  <2>1. Len(t) = N /\ \A m \in 1..N : t[m] = S[m]
    BY <1>7
  <2>2. t \in Seq(OldScenes)
    BY <1>8
  <2> HIDE DEF t
  <2>3. t = S
    BY <1>1, <2>1, <2>2
  <2> QED BY <1>7, <2>3 DEF t
<1>10. RestoredScenes(table) = [groups |-> table.groups, scenes |-> S]
  BY <1>3, <1>9 DEF RestoredSteps
<1> QED BY <1>10 DEF Tables

LEMMA ScenesOnce ==
    ASSUME NEW table \in Tables
    PROVE  RestoredScenes(RestoredScenes(table)) = RestoredScenes(table)
<1> DEFINE now == RestoredScenes(table)
<1>1. now \in Tables /\ \A n \in 1..Len(now.scenes) : There(now.groups, now.scenes[n].group)
  BY ScenesRestored
<1> HIDE DEF now
<1>2. RestoredScenes(now) = now
  BY <1>1, SettledStay
<1> QED BY <1>2 DEF now

-----------------------------------------------------------------------------
(* The order of the dictionary *)

LEMMA AtLeastOnce == ASSUME NEW L \in Nat \ {0}, NEW k \in Int, k >= 1 PROVE k * L >= L
OBVIOUS

\* A multiple of L that is near 0 is 0.
LEMMA NoMultiple ==
    ASSUME NEW L \in Nat \ {0}, NEW k \in Int, NEW y \in Int, k * L = y, y < L, y > 0 - L
    PROVE  k = 0
<1>1. CASE k >= 1
  BY <1>1, AtLeastOnce
<1>2. CASE ~(k >= 1) /\ k # 0
  <2>1. 0 - k \in Int /\ 0 - k >= 1
    BY <1>2
  <2>2. (0 - k) * L >= L
    BY <2>1, AtLeastOnce
  <2>3. (0 - k) * L = 0 - y
    OBVIOUS
  <2> QED BY <2>2, <2>3
<1> QED BY <1>1, <1>2

LEMMA RemainderIs ==
    ASSUME NEW L \in Nat \ {0}, NEW q \in Int, NEW x \in 0..L - 1, q * L + x \in Nat
    PROVE  (q * L + x) % L = x
<1> DEFINE a == q * L + x
           d == a \div L
           m == a % L
<1>1. a \in Nat
  OBVIOUS
<1>2. m \in 0..L - 1 /\ a = L * d + m /\ d \in Int
  <2> HIDE DEF a
  <2> QED BY <1>1
<1>3. a = q * L + x
  OBVIOUS
<1> HIDE DEF a, d, m
<1>4. (d - q) * L = x - m
  BY <1>2, <1>3
<1>5. x - m \in Int /\ x - m < L /\ x - m > 0 - L /\ d - q \in Int
  BY <1>2
<1>6. d - q = 0
  BY <1>4, <1>5, NoMultiple
<1>7. m = x
  BY <1>2, <1>3, <1>6
<1> QED BY <1>7 DEF m, a

\* From any hash, probing comes to every bucket.
LEMMA EveryBucket ==
    ASSUME NEW L \in Nat \ {0}, NEW hash \in Nat, NEW b \in 1..L
    PROVE  \E o \in 0..L - 1 : ((hash + o) % L) + 1 = b
<1> DEFINE q == hash \div L
           r == hash % L
<1>1. r \in 0..L - 1 /\ hash = L * q + r /\ q \in Int
  OBVIOUS
<1> HIDE DEF q, r
<1>2. CASE b - 1 >= r
  <2> DEFINE o == b - 1 - r
  <2>1. o \in 0..L - 1 /\ b - 1 \in 0..L - 1
    BY <1>1, <1>2
  <2>2. hash + o = q * L + (b - 1) /\ hash + o \in Nat
    BY <1>1, <2>1
  <2>3. (q * L + (b - 1)) % L = b - 1
    BY <1>1, <2>1, <2>2, RemainderIs
  <2>4. (hash + o) % L = b - 1
    <3> HIDE DEF o
    <3> QED BY <2>2, <2>3
  <2> HIDE DEF o
  <2> QED BY <2>1, <2>4
<1>3. CASE ~(b - 1 >= r)
  <2> DEFINE o == b - 1 - r + L
             p == q + 1
  <2>1. o \in 0..L - 1 /\ b - 1 \in 0..L - 1 /\ p \in Int
    BY <1>1, <1>3
  <2>2. hash + o = p * L + (b - 1) /\ hash + o \in Nat
    BY <1>1, <2>1
  <2> HIDE DEF p
  <2>3. (p * L + (b - 1)) % L = b - 1
    BY <2>1, <2>2, RemainderIs
  <2>4. (hash + o) % L = b - 1
    <3> HIDE DEF o
    <3> QED BY <2>2, <2>3
  <2> HIDE DEF o
  <2> QED BY <2>1, <2>4
<1> QED BY <1>2, <1>3

Cells == [key : Int, input : Nat]
Entries(table) == {table[b] : b \in Occupied(table)}
OneEach(table) == \A a, b \in Occupied(table) : table[a] = table[b] => a = b

\* A table that is not full has a free bucket, and it is found.
LEMMA BucketIs ==
    ASSUME NEW L \in Nat, NEW table \in [1..L -> Cells], NEW h \in Nat,
           Cardinality(Occupied(table)) < L
    PROVE  BucketFor(table, h) \in 1..L /\ table[BucketFor(table, h)] = Empty
<1>1. Len(table) = L /\ DOMAIN table = 1..L /\ Occupied(table) \subseteq 1..L
  BY DEF Occupied
<1>2. IsFiniteSet(1..L) /\ Cardinality(1..L) = L
  <2>1. 1 \in Int /\ L \in Int /\ (1 > L => L = 0)
    OBVIOUS
  <2>2. IsFiniteSet(1..L) /\ Cardinality(1..L) = IF 1 > L THEN 0 ELSE L - 1 + 1
    BY <2>1, FS_Interval
  <2> QED BY <2>1, <2>2
<1>3. Occupied(table) # 1..L
  BY <1>2
<1>4. PICK b \in 1..L : table[b] = Empty
  BY <1>1, <1>3 DEF Occupied
<1>5. L \in Nat \ {0}
  BY <1>4
<1> DEFINE at(o) == ((h + o) % L) + 1
           free == {o \in 0..L - 1 : table[at(o)] = Empty}
           o1 == CHOOSE o \in free : \A p \in free : o <= p
<1>6. BucketFor(table, h) = at(o1)
  BY <1>1 DEF BucketFor
<1>7. PICK o2 \in 0..L - 1 : at(o2) = b
  BY <1>5, EveryBucket
<1>8. free \in SUBSET Nat /\ free # {}
  <2>1. table[at(o2)] = Empty
    <3> HIDE DEF at
    <3> QED BY <1>4, <1>7
  <2> HIDE DEF at
  <2> QED BY <2>1
<1>9. o1 \in free
  <2> HIDE DEF free
  <2>1. \E o \in free : \A p \in free : o <= p
    BY <1>8, Smallest
  <2> QED BY <2>1
<1>10. o1 \in 0..L - 1 /\ table[at(o1)] = Empty
  BY <1>9
<1> HIDE DEF o1
<1>11. at(o1) \in 1..L
  <2>1. h + o1 \in Nat
    BY <1>10
  <2> DEFINE x == h + o1
  <2> HIDE DEF x
  <2>2. x % L \in 0..L - 1
    BY <1>5, <2>1 DEF x
  <2> QED BY <1>5, <2>2 DEF x
<1> QED BY <1>6, <1>10, <1>11

LEMMA PlacedIs ==
    ASSUME NEW L \in Nat, NEW table \in [1..L -> Cells], NEW hash, NEW e \in Cells,
           e # Empty, hash[e.key] \in Nat, e \notin Entries(table), OneEach(table),
           Cardinality(Occupied(table)) < L
    PROVE  LET t == Placed(table, e, hash)
           IN  /\ t \in [1..L -> Cells] /\ Entries(t) = Entries(table) \cup {e} /\ OneEach(t)
               /\ Cardinality(Occupied(t)) = Cardinality(Occupied(table)) + 1
<1> DEFINE b == BucketFor(table, hash[e.key])
           t == Placed(table, e, hash)
<1>1. b \in 1..L /\ table[b] = Empty
  BY BucketIs
<1>2. t = [table EXCEPT ![b] = e]
  BY DEF Placed
<1> HIDE DEF b, t
<1>3. t \in [1..L -> Cells] /\ t[b] = e /\ \A a \in 1..L \ {b} : t[a] = table[a]
  BY <1>1, <1>2
<1>4. Occupied(t) = Occupied(table) \cup {b} /\ b \notin Occupied(table)
  BY <1>1, <1>3 DEF Occupied
<1>5. Occupied(table) \subseteq 1..L \ {b}
  BY <1>1 DEF Occupied
<1>6. Entries(t) = Entries(table) \cup {e}
  BY <1>3, <1>4, <1>5 DEF Entries
<1>7. OneEach(t)
  <2> SUFFICES ASSUME NEW x \in Occupied(t), NEW y \in Occupied(t), t[x] = t[y] PROVE x = y
    BY DEF OneEach
  <2>1. \A z \in Occupied(table) : t[z] = table[z] /\ t[z] # e
    BY <1>3, <1>5 DEF Entries
  <2>2. CASE x = b \/ y = b
    BY <1>3, <1>4, <2>1, <2>2
  <2>3. CASE x # b /\ y # b
    BY <1>4, <2>1, <2>3 DEF OneEach
  <2> QED BY <2>2, <2>3
<1>8. Cardinality(Occupied(t)) = Cardinality(Occupied(table)) + 1
  <2>1. IsFiniteSet(1..L)
    <3>1. 1 \in Int /\ L \in Int
      OBVIOUS
    <3> QED BY <3>1, FS_Interval
  <2>2. IsFiniteSet(Occupied(table))
    BY <1>5, <2>1, FS_Subset
  <2> QED BY <1>4, <2>2, FS_AddElement
<1> QED BY <1>3, <1>6, <1>7, <1>8 DEF t

MovedOf(f, table, index, hash) ==
    f = [b \in 0..Len(table) |->
           IF b = 0 THEN EmptyTable(index)
           ELSE IF table[b] = Empty THEN f[b - 1]
           ELSE Placed(f[b - 1], table[b], hash)]

LEMMA RehashedStepped ==
    ASSUME NEW index, TableSizes[index] \in Nat, NEW L \in Nat, NEW table \in [1..L -> Cells], NEW hash
    PROVE  \E f : /\ Rehashed(table, index, hash) = f[L] /\ f[0] = EmptyTable(index)
                  /\ \A b \in 1..L : f[b] = IF table[b] = Empty THEN f[b - 1]
                                            ELSE Placed(f[b - 1], table[b], hash)
                  /\ \A b \in 0..L : f[b] \in [1..TableSizes[index] -> Cells]
<1> DEFINE base == EmptyTable(index)
           E(b, r) == IF table[b] = Empty THEN r ELSE Placed(r, table[b], hash)
           A == [1..TableSizes[index] -> Cells]
           step == [b \in 1..L |-> [r \in A |-> E(b, r)]]
<1>1. Len(table) = L /\ \A b \in 1..L : table[b] \in Cells
  OBVIOUS
<1>2. base \in A
  <2>1. Empty \in Cells
    BY DEF Empty, Cells
  <2> QED BY <2>1 DEF EmptyTable
<1>3. ASSUME NEW b \in 1..L, NEW r \in A PROVE E(b, r) \in A
  <2>1. Placed(r, table[b], hash) \in A
    BY <1>1 DEF Placed
  <2> QED BY <2>1
<1> HIDE DEF A, E, base
<1>4. \A b \in 1..L : \A r \in A : step[b][r] = E(b, r)
  OBVIOUS
<1> HIDE DEF step
<1>5. PICK g : Steps(g, L, base, step) /\ \A b \in 0..L : g[b] \in A
  <2>1. \A b \in 1..L : \A r \in A : step[b][r] \in A
    BY <1>3, <1>4
  <2> QED BY <1>2, <2>1, StaysIn
<1>6. MovedOf(g, table, index, hash)
  <2>1. ASSUME NEW b \in 0..L PROVE g[b] = IF b = 0 THEN base ELSE E(b, g[b - 1])
    <3>1. CASE b = 0
      BY <1>5, <3>1 DEF Steps
    <3>2. CASE b # 0
      <4>1. b \in 1..L /\ b - 1 \in 0..L
        BY <3>2
      <4> QED BY <1>4, <1>5, <3>2, <4>1 DEF Steps
    <3> QED BY <3>1, <3>2
  <2>2. g = [b \in 0..L |-> g[b]]
    BY <1>5 DEF Steps
  <2>3. g = [b \in 0..Len(table) |-> IF b = 0 THEN base ELSE E(b, g[b - 1])]
    BY <1>1, <2>1, <2>2
  <2> QED BY <2>3, Zenon DEF MovedOf, E, base
<1> DEFINE f == CHOOSE f : MovedOf(f, table, index, hash)
<1>7. MovedOf(f, table, index, hash)
  BY <1>6
<1>8. Rehashed(table, index, hash) = f[L]
  <2>1. Rehashed(table, index, hash) = f[Len(table)]
    BY Zenon DEF Rehashed, MovedOf
  <2> QED BY <1>1, <2>1
<1> HIDE DEF f
<1>9. \A b \in 0..L : f[b] = IF b = 0 THEN base ELSE E(b, f[b - 1])
  BY <1>1, <1>7 DEF MovedOf, E, base
<1> DEFINE In == {b \in 0..L : f[b] \in A}
<1>10. \A b \in 0..L : b \in In
  <2>1. 0 \in In
    BY <1>2, <1>9
  <2>2. ASSUME NEW b \in 1..L, b - 1 \in In PROVE b \in In
    <3>1. f[b - 1] \in A
      BY <2>2
    <3>2. f[b] = E(b, f[b - 1])
      BY <1>9
    <3>3. f[b] \in A
      BY <1>3, <3>1, <3>2
    <3> QED BY <3>3
  <2> HIDE DEF In
  <2> QED BY <2>1, <2>2, CountUp
<1>11. f[0] = base
  BY <1>9
<1>12. \A b \in 1..L : f[b] = E(b, f[b - 1])
  BY <1>9
<1>13. \A b \in 0..L : f[b] \in A
  BY <1>10
<1> HIDE DEF In
<1> QED BY <1>8, <1>11, <1>12, <1>13 DEF A, E, base

\* A table that is made larger has the same entries.
LEMMA RehashedIs ==
    ASSUME NEW index, TableSizes[index] \in Nat, NEW L \in Nat, NEW table \in [1..L -> Cells], NEW hash,
           OneEach(table), Cardinality(Occupied(table)) <= TableSizes[index],
           \A b \in Occupied(table) : hash[table[b].key] \in Nat
    PROVE  LET t == Rehashed(table, index, hash)
           IN  /\ t \in [1..TableSizes[index] -> Cells] /\ Entries(t) = Entries(table) /\ OneEach(t)
               /\ Cardinality(Occupied(t)) = Cardinality(Occupied(table))
<1> DEFINE size == TableSizes[index]
           first(b) == Occupied(table) \cap 1..b
<1>1. PICK f : /\ Rehashed(table, index, hash) = f[L] /\ f[0] = EmptyTable(index)
               /\ \A b \in 1..L : f[b] = IF table[b] = Empty THEN f[b - 1]
                                         ELSE Placed(f[b - 1], table[b], hash)
               /\ \A b \in 0..L : f[b] \in [1..size -> Cells]
  BY RehashedStepped
<1>2. /\ Occupied(table) = {b \in 1..L : table[b] # Empty}
      /\ IsFiniteSet(Occupied(table)) /\ Cardinality(Occupied(table)) \in Nat
  <2>1. Occupied(table) = {b \in 1..L : table[b] # Empty}
    BY DEF Occupied
  <2>2. IsFiniteSet(1..L)
    <3>1. 1 \in Int /\ L \in Int
      OBVIOUS
    <3> QED BY <3>1, FS_Interval
  <2>3. IsFiniteSet(Occupied(table))
    BY <2>1, <2>2, FS_Subset
  <2> QED BY <2>1, <2>3, FS_CardinalityType
<1>3. ASSUME NEW b \in 1..L
      PROVE  /\ table[b] = Empty => first(b) = first(b - 1)
             /\ table[b] # Empty =>
                   /\ first(b) = first(b - 1) \cup {b} /\ b \in Occupied(table)
                   /\ Cardinality(first(b)) = Cardinality(first(b - 1)) + 1
                   /\ Cardinality(first(b - 1)) < Cardinality(Occupied(table))
                   /\ Cardinality(first(b - 1)) \in Nat
  <2>1. table[b] = Empty => first(b) = first(b - 1)
    BY <1>2
  <2>2. ASSUME table[b] # Empty
        PROVE  first(b) = first(b - 1) \cup {b} /\ b \in Occupied(table) /\ b \notin first(b - 1)
    BY <1>2, <2>2
  <2> DEFINE s == first(b - 1)
             t == first(b)
  <2>3. s \subseteq Occupied(table) /\ t \subseteq Occupied(table)
    OBVIOUS
  <2> HIDE DEF first, s, t
  <2>4. /\ IsFiniteSet(s) /\ IsFiniteSet(t) /\ Cardinality(s) \in Nat
        /\ Cardinality(t) <= Cardinality(Occupied(table)) /\ Cardinality(t) \in Nat
    BY <1>2, <2>3, FS_Subset, FS_CardinalityType
  <2>5. ASSUME table[b] # Empty PROVE Cardinality(t) = Cardinality(s) + 1
    BY <2>2, <2>4, <2>5, FS_AddElement DEF s, t
  <2> QED BY <1>2, <2>1, <2>2, <2>4, <2>5 DEF s, t
<1> DEFINE In == {b \in 0..L : /\ OneEach(f[b]) /\ Entries(f[b]) = {table[a] : a \in first(b)}
                               /\ Cardinality(Occupied(f[b])) = Cardinality(first(b))}
<1>4. 0 \in In
  <2>1. f[0] = [b \in 1..size |-> Empty]
    BY <1>1 DEF EmptyTable
  <2>2. Occupied(f[0]) = {} /\ first(0) = {}
    BY <2>1 DEF Occupied
  <2> HIDE DEF first
  <2>3. OneEach(f[0]) /\ Entries(f[0]) = {table[a] : a \in first(0)}
    BY <2>2 DEF OneEach, Entries
  <2>4. Cardinality(Occupied(f[0])) = Cardinality(first(0))
    BY <2>2
  <2>5. 0 \in 0..L
    OBVIOUS
  <2> QED BY <2>3, <2>4, <2>5
<1>5. ASSUME NEW b \in 1..L, b - 1 \in In PROVE b \in In
  <2>1. /\ OneEach(f[b - 1]) /\ Entries(f[b - 1]) = {table[a] : a \in first(b - 1)}
        /\ Cardinality(Occupied(f[b - 1])) = Cardinality(first(b - 1))
        /\ b - 1 \in 0..L /\ b \in 0..L
    BY <1>5
  <2>2. f[b - 1] \in [1..size -> Cells] /\ table[b] \in Cells
    BY <1>1, <2>1
  <2>3. CASE table[b] = Empty
    <3>1. f[b] = f[b - 1] /\ first(b) = first(b - 1)
      BY <1>1, <1>3, <2>3
    <3> HIDE DEF first
    <3> QED BY <2>1, <3>1
  <2>4. CASE table[b] # Empty
    <3>1. f[b] = Placed(f[b - 1], table[b], hash)
      BY <1>1, <2>4
    <3>2. /\ first(b) = first(b - 1) \cup {b} /\ b \in Occupied(table)
          /\ Cardinality(first(b)) = Cardinality(first(b - 1)) + 1
          /\ Cardinality(first(b - 1)) < Cardinality(Occupied(table))
          /\ Cardinality(first(b - 1)) \in Nat
      BY <1>3, <2>4
    <3>3. table[b] \notin Entries(f[b - 1])
      <4>1. \A a \in first(b - 1) : a \in Occupied(table) /\ a # b
        BY <1>2
      <4> HIDE DEF first
      <4> QED BY <2>1, <3>2, <4>1 DEF OneEach
    <3> HIDE DEF first
    <3>4. hash[table[b].key] \in Nat
      BY <3>2
    <3>5. Cardinality(Occupied(f[b - 1])) < size
      BY <1>2, <2>1, <3>2
    <3>6. /\ Entries(f[b]) = Entries(f[b - 1]) \cup {table[b]} /\ OneEach(f[b])
          /\ Cardinality(Occupied(f[b])) = Cardinality(Occupied(f[b - 1])) + 1
      BY <2>1, <2>2, <2>4, <3>1, <3>3, <3>4, <3>5, PlacedIs
    <3>7. {table[a] : a \in first(b)} = {table[a] : a \in first(b - 1)} \cup {table[b]}
      BY <3>2
    <3> QED BY <2>1, <3>2, <3>6, <3>7
  <2> QED BY <2>3, <2>4
<1>6. \A b \in 0..L : b \in In
  <2> HIDE DEF In
  <2> QED BY <1>4, <1>5, CountUp
<1>7. L \in In /\ first(L) = Occupied(table)
  <2>1. first(L) = Occupied(table)
    BY <1>2
  <2>2. L \in In
    <3> HIDE DEF In
    <3> QED BY <1>6
  <2> QED BY <2>1, <2>2
<1> HIDE DEF first
<1> QED BY <1>1, <1>7 DEF Entries

\* The table starts empty, and its capacity leaves no less than it holds.
TableRight ==
    /\ TableSizes \in Seq(Nat) /\ TableCapacities \in Seq(Nat) /\ TableSizes # <<>>
    /\ Len(TableSizes) = Len(TableCapacities) /\ TableSizes[1] = 0
    /\ \A n \in DOMAIN TableSizes : TableCapacities[n] <= TableSizes[n]
MostEntries == TableCapacities[Len(TableCapacities)]

Dictionaries == {d \in [index : DOMAIN TableSizes, table : Seq(Cells)] :
                   d.table \in [1..TableSizes[d.index] -> Cells]}

LEMMA IndexIs ==
    ASSUME TableRight, NEW needed \in Nat, needed <= MostEntries
    PROVE  /\ IndexFor(needed) \in DOMAIN TableSizes
           /\ needed <= TableSizes[IndexFor(needed)]
<1> DEFINE I == {i \in 1..Len(TableCapacities) : needed <= TableCapacities[i]}
<1>1. /\ Len(TableSizes) \in Nat \ {0} /\ Len(TableCapacities) = Len(TableSizes)
      /\ DOMAIN TableSizes = 1..Len(TableSizes)
      /\ \A n \in 1..Len(TableSizes) : TableSizes[n] \in Nat /\ TableCapacities[n] \in Nat
  BY EmptySeq DEF TableRight
<1>2. I \in SUBSET Nat /\ I # {}
  <2>1. Len(TableCapacities) \in I
    BY <1>1 DEF MostEntries
  <2> QED BY <2>1
<1>3. IndexFor(needed) = Min(I)
  BY <1>2 DEF IndexFor, SelectInSeq
<1> HIDE DEF I
<1>4. Min(I) \in I
  BY <1>2, MinIn
<1>5. Min(I) \in 1..Len(TableSizes) /\ needed <= TableCapacities[Min(I)]
  BY <1>1, <1>4 DEF I
<1> DEFINE i == Min(I)
<1>6. TableCapacities[i] <= TableSizes[i] /\ TableCapacities[i] \in Nat /\ TableSizes[i] \in Nat
  BY <1>1, <1>5 DEF TableRight
<1> HIDE DEF i
<1>7. needed <= TableSizes[i]
  BY <1>5, <1>6 DEF i
<1> QED BY <1>1, <1>3, <1>5, <1>7 DEF i

\* Growing keeps the entries and leaves a bucket free.
LEMMA GrownIs ==
    ASSUME TableRight, NEW d \in Dictionaries, NEW hash, OneEach(d.table),
           \A e \in Entries(d.table) : hash[e.key] \in Nat,
           Cardinality(Occupied(d.table)) \in Nat,
           Cardinality(Occupied(d.table)) + 1 <= MostEntries
    PROVE  LET g == Grown(d, hash)
           IN  /\ g \in Dictionaries /\ Entries(g.table) = Entries(d.table) /\ OneEach(g.table)
               /\ Cardinality(Occupied(g.table)) = Cardinality(Occupied(d.table))
               /\ Cardinality(Occupied(g.table)) < TableSizes[g.index]
<1> DEFINE g == Grown(d, hash)
           count == Cardinality(Occupied(d.table))
           needed == count + 1
           index == IndexFor(needed)
           size == TableSizes[d.index]
           table == d.table
<1>1. /\ d.index \in DOMAIN TableSizes /\ table \in [1..size -> Cells] /\ size \in Nat
      /\ TableCapacities[d.index] \in Nat /\ TableCapacities[d.index] <= size
  BY DEF Dictionaries, TableRight
<1>2. CASE needed <= TableCapacities[d.index]
  <2>1. g = d
    BY <1>2 DEF Grown
  <2>2. count < size
    <3> HIDE DEF count, size
    <3> QED BY <1>1, <1>2 DEF count
  <2> QED BY <2>1, <2>2
<1>3. CASE ~(needed <= TableCapacities[d.index])
  <2>1. index \in DOMAIN TableSizes /\ needed <= TableSizes[index]
    <3> HIDE DEF count
    <3>1. needed \in Nat /\ needed <= MostEntries
      BY DEF count
    <3> QED BY <3>1, IndexIs
  <2> DEFINE t == Rehashed(table, index, hash)
  <2>2. g = [index |-> index, table |-> t]
    BY <1>3 DEF Grown
  <2>3. TableSizes[index] \in Nat
    <3> HIDE DEF index
    <3> QED BY <2>1 DEF TableRight
  <2>4. \A b \in Occupied(table) : hash[table[b].key] \in Nat
    BY DEF Entries
  <2>5. count <= TableSizes[index] /\ count < TableSizes[index]
    <3> HIDE DEF index, count
    <3> QED BY <2>1, <2>3 DEF count
  <2>6. /\ t \in [1..TableSizes[index] -> Cells] /\ Entries(t) = Entries(table) /\ OneEach(t)
        /\ Cardinality(Occupied(t)) = count
    <3> HIDE DEF index, table, size
    <3>1. OneEach(table) /\ count = Cardinality(Occupied(table))
      BY DEF table
    <3> HIDE DEF count
    <3> QED BY <1>1, <2>3, <2>4, <2>5, <3>1, RehashedIs
  <2> HIDE DEF t, index, g
  <2>7. t \in Seq(Cells)
    BY <2>3, <2>6
  <2>8. g \in Dictionaries
    BY <2>1, <2>2, <2>6, <2>7 DEF Dictionaries
  <2> QED BY <2>2, <2>5, <2>6, <2>8 DEF g
<1> QED BY <1>2, <1>3

First(keys, m) == \A l \in 1..m - 1 : keys[l] # keys[m]
Listed(keys, m) == [key |-> keys[m], input |-> m]
Firsts(keys, n) == {Listed(keys, m) : m \in {m \in 1..n : First(keys, m)}}

\* Every key was inserted a first time.
LEMMA FirstKey ==
    ASSUME NEW keys, NEW n \in Nat \ {0}
    PROVE  \E m \in 1..n : First(keys, m) /\ keys[m] = keys[n]
<1> DEFINE same == {m \in 1..n : keys[m] = keys[n]}
<1>1. same \in SUBSET Nat /\ same # {}
  OBVIOUS
<1>2. PICK m \in same : \A l \in same : m <= l
  <2> HIDE DEF same
  <2> QED BY <1>1, Smallest
<1>3. ASSUME NEW l \in 1..m - 1 PROVE keys[l] # keys[m]
  <2>1. l \in 1..n /\ ~(m <= l)
    BY <1>3
  <2> QED BY <1>2, <2>1
<1> QED BY <1>2, <1>3 DEF First

\* After n keys the table has their first occurrences.
Holds(keys, n, d) ==
    /\ d \in Dictionaries /\ OneEach(d.table) /\ Entries(d.table) = Firsts(keys, n)
    /\ Cardinality(Occupied(d.table)) \in 0..n

LEMMA InsertedIs ==
    ASSUME TableRight, NEW keys \in Seq(Int), NEW hash, Len(keys) <= MostEntries,
           \A n \in DOMAIN keys : hash[keys[n]] \in Nat,
           NEW n \in 1..Len(keys), NEW d, Holds(keys, n - 1, d)
    PROVE  Holds(keys, n, Inserted(d, keys, n, hash))
<1> DEFINE e == Listed(keys, n)
           count == Cardinality(Occupied(d.table))
<1>1. /\ Len(keys) \in Nat /\ DOMAIN keys = 1..Len(keys) /\ keys[n] \in Int /\ MostEntries \in Nat
      /\ \A m \in 1..n - 1 : keys[m] \in Int /\ hash[keys[m]] \in Nat
  <2>1. MostEntries \in Nat
    <3>1. Len(TableCapacities) \in DOMAIN TableCapacities
      <4>1. Len(TableCapacities) \in Nat \ {0}
        BY EmptySeq DEF TableRight
      <4> QED BY <4>1
    <3> QED BY <3>1 DEF TableRight, MostEntries
  <2> QED BY <2>1
<1>2. Firsts(keys, n) = Firsts(keys, n - 1) \cup (IF First(keys, n) THEN {e} ELSE {})
  <2>1. 1..n = 1..n - 1 \cup {n}
    OBVIOUS
  <2> QED BY <2>1 DEF Firsts
<1>3. (\E b \in Occupied(d.table) : d.table[b].key = keys[n]) <=> ~First(keys, n)
  <2>1. (\E b \in Occupied(d.table) : d.table[b].key = keys[n]) <=>
           \E h \in Entries(d.table) : h.key = keys[n]
    BY DEF Entries
  <2>2. (\E h \in Firsts(keys, n - 1) : h.key = keys[n]) <=>
           \E m \in 1..n - 1 : First(keys, m) /\ keys[m] = keys[n]
    <3>1. ASSUME NEW h \in Firsts(keys, n - 1), h.key = keys[n]
          PROVE  \E m \in 1..n - 1 : First(keys, m) /\ keys[m] = keys[n]
      BY <3>1 DEF Firsts, Listed
    <3>2. ASSUME NEW m \in 1..n - 1, First(keys, m), keys[m] = keys[n]
          PROVE  \E h \in Firsts(keys, n - 1) : h.key = keys[n]
      <4>1. Listed(keys, m) \in Firsts(keys, n - 1) /\ Listed(keys, m).key = keys[n]
        BY <3>2 DEF Firsts, Listed
      <4> QED BY <4>1
    <3> QED BY <3>1, <3>2
  <2>3. ASSUME NEW l \in 1..n - 1, keys[l] = keys[n]
        PROVE  \E m \in 1..n - 1 : First(keys, m) /\ keys[m] = keys[n]
    <3>1. PICK m \in 1..l : First(keys, m) /\ keys[m] = keys[l]
      BY FirstKey
    <3> QED BY <2>3, <3>1
  <2>4. ~First(keys, n) <=> \E l \in 1..n - 1 : keys[l] = keys[n]
    BY DEF First
  <2> QED BY <2>1, <2>2, <2>3, <2>4 DEF Holds
<1>4. CASE ~First(keys, n)
  <2>1. Inserted(d, keys, n, hash) = d
    BY <1>3, <1>4 DEF Inserted
  <2>2. Firsts(keys, n) = Firsts(keys, n - 1)
    BY <1>2, <1>4
  <2> QED BY <2>1, <2>2 DEF Holds
<1>5. CASE First(keys, n)
  <2> DEFINE g == Grown(d, hash)
             t == Placed(g.table, e, hash)
             i == Inserted(d, keys, n, hash)
  <2>1. /\ d \in Dictionaries /\ OneEach(d.table) /\ Entries(d.table) = Firsts(keys, n - 1)
        /\ count \in 0..n - 1
    BY DEF Holds
  <2>2. \A h \in Entries(d.table) : hash[h.key] \in Nat
    BY <1>1, <2>1 DEF Firsts, Listed
  <2>3. count \in Nat /\ count + 1 <= MostEntries
    <3> HIDE DEF count
    <3> QED BY <1>1, <2>1
  <2>4. /\ g \in Dictionaries /\ Entries(g.table) = Entries(d.table) /\ OneEach(g.table)
        /\ Cardinality(Occupied(g.table)) = count
        /\ Cardinality(Occupied(g.table)) < TableSizes[g.index]
    BY <2>1, <2>2, <2>3, GrownIs
  <2>5. i = [g EXCEPT !.table = Placed(g.table, e, hash)]
    BY <1>3, <1>5 DEF Inserted, Listed
  <2> HIDE DEF g
  <2>6. g.table \in [1..TableSizes[g.index] -> Cells] /\ TableSizes[g.index] \in Nat
    BY <2>4 DEF Dictionaries, TableRight
  <2>7. e \in Cells /\ e # Empty /\ e.key = keys[n]
    BY <1>1 DEF Listed, Cells, Empty
  <2>8. e \notin Entries(g.table)
    <3>1. \A h \in Firsts(keys, n - 1) : h.key # keys[n]
      BY <1>5 DEF Firsts, First, Listed
    <3> QED BY <2>1, <2>4, <2>7, <3>1
  <2>9. hash[e.key] \in Nat
    BY <1>1, <2>7
  <2> HIDE DEF e
  <2>10. /\ t \in [1..TableSizes[g.index] -> Cells] /\ Entries(t) = Entries(g.table) \cup {e}
         /\ OneEach(t) /\ Cardinality(Occupied(t)) = Cardinality(Occupied(g.table)) + 1
    <3> DEFINE L == TableSizes[g.index]
               u == g.table
    <3>1. /\ L \in Nat /\ u \in [1..L -> Cells] /\ e \in Cells /\ e # Empty /\ hash[e.key] \in Nat
          /\ e \notin Entries(u) /\ OneEach(u) /\ Cardinality(Occupied(u)) < L
      BY <2>4, <2>6, <2>7, <2>8, <2>9
    <3> HIDE DEF L, u
    <3>2. LET p == Placed(u, e, hash)
          IN  /\ p \in [1..L -> Cells] /\ Entries(p) = Entries(u) \cup {e} /\ OneEach(p)
              /\ Cardinality(Occupied(p)) = Cardinality(Occupied(u)) + 1
      BY <3>1, PlacedIs
    <3> QED BY <3>2 DEF L, u
  <2>11. t \in Seq(Cells)
    <3> HIDE DEF t
    <3> QED BY <2>6, <2>10
  <2>12. i \in Dictionaries /\ i.table = t
    <3>1. i = [g EXCEPT !.table = t]
      BY <2>5
    <3> HIDE DEF t, i
    <3>2. i \in [index : DOMAIN TableSizes, table : Seq(Cells)] /\ i.table = t /\ i.index = g.index
      BY <2>4, <2>11, <3>1 DEF Dictionaries
    <3> QED BY <2>10, <3>2 DEF Dictionaries
  <2>13. Entries(t) = Firsts(keys, n)
    BY <1>2, <1>5, <2>1, <2>4, <2>10
  <2>14. Cardinality(Occupied(t)) \in 0..n
    <3> HIDE DEF t, count
    <3> QED BY <2>1, <2>4, <2>10
  <2> HIDE DEF i, t
  <2>15. Holds(keys, n, i)
    BY <2>10, <2>12, <2>13, <2>14 DEF Holds
  <2> QED BY <2>15 DEF i
<1> QED BY <1>4, <1>5

\* Steps that lead from each set to the next have their results in them.
LEMMA StaysInEach ==
    ASSUME NEW N \in Nat, NEW A, NEW start \in A[0], NEW step,
           \A n \in 1..N : \A a \in A[n - 1] : step[n][a] \in A[n]
    PROVE  \E g : Steps(g, N, start, step) /\ \A n \in 0..N : g[n] \in A[n]
<1>1. PICK g : Steps(g, N, start, step)
  BY StepsExist
<1> DEFINE In == {n \in 0..N : g[n] \in A[n]}
<1>2. 0 \in In
  BY <1>1 DEF Steps
<1>3. ASSUME NEW n \in 1..N, n - 1 \in In PROVE n \in In
  <2>1. g[n - 1] \in A[n - 1]
    BY <1>3
  <2>2. g[n] = step[n][g[n - 1]]
    BY <1>1 DEF Steps
  <2>3. g[n] \in A[n]
    BY <2>1, <2>2
  <2> QED BY <2>3
<1>4. \A n \in 0..N : n \in In
  <2> HIDE DEF In
  <2> QED BY <1>2, <1>3, CountUp
<1> QED BY <1>1, <1>4

OrderedOf(f, keys, hash) ==
    f = [n \in 0..Len(keys) |->
           IF n = 0 THEN [index |-> 1, table |-> <<>>] ELSE Inserted(f[n - 1], keys, n, hash)]

EntriesOf(d) == Where(d.table, LAMBDA e : e # Empty)

\* The order is that of a table with the first occurrences of the keys.
LEMMA OrderIs ==
    ASSUME TableRight, NEW keys \in Seq(Int), NEW hash, Len(keys) <= MostEntries,
           \A n \in DOMAIN keys : hash[keys[n]] \in Nat
    PROVE  \E d : /\ Holds(keys, Len(keys), d)
                  /\ DictionaryOrder(keys, hash) = Each(EntriesOf(d), LAMBDA e : e.input)
<1> DEFINE N == Len(keys)
           base == [index |-> 1, table |-> <<>>]
           E(n, d) == Inserted(d, keys, n, hash)
           A == [n \in 0..N |-> {d \in Dictionaries : Holds(keys, n, d)}]
           step == [n \in 1..N |-> [d \in A[n - 1] |-> E(n, d)]]
<1>1. N \in Nat
  OBVIOUS
<1>2. Holds(keys, 0, base) /\ base \in Dictionaries
  <2>1. /\ base.index = 1 /\ base.table = <<>> /\ 1 \in DOMAIN TableSizes /\ TableSizes[1] = 0
        /\ base \in [index : DOMAIN TableSizes, table : Seq(Cells)]
    <3>1. TableSizes \in Seq(Nat) /\ Len(TableSizes) \in Nat \ {0} /\ TableSizes[1] = 0
      BY EmptySeq DEF TableRight
    <3>2. 1 \in DOMAIN TableSizes
      BY <3>1
    <3> QED BY <3>1, <3>2
  <2>2. <<>> \in [1..0 -> Cells] /\ Occupied(<<>>) = {}
    BY DEF Occupied
  <2> HIDE DEF base
  <2>3. base \in Dictionaries
    BY <2>1, <2>2 DEF Dictionaries
  <2>4. Entries(base.table) = {} /\ OneEach(base.table) /\ Occupied(base.table) = {}
    BY <2>1, <2>2 DEF Entries, OneEach
  <2>5. Cardinality(Occupied(base.table)) = 0
    BY <2>4, FS_EmptySet
  <2>6. Firsts(keys, 0) = {}
    BY DEF Firsts
  <2> QED BY <2>3, <2>4, <2>5, <2>6 DEF Holds
<1>3. ASSUME NEW n \in 1..N, NEW d, Holds(keys, n - 1, d) PROVE Holds(keys, n, E(n, d))
  BY <1>3, InsertedIs
<1> HIDE DEF E, base
<1>4. \A n \in 1..N : \A d \in A[n - 1] : step[n][d] = E(n, d) /\ E(n, d) \in A[n]
  <2> TAKE n \in 1..N
  <2> TAKE d \in A[n - 1]
  <2>1. n - 1 \in 0..N /\ n \in 0..N /\ Holds(keys, n - 1, d)
    BY <1>1
  <2>2. Holds(keys, n, E(n, d))
    BY <1>3, <2>1
  <2>3. E(n, d) \in A[n]
    BY <2>1, <2>2 DEF Holds
  <2> QED BY <2>3
<1>5. base \in A[0]
  BY <1>1, <1>2
<1> HIDE DEF A, step
<1>6. PICK g : Steps(g, N, base, step) /\ \A n \in 0..N : g[n] \in A[n]
  <2>1. \A n \in 1..N : \A d \in A[n - 1] : step[n][d] \in A[n]
    BY <1>4
  <2> HIDE DEF N
  <2> QED BY <1>1, <1>5, <2>1, StaysInEach
<1>7. OrderedOf(g, keys, hash)
  <2>1. ASSUME NEW n \in 0..N PROVE g[n] = IF n = 0 THEN base ELSE E(n, g[n - 1])
    <3>1. CASE n = 0
      BY <1>6, <3>1 DEF Steps
    <3>2. CASE n # 0
      <4>1. n \in 1..N /\ n - 1 \in 0..N
        BY <1>1, <3>2
      <4> QED BY <1>4, <1>6, <3>2, <4>1 DEF Steps
    <3> QED BY <3>1, <3>2
  <2>2. g = [n \in 0..N |-> g[n]]
    BY <1>6 DEF Steps
  <2> QED BY <2>1, <2>2, Zenon DEF OrderedOf, E, base
<1> DEFINE f == CHOOSE f : OrderedOf(f, keys, hash)
<1>8. OrderedOf(f, keys, hash)
  BY <1>7
<1>9. DictionaryOrder(keys, hash) = Each(EntriesOf(f[N]), LAMBDA e : e.input)
  BY Zenon DEF DictionaryOrder, OrderedOf, EntriesOf
<1> HIDE DEF f
<1>10. \A n \in 0..N : f[n] = IF n = 0 THEN base ELSE E(n, f[n - 1])
  BY <1>8 DEF OrderedOf, E, base
<1> DEFINE In == {n \in 0..N : Holds(keys, n, f[n])}
<1>11. \A n \in 0..N : n \in In
  <2>1. 0 \in In
    BY <1>1, <1>2, <1>10
  <2>2. ASSUME NEW n \in 1..N, n - 1 \in In PROVE n \in In
    <3>1. Holds(keys, n - 1, f[n - 1])
      BY <2>2
    <3>2. f[n] = E(n, f[n - 1])
      BY <1>10
    <3>3. Holds(keys, n, f[n])
      BY <1>3, <3>1, <3>2
    <3> QED BY <3>3
  <2> HIDE DEF In, N
  <2> QED BY <1>1, <2>1, <2>2, CountUp
<1>12. N \in In
  <2> HIDE DEF In
  <2> QED BY <1>1, <1>11
<1> QED BY <1>9, <1>12

\* Every key is in the order, where it was inserted first, and once.
LEMMA OrderListsKeys ==
    ASSUME TableRight, NEW keys \in Seq(Int), NEW hash, Len(keys) <= MostEntries,
           \A n \in DOMAIN keys : hash[keys[n]] \in Nat
    PROVE  LET order == DictionaryOrder(keys, hash)
           IN  /\ order \in Seq(1..Len(keys)) /\ IsInjective(order)
               /\ ToSet(order) = {n \in DOMAIN keys : First(keys, n)}
<1> DEFINE order == DictionaryOrder(keys, hash)
<1>1. PICK d : /\ Holds(keys, Len(keys), d)
               /\ order = Each(EntriesOf(d), LAMBDA e : e.input)
  BY OrderIs
<1> DEFINE t == d.table
           some == {x \in ToSet(t) : x # Empty}
           s == EntriesOf(d)
<1>2. /\ t \in Seq(Cells) /\ OneEach(t) /\ Entries(t) = Firsts(keys, Len(keys))
  BY <1>1 DEF Holds, Dictionaries
<1>3. s = Only(t, some)
  BY DEF EntriesOf, Where
<1>4. order = [n \in DOMAIN s |-> s[n].input]
  BY <1>1 DEF Each
<1> HIDE DEF t, s, order
<1>5. s \in Seq(Cells) /\ ToSet(s) = Firsts(keys, Len(keys))
  <2>1. s \in Seq(Cells) /\ ToSet(s) = ToSet(t) \cap some
    BY <1>2, <1>3, OnlyElements
  <2>2. ToSet(t) \cap some = Entries(t)
    BY DEF ToSet, Entries, Occupied
  <2> QED BY <1>2, <2>1, <2>2
<1>6. \A x : ~(Repeated(s, x) /\ x # Empty)
  <2> SUFFICES ASSUME NEW x, Repeated(s, x), x # Empty PROVE FALSE
    OBVIOUS
  <2>1. Repeated(t, x)
    BY <1>2, <1>3, OnlyRepeated
  <2> QED BY <1>2, <2>1 DEF Repeated, OneEach, Occupied
<1>7. /\ Len(s) \in Nat /\ DOMAIN s = 1..Len(s) /\ Len(keys) \in Nat /\ DOMAIN keys = 1..Len(keys)
      /\ \A n \in DOMAIN s : s[n] \in ToSet(s)
  BY <1>5 DEF ToSet
<1>8. ASSUME NEW n \in DOMAIN s
      PROVE  /\ order[n] = s[n].input /\ order[n] \in 1..Len(keys) /\ First(keys, order[n])
             /\ s[n] = Listed(keys, order[n]) /\ s[n] # Empty
  <2>1. PICK m \in 1..Len(keys) : First(keys, m) /\ s[n] = Listed(keys, m)
    BY <1>5, <1>7 DEF Firsts
  <2>2. order[n] = m
    BY <1>4, <2>1 DEF Listed
  <2>3. Listed(keys, m) # Empty
    BY DEF Listed, Empty
  <2> QED BY <1>4, <2>1, <2>2, <2>3
<1>9. order \in Seq(1..Len(keys)) /\ DOMAIN order = DOMAIN s
  <2>1. order \in [1..Len(s) -> 1..Len(keys)]
    BY <1>4, <1>7, <1>8
  <2> QED BY <1>7, <2>1
<1>10. IsInjective(order)
  <2> SUFFICES ASSUME NEW a \in DOMAIN s, NEW b \in DOMAIN s, order[a] = order[b] PROVE a = b
    BY <1>9 DEF IsInjective
  <2>1. s[a] = s[b] /\ s[a] # Empty
    BY <1>8
  <2> QED BY <1>6, <2>1 DEF Repeated
<1>11. ToSet(order) = {n \in DOMAIN keys : First(keys, n)}
  <2>1. ASSUME NEW n \in DOMAIN keys, First(keys, n) PROVE \E k \in DOMAIN s : order[k] = n
    <3>1. Listed(keys, n) \in ToSet(s)
      BY <1>5, <1>7, <2>1 DEF Firsts
    <3>2. PICK k \in DOMAIN s : s[k] = Listed(keys, n)
      BY <3>1 DEF ToSet
    <3>3. order[k] = n
      BY <1>8, <3>2 DEF Listed
    <3> QED BY <3>3
  <2>2. \A x : x \in ToSet(order) <=> \E k \in DOMAIN s : x = order[k]
    BY <1>9, ToSetIs
  <2> QED BY <1>7, <1>8, <2>1, <2>2
<1> QED BY <1>9, <1>10, <1>11 DEF order

\* And every channel, whose key is not that of the root, gets its rank.
LEMMA RankIs ==
    ASSUME TableRight, NEW keys \in Seq(Int), NEW hash, Len(keys) <= MostEntries,
           \A n \in DOMAIN keys : hash[keys[n]] \in Nat,
           NEW n \in DOMAIN keys, keys[n] # keys[1]
    PROVE  LET c == WithRank([key |-> keys[n], rank |-> NoRank], keys, hash)
           IN  keys[DictionaryOrder(keys, hash)[c.rank + 1]] = c.key
<1> DEFINE order == DictionaryOrder(keys, hash)
           b == [key |-> keys[n], rank |-> NoRank]
           I == {i \in 1..Len(order) : keys[order[i]] = b.key}
           at == SelectInSeq(order, LAMBDA m : keys[m] = b.key)
           c == WithRank(b, keys, hash)
<1>1. order \in Seq(1..Len(keys)) /\ ToSet(order) = {m \in DOMAIN keys : First(keys, m)}
  BY OrderListsKeys
<1>2. Len(keys) \in Nat /\ DOMAIN keys = 1..Len(keys)
  OBVIOUS
<1>3. c = IF at = 0 \/ order[at] = 1 THEN b ELSE [b EXCEPT !.rank = at - 1]
  BY DEF WithRank, NoRank
<1> HIDE DEF order
<1>4. Len(order) \in Nat /\ DOMAIN order = 1..Len(order)
  BY <1>1
<1>5. I \in SUBSET Nat /\ I # {}
  <2>1. PICK m \in 1..n : First(keys, m) /\ keys[m] = keys[n]
    <3>1. n \in Nat \ {0}
      BY <1>2
    <3> QED BY <3>1, FirstKey
  <2>2. m \in DOMAIN keys
    BY <1>2, <2>1
  <2>3. m \in ToSet(order)
    BY <1>1, <2>1, <2>2
  <2>4. PICK i \in DOMAIN order : order[i] = m
    BY <2>3 DEF ToSet
  <2>5. i \in I
    BY <1>4, <2>1, <2>4
  <2> QED BY <1>4, <2>5
<1>6. at = Min(I)
  BY <1>5 DEF SelectInSeq
<1> HIDE DEF I, at
<1>7. at \in I
  BY <1>5, <1>6, MinIn
<1>8. at \in 1..Len(order) /\ keys[order[at]] = keys[n]
  BY <1>7 DEF I
<1>9. at # 0 /\ order[at] # 1
  BY <1>4, <1>8
<1>10. c = [b EXCEPT !.rank = at - 1]
  BY <1>3, <1>9
<1> HIDE DEF c
<1>11. c.rank + 1 = at /\ c.key = keys[n]
  <2>1. at \in Int
    BY <1>4, <1>8
  <2>2. c.rank = at - 1 /\ c.key = keys[n]
    BY <1>10
  <2> QED BY <2>1, <2>2
<1> QED BY <1>8, <1>11 DEF c, order

-----------------------------------------------------------------------------
(* All of it *)

LEMMA TableIsRight == MigrationAssumption => TableRight
BY DEF MigrationAssumption, TableRight

\* A part of an old workspace is of its kind.
LEMMA InputsAre ==
    ASSUME MigrationInit
    PROVE  /\ old.kind = "rooms" => old.value \in RoomTables
           /\ old.kind \in {"imported", "nibbles"} => old.value \in ModuleOrders
           /\ old.kind = "scenes" => old.value \in SceneTables
           /\ old.kind = "tables" => old.value \in PeriodTables
           /\ old.kind = "users" => old.value \in UserTables
           /\ old.kind = "codes" => old.value \in CodeTables
           /\ old.kind = "copies" => old.value \in Copies
           /\ old.kind = "keys" => old.value \in [keys : KeyOrders, hash : Hashes]
BY DEF MigrationInit, Input

LEMMA AddressesHold == ASSUME MigrationAssumption, MigrationInit PROVE AddressesRight
<1>1. Indexes \subseteq 1..8 /\ ModuleOrders \subseteq Seq(Nat)
  BY DEF MigrationAssumption
<1>2. ASSUME old.kind \in {"imported", "nibbles"} PROVE old.value \in Seq(Nat)
  BY <1>1, <1>2, InputsAre
<1> DEFINE v == old.value
<1> HIDE DEF v
<1>3. ASSUME old.kind = "imported", Ascending(v) PROVE RestoredChannels(Imported(v)) = Imported(v)
  BY <1>1, <1>2, <1>3, ImportedStays DEF v
<1>4. ASSUME old.kind = "nibbles"
      PROVE  LET now == RestoredChannels(Nibbled(v))
             IN  \A c \in now : c.address = SortedPosition(now, c.module) * 8 + c.index
  BY <1>1, <1>2, <1>4, NibblesRestored DEF v
<1> QED BY <1>3, <1>4 DEF AddressesRight, v

LEMMA GroupsHold == ASSUME MigrationAssumption, MigrationInit PROVE GroupsRight
<1> SUFFICES ASSUME old.kind = "scenes" PROVE GroupsRight
  BY DEF GroupsRight
<1> DEFINE table == old.value
           now == RestoredScenes(table)
           there(id) == Has(now.groups, LAMBDA g : g.id = id)
<1>1. table \in Tables
  BY InputsAre DEF MigrationAssumption, Tables
<1>2. /\ now \in Tables /\ Longer(table.groups, now.groups) /\ Len(now.scenes) = Len(table.scenes)
      /\ \A n \in 1..Len(now.scenes) : There(now.groups, now.scenes[n].group)
      /\ \A n \in Len(table.groups) + 1..Len(now.groups) :
            now.groups[n].parent = 0 \/ There(now.groups, now.groups[n].parent)
      /\ \A m, n \in 1..Len(now.scenes) :
            /\ table.scenes[m].group = 0 /\ table.scenes[n].group = 0
            /\ now.scenes[m].path = now.scenes[n].path
            => now.scenes[m].group = now.scenes[n].group
  BY <1>1, ScenesRestored
<1> HIDE DEF now
<1>3. \A id : there(id) <=> There(now.groups, id)
  BY Zenon DEF Has, There
<1> HIDE DEF there
<1>4. /\ DOMAIN now.scenes = 1..Len(now.scenes) /\ DOMAIN now.groups = 1..Len(now.groups)
      /\ DOMAIN table.groups = 1..Len(table.groups)
      /\ now.groups \in Seq(SceneGroups) /\ table.groups \in Seq(SceneGroups)
      /\ Len(now.groups) \in Nat /\ Len(table.groups) \in Nat
  BY <1>1, <1>2 DEF Tables
<1>5. \A n \in DOMAIN now.scenes : there(now.scenes[n].group)
  BY <1>2, <1>3, <1>4
<1>6. \A n \in DOMAIN now.groups \ DOMAIN table.groups :
         now.groups[n].parent = 0 \/ there(now.groups[n].parent)
  <2> TAKE n \in DOMAIN now.groups \ DOMAIN table.groups
  <2>1. n \in Len(table.groups) + 1..Len(now.groups)
    BY <1>4
  <2> QED BY <1>2, <1>3, <2>1
<1>7. IsPrefix(table.groups, now.groups)
  <2> DEFINE s == table.groups
             t == now.groups
  <2>1. /\ s \in Seq(SceneGroups) /\ t \in Seq(SceneGroups) /\ Len(s) \in Nat /\ Len(t) \in Nat
        /\ Len(s) <= Len(t) /\ \A n \in 1..Len(s) : t[n] = s[n]
    BY <1>2, <1>4 DEF Longer
  <2> HIDE DEF s, t
  <2>2. SubSeq(s, 1, Len(s)) = s
    BY <2>1, SubSeqFull
  <2>3. SubSeq(t, 1, Len(s)) \in Seq(SceneGroups) /\ Len(SubSeq(t, 1, Len(s))) = Len(s)
        /\ \A n \in 1..Len(s) : SubSeq(t, 1, Len(s))[n] = t[n]
    <3> DEFINE k == Len(s)
    <3>1. k \in Int /\ 1 \in Int /\ \A i \in 1..k : t[i] \in SceneGroups
      BY <2>1
    <3>2. k \in Nat
      BY <2>1
    <3> HIDE DEF k
    <3>3. /\ SubSeq(t, 1, k) \in Seq(SceneGroups)
          /\ Len(SubSeq(t, 1, k)) = IF 1 <= k THEN k - 1 + 1 ELSE 0
          /\ \A i \in 1..k - 1 + 1 : SubSeq(t, 1, k)[i] = t[1 + i - 1]
      BY <3>1, SubSeqProperties
    <3>4. Len(SubSeq(t, 1, k)) = k
      BY <3>2, <3>3
    <3>5. \A i \in 1..k : SubSeq(t, 1, k)[i] = t[i]
      BY <3>2, <3>3
    <3> QED BY <3>3, <3>4, <3>5 DEF k
  <2>4. SubSeq(t, 1, Len(s)) = s
    <3> DEFINE u == SubSeq(t, 1, Len(s))
    <3>1. u \in Seq(SceneGroups) /\ Len(u) = Len(s) /\ \A n \in 1..Len(s) : u[n] = s[n]
      BY <2>1, <2>3
    <3> HIDE DEF u
    <3>2. u = s
      BY <2>1, <3>1
    <3> QED BY <3>2 DEF u
  <2>5. IsPrefix(s, t)
    BY <2>1, <2>2, <2>4 DEF IsPrefix
  <2> QED BY <2>5 DEF s, t
<1>8. \A m, n \in DOMAIN now.scenes :
         /\ table.scenes[m].group = 0 /\ table.scenes[n].group = 0
         /\ now.scenes[m].path = now.scenes[n].path
         => now.scenes[m].group = now.scenes[n].group
  BY <1>2, <1>4
<1> QED BY <1>5, <1>6, <1>7, <1>8 DEF GroupsRight, now, there

LEMMA RowsHold == ASSUME MigrationAssumption, MigrationInit PROVE
    RowsKept /\ (old.kind = "tables" => NormalTables(NormalTables(old.value)) = NormalTables(old.value))
<1> SUFFICES ASSUME old.kind = "tables"
             PROVE  RowsKept /\ NormalTables(NormalTables(old.value)) = NormalTables(old.value)
  BY DEF RowsKept
<1> DEFINE t == old.value
<1>1. /\ t \in [periods : Seq(STRING), flags : Seq(STRING)]
      /\ Len(t.periods) <= PeriodRows + FlagRows /\ Len(t.flags) <= FlagRows
      /\ PeriodRows \in Nat \ {0} /\ FlagRows \in Nat \ {0}
  BY InputsAre DEF MigrationAssumption
<1> HIDE DEF t
<1>2. t \in RowTables
  <2>1. STRING \subseteq Rows
    BY DEF Rows
  <2>2. t.periods \in Seq(Rows) /\ t.flags \in Seq(Rows)
    <3>1. ASSUME NEW p \in Seq(STRING) PROVE p \in Seq(Rows)
      <4>1. Len(p) \in Nat /\ \A n \in 1..Len(p) : p[n] \in STRING
        OBVIOUS
      <4>2. \A n \in 1..Len(p) : p[n] \in Rows
        <5> HIDE DEF Rows
        <5> QED BY <2>1, <4>1
      <4>3. p = [n \in 1..Len(p) |-> p[n]]
        OBVIOUS
      <4>4. p \in [1..Len(p) -> Rows]
        BY <4>2, <4>3
      <4> QED BY <4>1, <4>4
    <3> QED BY <1>1, <3>1
  <2> QED BY <1>1, <2>2 DEF RowTables
<1>3. LET now == NormalTables(t)
          before == t.periods \o t.flags
          after == now.periods \o now.flags
      IN  /\ NormalTables(now) = now
          /\ Len(t.periods) <= PeriodRows \/ t.flags = <<>> =>
               Where(before, LAMBDA r : r # BlankRow) = Where(after, LAMBDA r : r # BlankRow)
  BY <1>1, <1>2, RowsStay
<1> QED BY <1>3, Zenon DEF RowsKept, t

LEMMA UsersHold == ASSUME MigrationAssumption, MigrationInit PROVE
    EditedUsersKept /\ (old.kind = "users" => WithAccess(WithAccess(old.value)) = WithAccess(old.value))
<1> SUFFICES ASSUME old.kind = "users"
             PROVE  EditedUsersKept /\ WithAccess(WithAccess(old.value)) = WithAccess(old.value)
  BY DEF EditedUsersKept
<1> DEFINE t == old.value
<1>1. t \in [rooms : Seq(Links), switches : Seq(Links), users : Seq(OldUsers)]
  BY InputsAre DEF MigrationAssumption
<1> HIDE DEF t
<1>2. WithAccess(WithAccess(t)) = WithAccess(t)
  BY <1>1, UsersOnce
<1>3. \A n \in DOMAIN t.users : ~MayResolve(t.users[n]) => WithAccess(t).users[n] = t.users[n]
  BY <1>1, UsersOnce
<1>4. \A n \in DOMAIN t.users :
        t.users[n].status # "imported" \/ t.users[n].rooms # <<>> => ~MayResolve(t.users[n])
  BY DEF MayResolve
<1> QED BY <1>2, <1>3, <1>4 DEF EditedUsersKept, t

LEMMA KeysHold == ASSUME MigrationAssumption, MigrationInit PROVE EveryKeyListed
<1> SUFFICES ASSUME old.kind = "keys" PROVE EveryKeyListed
  BY DEF EveryKeyListed
<1> DEFINE keys == old.value.keys
           hash == old.value.hash
           order == DictionaryOrder(keys, hash)
<1>1. keys \in KeyOrders /\ hash \in Hashes
  BY InputsAre
<1> HIDE DEF keys, hash
<1>2. /\ TableRight /\ keys \in Seq(Int) /\ Len(keys) <= MostEntries
      /\ \A n \in DOMAIN keys : hash[keys[n]] \in Nat
  BY <1>1, TableIsRight DEF MigrationAssumption, MostEntries
<1>3. IsInjective(order) /\ ToSet(order) = {n \in DOMAIN keys : First(keys, n)}
  BY <1>2, OrderListsKeys
<1>4. ASSUME NEW n \in DOMAIN keys, keys[n] # keys[1]
      PROVE  LET c == WithRank([key |-> keys[n], rank |-> NoRank], keys, hash)
             IN  keys[order[c.rank + 1]] = c.key
  BY <1>2, <1>4, RankIs
<1> HIDE DEF order
<1>5. /\ IsInjective(order)
      /\ ToSet(order) = {n \in DOMAIN keys : \A m \in 1..(n - 1) : keys[m] # keys[n]}
  BY <1>3 DEF First
<1>6. \A n \in DOMAIN keys : keys[n] # keys[1] =>
         LET c == WithRank([key |-> keys[n], rank |-> NoRank], keys, hash)
         IN  keys[order[c.rank + 1]] = c.key
  BY <1>4
<1> QED BY <1>5, <1>6, Zenon DEF EveryKeyListed, order, keys, hash

LEMMA OthersHold == ASSUME MigrationAssumption, MigrationInit PROVE
    /\ ConnectionKept
    /\ old.kind = "copies" => LET now == WithConnection(old.value.server, old.value.browser)
                              IN  WithConnection(now, old.value.browser) = now
    /\ old.kind = "codes" => WithCode(WithCode(old.value)) = WithCode(old.value)
    /\ old.kind = "rooms" => RestoredRooms(RestoredRooms(old.value)) = RestoredRooms(old.value)
    /\ old.kind = "scenes" => RestoredScenes(RestoredScenes(old.value)) = RestoredScenes(old.value)
    /\ old.kind = "nibbles" => LET now == RestoredChannels(Nibbled(old.value))
                               IN  RestoredChannels(now) = now
<1> DEFINE v == old.value
<1>1. old.kind = "copies" => v.server \in Connections /\ v.browser \in Connections
  BY InputsAre DEF MigrationAssumption
<1>2. old.kind = "codes" => v \in [modules : Nat, hardware : Nat, code : STRING, top : Seq(STRING)]
  BY InputsAre DEF MigrationAssumption
<1>3. old.kind = "rooms" => v \in Seq(OldRooms)
  BY InputsAre DEF MigrationAssumption
<1>4. old.kind = "scenes" => v \in Tables
  BY InputsAre DEF MigrationAssumption, Tables
<1>5. (old.kind = "nibbles" => v \in Seq(Nat)) /\ Indexes \subseteq 1..8
  BY InputsAre DEF MigrationAssumption
<1> HIDE DEF v
<1>6. old.kind = "copies" => /\ LET now == WithConnection(v.server, v.browser)
                                IN  WithConnection(now, v.browser) = now
                             /\ v.server.ip # "" => WithConnection(v.server, v.browser).ip # ""
                             /\ v.server.code # "" => WithConnection(v.server, v.browser).code # ""
  BY <1>1, ConnectionOnce
<1>7. old.kind = "codes" => WithCode(WithCode(v)) = WithCode(v)
  BY <1>2, CodeOnce
<1>8. old.kind = "rooms" => RestoredRooms(RestoredRooms(v)) = RestoredRooms(v)
  BY <1>3, RoomsOnce
<1>9. old.kind = "scenes" => RestoredScenes(RestoredScenes(v)) = RestoredScenes(v)
  BY <1>4, ScenesOnce
<1>10. old.kind = "nibbles" => LET now == RestoredChannels(Nibbled(v))
                               IN  RestoredChannels(now) = now
  BY <1>5, NibblesRestored
<1>11. ConnectionKept
  BY <1>6 DEF ConnectionKept, v
<1> QED BY <1>6, <1>7, <1>8, <1>9, <1>10, <1>11, Zenon DEF v

\* What is restored and migrated is right, and once is enough.
LEMMA MigrationsHold == ASSUME MigrationAssumption, MigrationInit PROVE MigrationsRight
<1>1. OnceIsEnough
  BY RowsHold, UsersHold, OthersHold, Zenon DEF OnceIsEnough
<1> QED BY <1>1, AddressesHold, GroupsHold, RowsHold, UsersHold, KeysHold, OthersHold
        DEF MigrationsRight

\* Whatever is found of an older build: the hierarchy that restoreAreaHierarchy
\* makes up is whole, the addresses it repairs are right, the tables, users,
\* codes, connections and channel orders that are migrated lose nothing, and
\* all of it done again changes nothing.
THEOREM MigrationsAreRight ==
    ASSUME MigrationAssumption
    PROVE  MigrationSpec => []MigrationsRight
<1>1. MigrationInit /\ [MigrationNext]_old => MigrationInit'
  BY DEF MigrationInit, MigrationNext
<1>2. MigrationInit => MigrationsRight
  BY MigrationsHold
<1> QED BY <1>1, <1>2, PTL DEF MigrationSpec
=============================================================================
