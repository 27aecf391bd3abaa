----------------------------- MODULE FileProofs -----------------------------
(***************************************************************************)
(* Proofs about Path and File.  For paths of any length: the normal form   *)
(* is one and keeps what a path names, and the parts make the path again.  *)
(* For every finite set of Files and transports, any volumes, paths and    *)
(* sizes: no handle of the firmware leaks or is closed twice, an Open has  *)
(* what the path names, a Read that succeeds has the whole file, a resize  *)
(* that succeeds keeps the position, and a transport that fails names a    *)
(* status its File has set.                                                *)
(*                                                                         *)
(* The operations on paths are folds over characters and names: there are  *)
(* lemmas about their first and their next step, and what holds of any     *)
(* text is shown by induction with the set of the sequences of which it    *)
(* holds.  An operation of a File takes a machine to a set of machines, so *)
(* there is a lemma for each about the machines it may leave.              *)
(***************************************************************************)
EXTENDS File, PathOperations, FiniteSetTheorems, SequenceTheorems,
        WellFoundedInduction, TLAPS

-----------------------------------------------------------------------------
(* Numbers, folds and sequences.                                           *)

LEMMA LeastNatural ==
  ASSUME NEW T \in SUBSET Nat, T # {}
  PROVE  \E m \in T : \A n \in T : m <= n
<1>1. PICK m \in T : \A n \in T : <<n, m>> \notin OpToRel(<, Nat)
  BY NatLessThanWellFounded, WFMin
<1>2. \A n \in T : n \in Nat /\ m \in Nat /\ ~(n < m)
  BY <1>1 DEF OpToRel
<1>3. \A n \in T : m <= n
  BY <1>2
<1>. QED
  BY <1>3

LEMMA IntervalFront ==
  ASSUME NEW n \in Nat, n # 0
  PROVE  /\ (1 .. n) \ {n} = 1 .. (n - 1) /\ n \in 1 .. n
         /\ \A s \in SUBSET (1 .. n) : n \in s => Max(s) = n
<1>1. ASSUME NEW s \in SUBSET (1 .. n), n \in s
      PROVE  Max(s) = n
  <2>1. \A y \in s : n >= y
    OBVIOUS
  <2>2. \A x \in s : (\A y \in s : x >= y) => x = n
    BY <1>1
  <2>. QED
    BY <1>1, <2>1, <2>2 DEF Max
<1>. QED
  BY <1>1


(* Induction.                                                              *)

LEMMA NatSetInduction ==
  ASSUME NEW T, 0 \in T, \A n \in Nat : n \in T => n + 1 \in T
  PROVE  Nat \subseteq T
<1> DEFINE U == Nat \ T
<1>1. SUFFICES ASSUME U # {} PROVE FALSE
  OBVIOUS
<1>2. PICK m \in U : \A n \in U : m <= n
  <2>1. U \in SUBSET Nat
    OBVIOUS
  <2>. HIDE DEF U
  <2>. QED
    BY <1>1, <2>1, LeastNatural
<1>3. m \in Nat /\ m # 0
  BY <1>2
<1>4. m - 1 \in Nat /\ (m - 1) + 1 = m /\ ~(m <= m - 1)
  BY <1>3
<1>5. m - 1 \in T
  BY <1>2, <1>4
<1>. QED
  BY <1>2, <1>4, <1>5

LEMMA SeqSetInduction ==
  ASSUME NEW S, NEW T, <<>> \in T,
         \A s \in Seq(S) : \A e \in S : s \in T => Append(s, e) \in T
  PROVE  Seq(S) \subseteq T
<1> DEFINE U == {n \in Nat : \A s \in Seq(S) : Len(s) = n => s \in T}
<1>1. 0 \in U
  <2>1. \A s \in Seq(S) : Len(s) = 0 => s = <<>>
    BY EmptySeq
  <2>. QED
    BY <2>1
<1>2. ASSUME NEW n \in Nat, n \in U PROVE n + 1 \in U
  <2>1. ASSUME NEW s \in Seq(S), Len(s) = n + 1 PROVE s \in T
    <3>1. s # <<>>
      BY <2>1, EmptySeq
    <3>2. PICK r \in Seq(S), e \in S : s = Append(r, e)
      BY <3>1, SequenceEmptyOrAppend
    <3>3. Len(r) = n
      <4>1. Len(r) \in Nat /\ Len(s) = Len(r) + 1
        BY <3>2, LenProperties, AppendProperties
      <4>. QED
        BY <2>1, <4>1
    <3>4. r \in T
      BY <1>2, <3>3
    <3>. QED
      BY <3>2, <3>4
  <2>. QED
    BY <2>1
<1>. HIDE DEF U
<1>3. Nat \subseteq U
  BY <1>1, <1>2, NatSetInduction
<1>4. ASSUME NEW s \in Seq(S) PROVE s \in T
  <2>1. Len(s) \in U
    BY <1>3, LenProperties
  <2>. QED
    BY <2>1 DEF U
<1>. QED
  BY <1>4
-----------------------------------------------------------------------------
(* Folds.                                                                  *)

\* A function on the sets of the first n numbers that takes the greatest last.
IsFold(g, F, b, n) ==
  \A s \in SUBSET (1 .. n) :
    g[s] = IF s = {} THEN b ELSE F[Max(s)][g[s \ {Max(s)}]]

LEMMA FoldExists ==
  ASSUME NEW S, NEW b \in S, NEW m \in Nat, NEW F \in [1 .. m -> [S -> S]]
  PROVE  \E g \in [SUBSET (1 .. m) -> S] : IsFold(g, F, b, m)
<1> DEFINE Good(g, n) ==
      /\ g \in [SUBSET (1 .. n) -> S]
      /\ \A s \in SUBSET (1 .. n) :
           g[s] = IF s = {} THEN b ELSE F[Max(s)][g[s \ {Max(s)}]]
    T == {n \in Nat : n <= m => \E g : Good(g, n)}
<1>1. 0 \in T
  <2> DEFINE g == [s \in SUBSET (1 .. 0) |-> b]
  <2>1. \A s \in SUBSET (1 .. 0) : s = {}
    OBVIOUS
  <2>2. Good(g, 0)
    BY <2>1
  <2>. QED
    BY <2>2
<1>2. ASSUME NEW k \in Nat, k \in T PROVE k + 1 \in T
  <2> DEFINE n == k + 1
  <2>1. n \in Nat /\ n # 0 /\ n - 1 = k
    OBVIOUS
  <2>. HIDE DEF n
  <2>2. SUFFICES ASSUME n <= m PROVE \E g : Good(g, n)
    BY <2>1 DEF n
  <2>3. k <= m /\ n \in 1 .. m
    BY <2>1, <2>2
  <2>4. PICK f : Good(f, k)
    BY <1>2, <2>3
  <2> DEFINE g == [s \in SUBSET (1 .. n) |-> IF n \in s THEN F[n][f[s \ {n}]] ELSE f[s]]
  <2>5. \A s \in SUBSET (1 .. n) :
          /\ n \in s => s \ {n} \in SUBSET (1 .. k) /\ s \ {n} \in SUBSET (1 .. n)
                        /\ Max(s) = n
          /\ n \notin s => s \in SUBSET (1 .. k)
    BY <2>1, IntervalFront
  <2>6. \A s \in SUBSET (1 .. k) : f[s] \in S
    BY <2>4
  <2>7. F[n] \in [S -> S]
    BY <2>3
  <2>8. g \in [SUBSET (1 .. n) -> S]
    BY <2>5, <2>6, <2>7
  <2>9. ASSUME NEW s \in SUBSET (1 .. n)
        PROVE  g[s] = IF s = {} THEN b ELSE F[Max(s)][g[s \ {Max(s)}]]
    <3>1. CASE n \in s
      <4>1. g[s] = F[n][f[s \ {n}]]
        BY <3>1
      <4>2. g[s \ {n}] = f[s \ {n}]
        BY <2>5, <3>1
      <4>. QED
        BY <2>5, <3>1, <4>1, <4>2
    <3>2. CASE n \notin s
      <4>1. g[s] = f[s] /\ s \in SUBSET (1 .. k)
        BY <2>5, <3>2
      <4>2. f[s] = IF s = {} THEN b ELSE F[Max(s)][f[s \ {Max(s)}]]
        BY <2>4, <4>1
      <4>3. g[s \ {Max(s)}] = f[s \ {Max(s)}]
        <5>1. s \ {Max(s)} \in SUBSET (1 .. n) /\ n \notin s \ {Max(s)}
          BY <3>2
        <5>. QED
          BY <5>1
      <4>. QED
        BY <4>1, <4>2, <4>3
    <3>. QED
      BY <3>1, <3>2
  <2>10. Good(g, n)
    BY <2>8, <2>9
  <2>. HIDE DEF g, Good
  <2>11. \E f1 : Good(f1, n)
    BY <2>10
  <2>. QED
    BY <2>11
<1>. HIDE DEF T, Good
<1>3. Nat \subseteq T
  BY <1>1, <1>2, NatSetInduction
<1>4. m \in T
  BY <1>3
<1>5. \E g : Good(g, m)
  BY <1>4 DEF T
<1>. QED
  BY <1>5 DEF Good, IsFold

\* The greatest of a set of the first n numbers.
LEMMA MaxInterval ==
  ASSUME NEW n \in Nat, NEW s \in SUBSET (1 .. n), s # {}
  PROVE  Max(s) \in s /\ \A i \in s : i <= Max(s)
<1> DEFINE Good(r) == Max(r) \in r /\ \A i \in r : i <= Max(r)
           T == {k \in Nat : \A r \in SUBSET (1 .. k) : r # {} => Good(r)}
<1>1. 0 \in T
  <2>1. \A r \in SUBSET (1 .. 0) : r = {}
    OBVIOUS
  <2>. QED
    BY <2>1
<1>2. ASSUME NEW k \in Nat, k \in T PROVE k + 1 \in T
  <2>1. k + 1 \in Nat /\ k + 1 # 0 /\ (1 .. (k + 1)) \ {k + 1} = 1 .. k
    OBVIOUS
  <2>2. ASSUME NEW r \in SUBSET (1 .. (k + 1)), r # {} PROVE Good(r)
    <3>1. CASE k + 1 \in r
      <4>1. Max(r) = k + 1
        BY <2>1, <3>1, IntervalFront
      <4>. QED
        BY <3>1, <4>1
    <3>2. CASE k + 1 \notin r
      <4>1. r \in SUBSET (1 .. k)
        BY <2>1, <3>2
      <4>. QED
        BY <1>2, <2>2, <4>1
    <3>. QED
      BY <3>1, <3>2
  <2>. QED
    BY <2>1, <2>2
<1>. HIDE DEF T
<1>3. n \in T
  BY <1>1, <1>2, NatSetInduction
<1>. QED
  BY <1>3 DEF T

\* Two runs that begin alike and go on alike.
LEMMA RunsAgree ==
  ASSUME NEW n \in Nat, NEW g, NEW h, g[0] = h[0],
         \A k \in 1 .. n : g[k - 1] = h[k - 1] => g[k] = h[k]
  PROVE  g[n] = h[n]
<1> DEFINE T == {k \in Nat : k <= n => g[k] = h[k]}
<1>1. 0 \in T
  OBVIOUS
<1>2. ASSUME NEW k \in Nat, k \in T PROVE k + 1 \in T
  <2>1. SUFFICES ASSUME k + 1 <= n PROVE g[k + 1] = h[k + 1]
    OBVIOUS
  <2>2. k + 1 \in 1 .. n /\ (k + 1) - 1 = k /\ g[k] = h[k]
    BY <1>2, <2>1
  <2>. QED
    BY <2>2
<1>. HIDE DEF T
<1>3. n \in T
  BY <1>1, <1>2, NatSetInduction
<1>. QED
  BY <1>3 DEF T
-----------------------------------------------------------------------------
(* Sequences.                                                              *)

LEMMA SingletonSeq ==
  ASSUME NEW S, NEW e \in S
  PROVE  <<e>> \in Seq(S) /\ Len(<<e>>) = 1 /\ <<e>>[1] = e /\ <<e>> # <<>>
OBVIOUS

LEMMA FrontOfAppend ==
  ASSUME NEW S, NEW s \in Seq(S), NEW e \in S
  PROVE  Front(Append(s, e)) = s /\ Last(Append(s, e)) = e
<1> DEFINE t == Append(s, e)
           n == Len(s)
           f == SubSeq(t, 1, n)
<1>1. /\ t \in Seq(S) /\ Len(t) = n + 1 /\ t[n + 1] = e /\ n \in Nat
      /\ \A i \in 1 .. n : t[i] = s[i] /\ s[i] \in S
  BY AppendProperties, LenProperties
<1>2. Last(t) = e /\ Front(t) = f
  <2>. HIDE DEF t, n
  <2>1. (n + 1) - 1 = n
    BY <1>1
  <2>. QED
    BY <1>1, <2>1 DEF Last, Front
<1>. HIDE DEF t, n
<1>3. f \in Seq(S) /\ Len(f) = n /\ \A i \in 1 .. n : f[i] = s[i]
  <2>1. 1 \in Int /\ n \in Int /\ \A i \in 1 .. n : t[i] \in S
    BY <1>1
  <2>2. /\ f \in Seq(S)
        /\ Len(f) = IF 1 <= n THEN n - 1 + 1 ELSE 0
        /\ \A i \in 1 .. n - 1 + 1 : f[i] = t[1 + i - 1]
    BY <2>1, SubSeqProperties
  <2>. QED
    BY <1>1, <2>2
<1>4. f = s
  BY <1>3, SeqEqual DEF n
<1>. QED
  BY <1>2, <1>4 DEF t

\* A sequence that is not empty is its front and its last element.
LEMMA FrontAndLast ==
  ASSUME NEW S, NEW s \in Seq(S), s # <<>>
  PROVE  /\ Front(s) \in Seq(S)
         /\ Last(s) \in S
         /\ Append(Front(s), Last(s)) = s
<1>1. PICK r \in Seq(S), e \in S : s = Append(r, e)
  BY SequenceEmptyOrAppend
<1>2. Front(s) = r /\ Last(s) = e
  BY <1>1, FrontOfAppend
<1>. QED
  BY <1>1, <1>2
-----------------------------------------------------------------------------
(* Splitting.                                                              *)

NamesWithout(S) == Seq(Characters \ S) \ {<<>>}

\* Split, taken apart.
NoNames == [names |-> <<>>, name |-> <<>>]
NamesOf(s) == IF s.name = <<>> THEN s.names ELSE Append(s.names, s.name)
AddTo(S, s, c) ==
  IF c \in S THEN [names |-> NamesOf(s), name |-> <<>>]
  ELSE [s EXCEPT !.name = Append(@, c)]
SplitUp(t, S) == FoldLeft(LAMBDA s, c : AddTo(S, s, c), NoNames, t)
Splits(S) == [names : Seq(NamesWithout(S)), name : Seq(Characters \ S)]

LEMMA SplitIs == \A t, S : Split(t, S) = NamesOf(SplitUp(t, S))
BY DEF Split, SplitUp, NamesOf, AddTo, NoNames, FoldLeft, MapThenFoldSet

LEMMA NamesOfTypes ==
  ASSUME NEW S, NEW s \in Splits(S)
  PROVE  NamesOf(s) \in Seq(NamesWithout(S))
BY AppendProperties DEF Splits, NamesOf, NamesWithout

LEMMA AddToTypes ==
  ASSUME NEW S, NEW s \in Splits(S), NEW c \in Characters
  PROVE  AddTo(S, s, c) \in Splits(S)
<1>1. <<>> \in Seq(Characters \ S)
  BY EmptySeq
<1>2. CASE c \in S
  <2>1. AddTo(S, s, c) = [names |-> NamesOf(s), name |-> <<>>]
    BY <1>2 DEF AddTo
  <2>. QED
    BY <1>1, <2>1, NamesOfTypes DEF Splits
<1>3. CASE c \notin S
  <2>1. AddTo(S, s, c) = [names |-> s.names, name |-> Append(s.name, c)]
    BY <1>3 DEF AddTo, Splits
  <2>2. Append(s.name, c) \in Seq(Characters \ S)
    BY <1>3, AppendProperties DEF Splits
  <2>. QED
    BY <2>1, <2>2 DEF Splits
<1>. QED
  BY <1>2, <1>3

LEMMA NoNamesTypes == \A S : NoNames \in Splits(S)
BY EmptySeq DEF NoNames, Splits

LEMMA SplitRun ==
  ASSUME NEW S, NEW t \in Seq(Characters)
  PROVE  \E h : /\ h[0] = NoNames
                /\ \A k \in 1 .. Len(t) : h[k] = AddTo(S, h[k - 1], t[k])
                /\ h[Len(t)] = SplitUp(t, S)
<1> DEFINE n == Len(t)
           F == [i \in 1 .. n |-> [x \in Splits(S) |-> AddTo(S, x, t[i])]]
           Folds(g) == g = [s \in SUBSET (1 .. n) |->
                              IF s = {} THEN NoNames
                              ELSE AddTo(S, g[s \ {Max(s)}], t[Max(s)])]
           f == CHOOSE g : Folds(g)
           h == [k \in 0 .. n |-> f[1 .. k]]
<1>1. n \in Nat /\ DOMAIN t = 1 .. n /\ \A i \in 1 .. n : t[i] \in Characters
  BY LenProperties
<1>2. SplitUp(t, S) = f[1 .. n]
  BY <1>1 DEF SplitUp, FoldLeft, MapThenFoldSet
<1>. HIDE DEF n
<1>3. F \in [1 .. n -> [Splits(S) -> Splits(S)]]
  BY <1>1, AddToTypes
<1>. HIDE DEF F
<1>4. PICK g \in [SUBSET (1 .. n) -> Splits(S)] : IsFold(g, F, NoNames, n)
  <2>1. n \in Nat /\ NoNames \in Splits(S)
    BY <1>1, NoNamesTypes
  <2>. HIDE DEF h, f, Folds
  <2>. QED
    BY <1>3, <2>1, FoldExists
<1>5. ASSUME NEW s \in SUBSET (1 .. n), s # {}
      PROVE  g[s] = AddTo(S, g[s \ {Max(s)}], t[Max(s)])
  <2>1. Max(s) \in 1 .. n /\ s \ {Max(s)} \in SUBSET (1 .. n)
    BY <1>1, <1>5, MaxInterval
  <2>. QED
    BY <1>4, <1>5, <2>1 DEF F, IsFold
<1>6. Folds(g)
  BY <1>4, <1>5 DEF IsFold
<1>. HIDE DEF Folds
<1>7. Folds(f)
  BY <1>6
<1>. HIDE DEF f
<1>8. \A s \in SUBSET (1 .. n) :
        f[s] = IF s = {} THEN NoNames
               ELSE AddTo(S, f[s \ {Max(s)}], t[Max(s)])
  BY <1>7 DEF Folds
<1>9. f[1 .. 0] = NoNames
  <2>1. {} \in SUBSET (1 .. n) /\ 1 .. 0 = {}
    OBVIOUS
  <2>. QED
    BY <1>8, <2>1
<1>10. ASSUME NEW k \in 1 .. n PROVE f[1 .. k] = AddTo(S, f[1 .. (k - 1)], t[k])
  <2>1. k \in Nat /\ k # 0 /\ 1 .. k \in SUBSET (1 .. n)
    BY <1>1
  <2>. DEFINE s == 1 .. k
  <2>2. s \in SUBSET (1 .. k) /\ k \in s /\ s # {} /\ s \ {k} = 1 .. (k - 1)
    BY <2>1, IntervalFront
  <2>. HIDE DEF s
  <2>3. Max(s) = k
    BY <2>1, <2>2, IntervalFront
  <2>. QED
    BY <1>8, <2>1, <2>2, <2>3 DEF s
<1>11. h[0] = NoNames /\ h[n] = f[1 .. n]
       /\ \A k \in 1 .. n : h[k] = AddTo(S, h[k - 1], t[k])
  BY <1>1, <1>9, <1>10
<1>. HIDE DEF h
<1>. QED
  BY <1>2, <1>11 DEF n

LEMMA SplitSteps ==
  ASSUME NEW S
  PROVE  /\ SplitUp(<<>>, S) = NoNames
         /\ \A t \in Seq(Characters), c \in Characters :
              SplitUp(Append(t, c), S) = AddTo(S, SplitUp(t, S), c)
         /\ \A t \in Seq(Characters) : SplitUp(t, S) \in Splits(S)
<1>1. SplitUp(<<>>, S) = NoNames
  <2>1. <<>> \in Seq(Characters) /\ Len(<<>>) = 0
    BY EmptySeq
  <2>2. PICK h : h[0] = NoNames /\ h[Len(<<>>)] = SplitUp(<<>>, S)
    BY <2>1, SplitRun
  <2>. QED
    BY <2>1, <2>2
<1>2. ASSUME NEW t \in Seq(Characters), NEW c \in Characters
      PROVE  SplitUp(Append(t, c), S) = AddTo(S, SplitUp(t, S), c)
  <2> DEFINE u == Append(t, c)
             n == Len(t)
  <2>1. u \in Seq(Characters) /\ n \in Nat /\ Len(u) = n + 1 /\ u[n + 1] = c
        /\ \A k \in 1 .. n : u[k] = t[k]
    BY AppendProperties, LenProperties
  <2>. HIDE DEF n, u
  <2>2. PICK h : /\ h[0] = NoNames
                 /\ \A k \in 1 .. n : h[k] = AddTo(S, h[k - 1], t[k])
                 /\ h[n] = SplitUp(t, S)
    BY SplitRun DEF n
  <2>3. PICK g : /\ g[0] = NoNames
                 /\ \A k \in 1 .. (n + 1) : g[k] = AddTo(S, g[k - 1], u[k])
                 /\ g[n + 1] = SplitUp(u, S)
    BY <2>1, SplitRun
  <2>4. g[n] = h[n]
    <3>1. \A k \in 1 .. n : g[k - 1] = h[k - 1] => g[k] = h[k]
      BY <2>1, <2>2, <2>3
    <3>. QED
      BY <2>1, <2>2, <2>3, <3>1, RunsAgree
  <2>5. n + 1 \in 1 .. (n + 1) /\ (n + 1) - 1 = n
    BY <2>1
  <2>. QED
    BY <2>1, <2>2, <2>3, <2>4, <2>5 DEF u
<1>3. \A t \in Seq(Characters) : SplitUp(t, S) \in Splits(S)
  <2> DEFINE T == {t \in Seq(Characters) : SplitUp(t, S) \in Splits(S)}
  <2>1. <<>> \in T
    BY <1>1, EmptySeq, NoNamesTypes
  <2>2. ASSUME NEW u \in Seq(Characters), NEW c \in Characters, u \in T
        PROVE  Append(u, c) \in T
    BY <1>2, <2>2, AppendProperties, AddToTypes
  <2>. HIDE DEF T
  <2>3. Seq(Characters) \subseteq T
    BY <2>1, <2>2, SeqSetInduction
  <2>. QED
    BY <2>3 DEF T
<1>. QED
  BY <1>1, <1>2, <1>3
-----------------------------------------------------------------------------
(* Resolving, putting together, walking.                                   *)

Names == NamesWithout(Separators)

Resolved(absolute, N) ==
  FoldLeft(LAMBDA names, name : Resolve(absolute, names, name), <<>>, N)

LEMMA NormalizedIs ==
  \A t : Normalized(t) =
         Concatenated(IsAbsolute(t), Resolved(IsAbsolute(t), Split(t, Separators)))
BY DEF Normalized, Resolved, FoldLeft, MapThenFoldSet

LEMMA ResolveTypes ==
  ASSUME NEW absolute, NEW names \in Seq(Names), NEW name \in Names
  PROVE  Resolve(absolute, names, name) \in Seq(Names)
BY AppendProperties, FrontAndLast DEF Resolve

LEMMA ResolvedRun ==
  ASSUME NEW absolute, NEW N \in Seq(Names)
  PROVE  \E h : /\ h[0] = <<>>
                /\ \A k \in 1 .. Len(N) : h[k] = Resolve(absolute, h[k - 1], N[k])
                /\ h[Len(N)] = Resolved(absolute, N)
<1> DEFINE n == Len(N)
           F == [i \in 1 .. n |-> [x \in Seq(Names) |-> Resolve(absolute, x, N[i])]]
           Folds(g) == g = [s \in SUBSET (1 .. n) |->
                              IF s = {} THEN <<>>
                              ELSE Resolve(absolute, g[s \ {Max(s)}], N[Max(s)])]
           f == CHOOSE g : Folds(g)
           h == [k \in 0 .. n |-> f[1 .. k]]
<1>1. n \in Nat /\ DOMAIN N = 1 .. n /\ \A i \in 1 .. n : N[i] \in Names
  BY LenProperties
<1>2. Resolved(absolute, N) = f[1 .. n]
  BY <1>1 DEF Resolved, FoldLeft, MapThenFoldSet
<1>. HIDE DEF n
<1>3. F \in [1 .. n -> [Seq(Names) -> Seq(Names)]]
  BY <1>1, ResolveTypes
<1>. HIDE DEF F
<1>4. PICK g \in [SUBSET (1 .. n) -> Seq(Names)] : IsFold(g, F, <<>>, n)
  <2>1. n \in Nat /\ <<>> \in Seq(Names)
    BY <1>1, EmptySeq
  <2>. HIDE DEF h, f, Folds
  <2>. QED
    BY <1>3, <2>1, FoldExists
<1>5. ASSUME NEW s \in SUBSET (1 .. n), s # {}
      PROVE  g[s] = Resolve(absolute, g[s \ {Max(s)}], N[Max(s)])
  <2>1. Max(s) \in 1 .. n /\ s \ {Max(s)} \in SUBSET (1 .. n)
    BY <1>1, <1>5, MaxInterval
  <2>. QED
    BY <1>4, <1>5, <2>1 DEF F, IsFold
<1>6. Folds(g)
  BY <1>4, <1>5 DEF IsFold
<1>. HIDE DEF Folds
<1>7. Folds(f)
  BY <1>6
<1>. HIDE DEF f
<1>8. \A s \in SUBSET (1 .. n) :
        f[s] = IF s = {} THEN <<>>
               ELSE Resolve(absolute, f[s \ {Max(s)}], N[Max(s)])
  BY <1>7 DEF Folds
<1>9. f[1 .. 0] = <<>>
  <2>1. {} \in SUBSET (1 .. n) /\ 1 .. 0 = {}
    OBVIOUS
  <2>. QED
    BY <1>8, <2>1
<1>10. ASSUME NEW k \in 1 .. n PROVE f[1 .. k] = Resolve(absolute, f[1 .. (k - 1)], N[k])
  <2>1. k \in Nat /\ k # 0 /\ 1 .. k \in SUBSET (1 .. n)
    BY <1>1
  <2>. DEFINE s == 1 .. k
  <2>2. s \in SUBSET (1 .. k) /\ k \in s /\ s # {} /\ s \ {k} = 1 .. (k - 1)
    BY <2>1, IntervalFront
  <2>. HIDE DEF s
  <2>3. Max(s) = k
    BY <2>1, <2>2, IntervalFront
  <2>. QED
    BY <1>8, <2>1, <2>2, <2>3 DEF s
<1>11. h[0] = <<>> /\ h[n] = f[1 .. n]
       /\ \A k \in 1 .. n : h[k] = Resolve(absolute, h[k - 1], N[k])
  BY <1>1, <1>9, <1>10
<1>. HIDE DEF h
<1>. QED
  BY <1>2, <1>11 DEF n

LEMMA ResolvedSteps ==
  ASSUME NEW absolute
  PROVE  /\ Resolved(absolute, <<>>) = <<>>
         /\ \A N \in Seq(Names), c \in Names :
              Resolved(absolute, Append(N, c)) = Resolve(absolute, Resolved(absolute, N), c)
         /\ \A N \in Seq(Names) : Resolved(absolute, N) \in Seq(Names)
<1>1. Resolved(absolute, <<>>) = <<>>
  <2>1. <<>> \in Seq(Names) /\ Len(<<>>) = 0
    BY EmptySeq
  <2>2. PICK h : h[0] = <<>> /\ h[Len(<<>>)] = Resolved(absolute, <<>>)
    BY <2>1, ResolvedRun
  <2>. QED
    BY <2>1, <2>2
<1>2. ASSUME NEW N \in Seq(Names), NEW c \in Names
      PROVE  Resolved(absolute, Append(N, c)) = Resolve(absolute, Resolved(absolute, N), c)
  <2> DEFINE u == Append(N, c)
             n == Len(N)
  <2>1. u \in Seq(Names) /\ n \in Nat /\ Len(u) = n + 1 /\ u[n + 1] = c
        /\ \A k \in 1 .. n : u[k] = N[k]
    BY AppendProperties, LenProperties
  <2>. HIDE DEF n, u
  <2>2. PICK h : /\ h[0] = <<>>
                 /\ \A k \in 1 .. n : h[k] = Resolve(absolute, h[k - 1], N[k])
                 /\ h[n] = Resolved(absolute, N)
    BY ResolvedRun DEF n
  <2>3. PICK g : /\ g[0] = <<>>
                 /\ \A k \in 1 .. (n + 1) : g[k] = Resolve(absolute, g[k - 1], u[k])
                 /\ g[n + 1] = Resolved(absolute, u)
    BY <2>1, ResolvedRun
  <2>4. g[n] = h[n]
    <3>1. \A k \in 1 .. n : g[k - 1] = h[k - 1] => g[k] = h[k]
      BY <2>1, <2>2, <2>3
    <3>. QED
      BY <2>1, <2>2, <2>3, <3>1, RunsAgree
  <2>5. n + 1 \in 1 .. (n + 1) /\ (n + 1) - 1 = n
    BY <2>1
  <2>. QED
    BY <2>1, <2>2, <2>3, <2>4, <2>5 DEF u
<1>3. \A N \in Seq(Names) : Resolved(absolute, N) \in Seq(Names)
  <2> DEFINE T == {N \in Seq(Names) : Resolved(absolute, N) \in Seq(Names)}
  <2>1. <<>> \in T
    BY <1>1, EmptySeq, EmptySeq
  <2>2. ASSUME NEW u \in Seq(Names), NEW c \in Names, u \in T
        PROVE  Append(u, c) \in T
    BY <1>2, <2>2, AppendProperties, ResolveTypes
  <2>. HIDE DEF T
  <2>3. Seq(Names) \subseteq T
    BY <2>1, <2>2, SeqSetInduction
  <2>. QED
    BY <2>3 DEF T
<1>. QED
  BY <1>1, <1>2, <1>3

First(absolute) == IF absolute THEN <<Backslash>> ELSE <<>>
AddName(text, name) ==
  IF text = <<>> \/ Last(text) = Backslash
  THEN text \o name
  ELSE text \o <<Backslash>> \o name

LEMMA FirstTypes == \A absolute : First(absolute) \in Seq(Characters)
BY EmptySeq, SingletonSeq DEF First, Characters, Separators

LEMMA AddNameTypes ==
  ASSUME NEW text \in Seq(Characters), NEW name \in Names
  PROVE  AddName(text, name) \in Seq(Characters)
<1>1. name \in Seq(Characters) /\ <<Backslash>> \in Seq(Characters)
  BY SeqMonotonic, SingletonSeq DEF Names, NamesWithout, Characters, Separators
<1>. QED
  BY <1>1, ConcatProperties DEF AddName

LEMMA ConcatenatedRun ==
  ASSUME NEW absolute, NEW N \in Seq(Names)
  PROVE  \E h : /\ h[0] = First(absolute)
                /\ \A k \in 1 .. Len(N) : h[k] = AddName(h[k - 1], N[k])
                /\ h[Len(N)] = Concatenated(absolute, N)
<1> DEFINE n == Len(N)
           F == [i \in 1 .. n |-> [x \in Seq(Characters) |-> AddName(x, N[i])]]
           Folds(g) == g = [s \in SUBSET (1 .. n) |->
                              IF s = {} THEN First(absolute)
                              ELSE AddName(g[s \ {Max(s)}], N[Max(s)])]
           f == CHOOSE g : Folds(g)
           h == [k \in 0 .. n |-> f[1 .. k]]
<1>1. n \in Nat /\ DOMAIN N = 1 .. n /\ \A i \in 1 .. n : N[i] \in Names
  BY LenProperties
<1>2. Concatenated(absolute, N) = f[1 .. n]
  BY <1>1 DEF Concatenated, AddName, First, FoldLeft, MapThenFoldSet
<1>. HIDE DEF n
<1>3. F \in [1 .. n -> [Seq(Characters) -> Seq(Characters)]]
  BY <1>1, AddNameTypes
<1>. HIDE DEF F
<1>4. PICK g \in [SUBSET (1 .. n) -> Seq(Characters)] : IsFold(g, F, First(absolute), n)
  <2>1. n \in Nat /\ First(absolute) \in Seq(Characters)
    BY <1>1, FirstTypes
  <2>. HIDE DEF h, f, Folds
  <2>. QED
    BY <1>3, <2>1, FoldExists
<1>5. ASSUME NEW s \in SUBSET (1 .. n), s # {}
      PROVE  g[s] = AddName(g[s \ {Max(s)}], N[Max(s)])
  <2>1. Max(s) \in 1 .. n /\ s \ {Max(s)} \in SUBSET (1 .. n)
    BY <1>1, <1>5, MaxInterval
  <2>. QED
    BY <1>4, <1>5, <2>1 DEF F, IsFold
<1>6. Folds(g)
  BY <1>4, <1>5 DEF IsFold
<1>. HIDE DEF Folds
<1>7. Folds(f)
  BY <1>6
<1>. HIDE DEF f
<1>8. \A s \in SUBSET (1 .. n) :
        f[s] = IF s = {} THEN First(absolute)
               ELSE AddName(f[s \ {Max(s)}], N[Max(s)])
  BY <1>7 DEF Folds
<1>9. f[1 .. 0] = First(absolute)
  <2>1. {} \in SUBSET (1 .. n) /\ 1 .. 0 = {}
    OBVIOUS
  <2>. QED
    BY <1>8, <2>1
<1>10. ASSUME NEW k \in 1 .. n PROVE f[1 .. k] = AddName(f[1 .. (k - 1)], N[k])
  <2>1. k \in Nat /\ k # 0 /\ 1 .. k \in SUBSET (1 .. n)
    BY <1>1
  <2>. DEFINE s == 1 .. k
  <2>2. s \in SUBSET (1 .. k) /\ k \in s /\ s # {} /\ s \ {k} = 1 .. (k - 1)
    BY <2>1, IntervalFront
  <2>. HIDE DEF s
  <2>3. Max(s) = k
    BY <2>1, <2>2, IntervalFront
  <2>. QED
    BY <1>8, <2>1, <2>2, <2>3 DEF s
<1>11. h[0] = First(absolute) /\ h[n] = f[1 .. n]
       /\ \A k \in 1 .. n : h[k] = AddName(h[k - 1], N[k])
  BY <1>1, <1>9, <1>10
<1>. HIDE DEF h
<1>. QED
  BY <1>2, <1>11 DEF n

LEMMA ConcatenatedSteps ==
  ASSUME NEW absolute
  PROVE  /\ Concatenated(absolute, <<>>) = First(absolute)
         /\ \A N \in Seq(Names), c \in Names :
              Concatenated(absolute, Append(N, c)) = AddName(Concatenated(absolute, N), c)
         /\ \A N \in Seq(Names) : Concatenated(absolute, N) \in Seq(Characters)
<1>1. Concatenated(absolute, <<>>) = First(absolute)
  <2>1. <<>> \in Seq(Names) /\ Len(<<>>) = 0
    BY EmptySeq
  <2>2. PICK h : h[0] = First(absolute) /\ h[Len(<<>>)] = Concatenated(absolute, <<>>)
    BY <2>1, ConcatenatedRun
  <2>. QED
    BY <2>1, <2>2
<1>2. ASSUME NEW N \in Seq(Names), NEW c \in Names
      PROVE  Concatenated(absolute, Append(N, c)) = AddName(Concatenated(absolute, N), c)
  <2> DEFINE u == Append(N, c)
             n == Len(N)
  <2>1. u \in Seq(Names) /\ n \in Nat /\ Len(u) = n + 1 /\ u[n + 1] = c
        /\ \A k \in 1 .. n : u[k] = N[k]
    BY AppendProperties, LenProperties
  <2>. HIDE DEF n, u
  <2>2. PICK h : /\ h[0] = First(absolute)
                 /\ \A k \in 1 .. n : h[k] = AddName(h[k - 1], N[k])
                 /\ h[n] = Concatenated(absolute, N)
    BY ConcatenatedRun DEF n
  <2>3. PICK g : /\ g[0] = First(absolute)
                 /\ \A k \in 1 .. (n + 1) : g[k] = AddName(g[k - 1], u[k])
                 /\ g[n + 1] = Concatenated(absolute, u)
    BY <2>1, ConcatenatedRun
  <2>4. g[n] = h[n]
    <3>1. \A k \in 1 .. n : g[k - 1] = h[k - 1] => g[k] = h[k]
      BY <2>1, <2>2, <2>3
    <3>. QED
      BY <2>1, <2>2, <2>3, <3>1, RunsAgree
  <2>5. n + 1 \in 1 .. (n + 1) /\ (n + 1) - 1 = n
    BY <2>1
  <2>. QED
    BY <2>1, <2>2, <2>3, <2>4, <2>5 DEF u
<1>3. \A N \in Seq(Names) : Concatenated(absolute, N) \in Seq(Characters)
  <2> DEFINE T == {N \in Seq(Names) : Concatenated(absolute, N) \in Seq(Characters)}
  <2>1. <<>> \in T
    BY <1>1, EmptySeq, FirstTypes
  <2>2. ASSUME NEW u \in Seq(Names), NEW c \in Names, u \in T
        PROVE  Append(u, c) \in T
    BY <1>2, <2>2, AppendProperties, AddNameTypes
  <2>. HIDE DEF T
  <2>3. Seq(Names) \subseteq T
    BY <2>1, <2>2, SeqSetInduction
  <2>. QED
    BY <2>3 DEF T
<1>. QED
  BY <1>1, <1>2, <1>3

Places == [above : Nat, names : Seq(Names)]
Start == [above |-> 0, names |-> <<>>]
WalkOn(absolute, place, name) ==
  CASE name = Here -> place
    [] name = Up /\ place.names # <<>> -> [place EXCEPT !.names = Front(@)]
    [] name = Up /\ place.names = <<>> ->
         IF absolute THEN place ELSE [place EXCEPT !.above = @ + 1]
    [] OTHER -> [place EXCEPT !.names = Append(@, name)]
Walked(absolute, N) ==
  FoldLeft(LAMBDA place, name : WalkOn(absolute, place, name), Start, N)

LEMMA MeaningIs == \A t : Meaning(t) = Walked(IsAbsolute(t), Split(t, Separators))
BY DEF Meaning, Walked, WalkOn, Start, FoldLeft, MapThenFoldSet

LEMMA StartTypes == Start \in Places
BY EmptySeq DEF Start, Places

LEMMA WalkOnTypes ==
  ASSUME NEW absolute, NEW place \in Places, NEW name \in Names
  PROVE  WalkOn(absolute, place, name) \in Places
<1>1. place.names # <<>> => Front(place.names) \in Seq(Names)
  BY FrontAndLast DEF Places
<1>2. Append(place.names, name) \in Seq(Names)
  BY AppendProperties DEF Places
<1>. QED
  BY <1>1, <1>2 DEF WalkOn, Places

LEMMA WalkedRun ==
  ASSUME NEW absolute, NEW N \in Seq(Names)
  PROVE  \E h : /\ h[0] = Start
                /\ \A k \in 1 .. Len(N) : h[k] = WalkOn(absolute, h[k - 1], N[k])
                /\ h[Len(N)] = Walked(absolute, N)
<1> DEFINE n == Len(N)
           F == [i \in 1 .. n |-> [x \in Places |-> WalkOn(absolute, x, N[i])]]
           Folds(g) == g = [s \in SUBSET (1 .. n) |->
                              IF s = {} THEN Start
                              ELSE WalkOn(absolute, g[s \ {Max(s)}], N[Max(s)])]
           f == CHOOSE g : Folds(g)
           h == [k \in 0 .. n |-> f[1 .. k]]
<1>1. n \in Nat /\ DOMAIN N = 1 .. n /\ \A i \in 1 .. n : N[i] \in Names
  BY LenProperties
<1>2. Walked(absolute, N) = f[1 .. n]
  BY <1>1 DEF Walked, FoldLeft, MapThenFoldSet
<1>. HIDE DEF n
<1>3. F \in [1 .. n -> [Places -> Places]]
  BY <1>1, WalkOnTypes
<1>. HIDE DEF F
<1>4. PICK g \in [SUBSET (1 .. n) -> Places] : IsFold(g, F, Start, n)
  <2>1. n \in Nat /\ Start \in Places
    BY <1>1, StartTypes
  <2>. HIDE DEF h, f, Folds
  <2>. QED
    BY <1>3, <2>1, FoldExists
<1>5. ASSUME NEW s \in SUBSET (1 .. n), s # {}
      PROVE  g[s] = WalkOn(absolute, g[s \ {Max(s)}], N[Max(s)])
  <2>1. Max(s) \in 1 .. n /\ s \ {Max(s)} \in SUBSET (1 .. n)
    BY <1>1, <1>5, MaxInterval
  <2>. QED
    BY <1>4, <1>5, <2>1 DEF F, IsFold
<1>6. Folds(g)
  BY <1>4, <1>5 DEF IsFold
<1>. HIDE DEF Folds
<1>7. Folds(f)
  BY <1>6
<1>. HIDE DEF f
<1>8. \A s \in SUBSET (1 .. n) :
        f[s] = IF s = {} THEN Start
               ELSE WalkOn(absolute, f[s \ {Max(s)}], N[Max(s)])
  BY <1>7 DEF Folds
<1>9. f[1 .. 0] = Start
  <2>1. {} \in SUBSET (1 .. n) /\ 1 .. 0 = {}
    OBVIOUS
  <2>. QED
    BY <1>8, <2>1
<1>10. ASSUME NEW k \in 1 .. n PROVE f[1 .. k] = WalkOn(absolute, f[1 .. (k - 1)], N[k])
  <2>1. k \in Nat /\ k # 0 /\ 1 .. k \in SUBSET (1 .. n)
    BY <1>1
  <2>. DEFINE s == 1 .. k
  <2>2. s \in SUBSET (1 .. k) /\ k \in s /\ s # {} /\ s \ {k} = 1 .. (k - 1)
    BY <2>1, IntervalFront
  <2>. HIDE DEF s
  <2>3. Max(s) = k
    BY <2>1, <2>2, IntervalFront
  <2>. QED
    BY <1>8, <2>1, <2>2, <2>3 DEF s
<1>11. h[0] = Start /\ h[n] = f[1 .. n]
       /\ \A k \in 1 .. n : h[k] = WalkOn(absolute, h[k - 1], N[k])
  BY <1>1, <1>9, <1>10
<1>. HIDE DEF h
<1>. QED
  BY <1>2, <1>11 DEF n

LEMMA WalkedSteps ==
  ASSUME NEW absolute
  PROVE  /\ Walked(absolute, <<>>) = Start
         /\ \A N \in Seq(Names), c \in Names :
              Walked(absolute, Append(N, c)) = WalkOn(absolute, Walked(absolute, N), c)
         /\ \A N \in Seq(Names) : Walked(absolute, N) \in Places
<1>1. Walked(absolute, <<>>) = Start
  <2>1. <<>> \in Seq(Names) /\ Len(<<>>) = 0
    BY EmptySeq
  <2>2. PICK h : h[0] = Start /\ h[Len(<<>>)] = Walked(absolute, <<>>)
    BY <2>1, WalkedRun
  <2>. QED
    BY <2>1, <2>2
<1>2. ASSUME NEW N \in Seq(Names), NEW c \in Names
      PROVE  Walked(absolute, Append(N, c)) = WalkOn(absolute, Walked(absolute, N), c)
  <2> DEFINE u == Append(N, c)
             n == Len(N)
  <2>1. u \in Seq(Names) /\ n \in Nat /\ Len(u) = n + 1 /\ u[n + 1] = c
        /\ \A k \in 1 .. n : u[k] = N[k]
    BY AppendProperties, LenProperties
  <2>. HIDE DEF n, u
  <2>2. PICK h : /\ h[0] = Start
                 /\ \A k \in 1 .. n : h[k] = WalkOn(absolute, h[k - 1], N[k])
                 /\ h[n] = Walked(absolute, N)
    BY WalkedRun DEF n
  <2>3. PICK g : /\ g[0] = Start
                 /\ \A k \in 1 .. (n + 1) : g[k] = WalkOn(absolute, g[k - 1], u[k])
                 /\ g[n + 1] = Walked(absolute, u)
    BY <2>1, WalkedRun
  <2>4. g[n] = h[n]
    <3>1. \A k \in 1 .. n : g[k - 1] = h[k - 1] => g[k] = h[k]
      BY <2>1, <2>2, <2>3
    <3>. QED
      BY <2>1, <2>2, <2>3, <3>1, RunsAgree
  <2>5. n + 1 \in 1 .. (n + 1) /\ (n + 1) - 1 = n
    BY <2>1
  <2>. QED
    BY <2>1, <2>2, <2>3, <2>4, <2>5 DEF u
<1>3. \A N \in Seq(Names) : Walked(absolute, N) \in Places
  <2> DEFINE T == {N \in Seq(Names) : Walked(absolute, N) \in Places}
  <2>1. <<>> \in T
    BY <1>1, EmptySeq, StartTypes
  <2>2. ASSUME NEW u \in Seq(Names), NEW c \in Names, u \in T
        PROVE  Append(u, c) \in T
    BY <1>2, <2>2, AppendProperties, WalkOnTypes
  <2>. HIDE DEF T
  <2>3. Seq(Names) \subseteq T
    BY <2>1, <2>2, SeqSetInduction
  <2>. QED
    BY <2>3 DEF T
<1>. QED
  BY <1>1, <1>2, <1>3
-----------------------------------------------------------------------------
(* Texts and their names.                                                  *)

LEMMA CharactersDiffer == Backslash # Slash /\ Backslash # Dot /\ Slash # Dot
BY DEF Backslash, Slash, Dot

LEMMA ConcatAppend ==
  ASSUME NEW S, NEW s \in Seq(S), NEW t \in Seq(S), NEW e \in S
  PROVE  s \o Append(t, e) = Append(s \o t, e)
<1>1. <<e>> \in Seq(S)
  BY SingletonSeq
<1>2. s \o (t \o <<e>>) = (s \o t) \o <<e>>
  BY <1>1, ConcatAssociative
<1>3. s \o t \in Seq(S)
  BY ConcatProperties
<1>. QED
  BY <1>2, <1>3, AppendIsConcat

\* What a text begins and ends with.
LEMMA Ends ==
  ASSUME NEW S, NEW s \in Seq(S), NEW t \in Seq(S), t # <<>>
  PROVE  /\ s \o t \in Seq(S)
         /\ s \o t # <<>>
         /\ Last(s \o t) = Last(t)
         /\ Head(s \o t) = IF s = <<>> THEN Head(t) ELSE Head(s)
<1>1. /\ Len(s) \in Nat /\ Len(t) \in Nat /\ Len(t) # 0
      /\ s = <<>> <=> Len(s) = 0
  BY LenProperties, EmptySeq
<1>2. /\ s \o t \in Seq(S) /\ Len(s \o t) = Len(s) + Len(t)
      /\ \A i \in 1 .. Len(s) + Len(t) :
           (s \o t)[i] = IF i <= Len(s) THEN s[i] ELSE t[i - Len(s)]
  BY ConcatProperties
<1>3. Len(s \o t) # 0 /\ s \o t # <<>>
  BY <1>1, <1>2, EmptySeq
<1>4. Last(s \o t) = Last(t)
  <2>1. /\ Len(s) + Len(t) \in 1 .. Len(s) + Len(t)
        /\ ~(Len(s) + Len(t) <= Len(s))
        /\ (Len(s) + Len(t)) - Len(s) = Len(t)
    BY <1>1
  <2>. QED
    BY <1>2, <2>1 DEF Last
<1>5. Head(s \o t) = IF s = <<>> THEN Head(t) ELSE Head(s)
  <2>1. Head(s \o t) = (s \o t)[1] /\ Head(t) = t[1] /\ Head(s) = s[1]
    OBVIOUS
  <2>2. 1 \in 1 .. Len(s) + Len(t) /\ (s # <<>> => 1 <= Len(s))
        /\ (s = <<>> => ~(1 <= Len(s)) /\ 1 - Len(s) = 1)
    BY <1>1
  <2>. QED
    BY <1>2, <2>1, <2>2
<1>. QED
  BY <1>2, <1>3, <1>4, <1>5

LEMMA NameEnds ==
  ASSUME NEW name \in Names
  PROVE  /\ name \in Seq(Characters) /\ name # <<>>
         /\ Head(name) # Backslash /\ Last(name) # Backslash
<1>1. name \in Seq(Characters \ Separators) /\ name # <<>>
  BY DEF Names, NamesWithout
<1>2. Head(name) \in Characters \ Separators /\ Last(name) \in Characters \ Separators
  BY <1>1, HeadTailProperties, FrontAndLast
<1>3. name \in Seq(Characters)
  BY <1>1, SeqMonotonic
<1>. QED
  BY <1>1, <1>2, <1>3 DEF Separators

\* Characters that separate nothing lengthen the running name.
LEMMA SplitPlain ==
  ASSUME NEW S, NEW t \in Seq(Characters), NEW w \in Seq(Characters \ S)
  PROVE  SplitUp(t \o w, S) =
           [names |-> SplitUp(t, S).names, name |-> SplitUp(t, S).name \o w]
<1> DEFINE u == SplitUp(t, S)
           T == {v \in Seq(Characters \ S) :
                   SplitUp(t \o v, S) = [names |-> u.names, name |-> u.name \o v]}
<1>1. u \in Splits(S) /\ u.name \in Seq(Characters \ S)
      /\ u = [names |-> u.names, name |-> u.name]
  BY SplitSteps DEF Splits
<1>2. <<>> \in T
  <2>1. t \o <<>> = t /\ u.name \o <<>> = u.name
    BY <1>1, ConcatEmptySeq
  <2>. QED
    BY <1>1, <2>1, EmptySeq
<1>3. ASSUME NEW v \in Seq(Characters \ S), NEW c \in Characters \ S, v \in T
      PROVE  Append(v, c) \in T
  <2>1. v \in Seq(Characters) /\ t \o v \in Seq(Characters)
        /\ Append(v, c) \in Seq(Characters \ S)
    BY SeqMonotonic, ConcatProperties, AppendProperties
  <2>2. /\ t \o Append(v, c) = Append(t \o v, c)
        /\ u.name \o Append(v, c) = Append(u.name \o v, c)
    BY <1>1, <2>1, ConcatAppend
  <2>3. SplitUp(t \o Append(v, c), S) = AddTo(S, SplitUp(t \o v, S), c)
    BY <2>1, <2>2, SplitSteps
  <2>4. SplitUp(t \o v, S) = [names |-> u.names, name |-> u.name \o v]
    BY <1>3
  <2>. HIDE DEF u
  <2>5. AddTo(S, [names |-> u.names, name |-> u.name \o v], c) =
          [names |-> u.names, name |-> Append(u.name \o v, c)]
    BY DEF AddTo
  <2>. QED
    BY <2>1, <2>2, <2>3, <2>4, <2>5
<1>. HIDE DEF T
<1>4. w \in T
  BY <1>2, <1>3, SeqSetInduction
<1>. QED
  BY <1>4 DEF T

\* A text that was put together from names is split into them again.
Rejoined(S, absolute, N) ==
  LET text == Concatenated(absolute, N)
  IN /\ NamesOf(SplitUp(text, S)) = N
     /\ IsAbsolute(text) <=> absolute
     /\ N = <<>> => text = First(absolute) /\ SplitUp(text, S).name = <<>>
     /\ N # <<>> => text # <<>> /\ Last(text) # Backslash

LEMMA RejoinedFirst ==
  ASSUME NEW S, Backslash \in S, NEW absolute \in BOOLEAN
  PROVE  Rejoined(S, absolute, <<>>)
<1>1. Concatenated(absolute, <<>>) = First(absolute)
  BY ConcatenatedSteps
<1>2. SplitUp(<<>>, S) = NoNames
  BY SplitSteps
<1>3. NamesOf(NoNames) = <<>> /\ NoNames.name = <<>>
  BY DEF NamesOf, NoNames
<1>4. CASE absolute
  <2>1. First(absolute) = Append(<<>>, Backslash) /\ First(absolute) = <<Backslash>>
    BY <1>4 DEF First
  <2>2. <<>> \in Seq(Characters) /\ Backslash \in Characters
    BY EmptySeq DEF Characters, Separators
  <2>3. SplitUp(Append(<<>>, Backslash), S) = AddTo(S, NoNames, Backslash)
    BY <1>2, <2>2, SplitSteps
  <2>4. AddTo(S, NoNames, Backslash) = NoNames
    BY DEF AddTo, NoNames, NamesOf
  <2>5. IsAbsolute(First(absolute))
    BY <2>1 DEF IsAbsolute
  <2>. QED
    BY <1>1, <1>4, <1>3, <2>1, <2>3, <2>4, <2>5 DEF Rejoined
<1>5. CASE ~absolute
  <2>1. First(absolute) = <<>> /\ ~IsAbsolute(<<>>)
    BY <1>5 DEF First, IsAbsolute
  <2>. QED
    BY <1>1, <1>2, <1>5, <1>3, <2>1 DEF Rejoined
<1>. QED
  BY <1>4, <1>5

LEMMA RejoinedNext ==
  ASSUME NEW S \in SUBSET Separators, Backslash \in S, NEW absolute \in BOOLEAN,
         NEW N \in Seq(Names), Rejoined(S, absolute, N), NEW name \in Names
  PROVE  Rejoined(S, absolute, Append(N, name))
<1> DEFINE text == Concatenated(absolute, N)
           next == Concatenated(absolute, Append(N, name))
           u == SplitUp(text, S)
<1>1. /\ text \in Seq(Characters)
      /\ next = AddName(text, name)
      /\ NamesOf(u) = N
      /\ IsAbsolute(text) <=> absolute
      /\ N = <<>> => text = First(absolute) /\ u.name = <<>>
      /\ N # <<>> => text # <<>> /\ Last(text) # Backslash
  BY ConcatenatedSteps DEF Rejoined
<1>2. /\ name \in Seq(Characters) /\ name # <<>> /\ name \in Seq(Characters \ S)
      /\ Head(name) # Backslash /\ Last(name) # Backslash
  BY NameEnds, SeqMonotonic DEF Names, NamesWithout
<1>3. Append(N, name) # <<>>
  BY AppendProperties
<1>4. u \in Splits(S)
  BY <1>1, SplitSteps
<1>5. CASE N = <<>>
  <2>1. next = text \o name
    BY <1>1, <1>5 DEF AddName, First, Last
  <2>2. /\ next # <<>> /\ Last(next) = Last(name)
        /\ Head(next) = IF text = <<>> THEN Head(name) ELSE Head(text)
    BY <1>1, <1>2, <2>1, Ends
  <2>3. SplitUp(next, S) = [names |-> u.names, name |-> <<>> \o name]
    BY <1>1, <1>2, <1>5, <2>1, SplitPlain
  <2>4. u.names = N /\ <<>> \o name = name
    BY <1>1, <1>2, <1>5, ConcatEmptySeq DEF NamesOf
  <2>5. NamesOf(SplitUp(next, S)) = Append(N, name)
    BY <1>2, <2>3, <2>4 DEF NamesOf
  <2>. QED
    BY <1>1, <1>2, <1>3, <2>2, <2>5 DEF Rejoined, IsAbsolute
<1>6. CASE N # <<>>
  <2> DEFINE front == Append(text, Backslash)
  <2>1. Backslash \in Characters
    BY DEF Characters, Separators
  <2>2. front \in Seq(Characters) /\ front # <<>> /\ front = text \o <<Backslash>>
    BY <1>1, <2>1, AppendProperties, AppendIsConcat
  <2>3. next = front \o name
    BY <1>1, <1>6, <2>2 DEF AddName
  <2>4. Head(front) = Head(text)
    BY <1>1, <1>6, <2>1, HeadTailAppend
  <2>5. next # <<>> /\ Last(next) = Last(name) /\ Head(next) = Head(text)
    <3>1. front \in Seq(Characters) /\ front # <<>>
          /\ name \in Seq(Characters) /\ name # <<>>
      BY <1>2, <2>2
    <3>. HIDE DEF front, next
    <3>2. front \o name # <<>> /\ Last(front \o name) = Last(name)
          /\ Head(front \o name) = Head(front)
      BY <3>1, Ends
    <3>. QED
      BY <2>3, <2>4, <3>2
  <2>6. SplitUp(front, S) = [names |-> N, name |-> <<>>]
    <3>1. SplitUp(front, S) = AddTo(S, u, Backslash)
      BY <1>1, <2>1, SplitSteps
    <3>. HIDE DEF u, front
    <3>. QED
      BY <1>1, <3>1 DEF AddTo
  <2>7. SplitUp(next, S) = [names |-> N, name |-> <<>> \o name]
    <3>. HIDE DEF front, next
    <3>1. SplitUp(front \o name, S) =
            [names |-> SplitUp(front, S).names, name |-> SplitUp(front, S).name \o name]
      BY <1>2, <2>2, SplitPlain
    <3>. QED
      BY <2>3, <2>6, <3>1
  <2>8. <<>> \o name = name
    BY <1>2, ConcatEmptySeq
  <2>9. NamesOf(SplitUp(next, S)) = Append(N, name)
    BY <1>2, <2>7, <2>8 DEF NamesOf
  <2>. QED
    BY <1>1, <1>2, <1>3, <1>6, <2>5, <2>9 DEF Rejoined, IsAbsolute
<1>. QED
  BY <1>5, <1>6

LEMMA RejoinedAlways ==
  ASSUME NEW S \in SUBSET Separators, Backslash \in S, NEW absolute \in BOOLEAN,
         NEW N \in Seq(Names)
  PROVE  Rejoined(S, absolute, N)
<1> DEFINE T == {M \in Seq(Names) : Rejoined(S, absolute, M)}
<1>1. <<>> \in T
  BY RejoinedFirst, EmptySeq
<1>2. ASSUME NEW M \in Seq(Names), NEW name \in Names, M \in T
      PROVE  Append(M, name) \in T
  BY <1>2, RejoinedNext, AppendProperties
<1>. HIDE DEF T
<1>3. N \in T
  BY <1>1, <1>2, SeqSetInduction
<1>. QED
  BY <1>3 DEF T
-----------------------------------------------------------------------------
(* Normal forms.                                                           *)

\* What is left when every name has been resolved: ".." only in front.
Normal(absolute, N) ==
  \A i \in 1 .. Len(N) :
    /\ N[i] # Here
    /\ N[i] = Up => i = 1 /\ ~absolute

LEMMA NormalFront ==
  ASSUME NEW absolute, NEW N \in Seq(Names), NEW name \in Names
  PROVE  Normal(absolute, Append(N, name)) <=>
           /\ Normal(absolute, N)
           /\ name # Here
           /\ name = Up => N = <<>> /\ ~absolute
<1> DEFINE n == Len(N)
           M == Append(N, name)
<1>1. /\ n \in Nat /\ Len(M) = n + 1 /\ M[n + 1] = name
      /\ \A i \in 1 .. n : M[i] = N[i]
      /\ N = <<>> <=> n = 0
  BY LenProperties, AppendProperties, EmptySeq
<1>. HIDE DEF M, n
<1>2. \A i : i \in 1 .. (n + 1) <=> i \in 1 .. n \/ i = n + 1
  BY <1>1
<1>3. n + 1 = 1 <=> N = <<>>
  BY <1>1
<1>4. Normal(absolute, M) <=>
        /\ \A i \in 1 .. n : M[i] # Here /\ (M[i] = Up => i = 1 /\ ~absolute)
        /\ M[n + 1] # Here /\ (M[n + 1] = Up => n + 1 = 1 /\ ~absolute)
  BY <1>1, <1>2 DEF Normal
<1>5. Normal(absolute, N) <=>
        \A i \in 1 .. n : M[i] # Here /\ (M[i] = Up => i = 1 /\ ~absolute)
  BY <1>1 DEF Normal, n
<1>. QED
  BY <1>1, <1>3, <1>4, <1>5 DEF M

LEMMA UpIsNotHere == Up # Here /\ Up \in Names /\ Here \in Names
<1>1. Dot \in Characters \ Separators
  BY CharactersDiffer DEF Characters, Separators
<1>. QED
  BY <1>1 DEF Up, Here, Names, NamesWithout

\* The front of a normal form is one.
LEMMA NormalLess ==
  ASSUME NEW absolute, NEW N \in Seq(Names), N # <<>>, Normal(absolute, N)
  PROVE  Front(N) \in Seq(Names) /\ Normal(absolute, Front(N))
<1>1. Front(N) \in Seq(Names) /\ Last(N) \in Names /\ Append(Front(N), Last(N)) = N
  BY FrontAndLast
<1>2. Normal(absolute, Append(Front(N), Last(N))) => Normal(absolute, Front(N))
  BY <1>1, NormalFront
<1>. QED
  BY <1>1, <1>2

LEMMA ResolvedIsNormal ==
  ASSUME NEW absolute, NEW N \in Seq(Names)
  PROVE  Normal(absolute, Resolved(absolute, N))
<1> DEFINE T == {M \in Seq(Names) : Normal(absolute, Resolved(absolute, M))}
<1>1. <<>> \in T
  <2>1. <<>> \in Seq(Names) /\ Resolved(absolute, <<>>) = <<>>
    BY EmptySeq, ResolvedSteps
  <2>2. Normal(absolute, <<>>)
    BY DEF Normal
  <2>. QED
    BY <2>1, <2>2
<1>2. ASSUME NEW M \in Seq(Names), NEW name \in Names, M \in T
      PROVE  Append(M, name) \in T
  <2> DEFINE names == Resolved(absolute, M)
  <2>1. names \in Seq(Names) /\ Normal(absolute, names)
        /\ Resolved(absolute, Append(M, name)) = Resolve(absolute, names, name)
        /\ Append(M, name) \in Seq(Names)
    BY <1>2, ResolvedSteps, AppendProperties
  <2>. HIDE DEF names
  <2>2. Normal(absolute, Resolve(absolute, names, name))
    BY <2>1, NormalFront, NormalLess DEF Resolve
  <2>. QED
    BY <2>1, <2>2
<1>. HIDE DEF T
<1>3. N \in T
  BY <1>1, <1>2, SeqSetInduction
<1>. QED
  BY <1>3 DEF T

\* Resolving a normal form changes nothing.
LEMMA NormalIsResolved ==
  ASSUME NEW absolute, NEW N \in Seq(Names), Normal(absolute, N)
  PROVE  Resolved(absolute, N) = N
<1> DEFINE T == {M \in Seq(Names) : Normal(absolute, M) => Resolved(absolute, M) = M}
<1>1. <<>> \in T
  BY EmptySeq, ResolvedSteps
<1>2. ASSUME NEW M \in Seq(Names), NEW name \in Names, M \in T
      PROVE  Append(M, name) \in T
  <2>1. Append(M, name) \in Seq(Names)
        /\ Resolved(absolute, Append(M, name)) = Resolve(absolute, Resolved(absolute, M), name)
    BY ResolvedSteps, AppendProperties
  <2>2. SUFFICES ASSUME Normal(absolute, Append(M, name))
                 PROVE  Resolve(absolute, Resolved(absolute, M), name) = Append(M, name)
    BY <2>1
  <2>3. Resolved(absolute, M) = M /\ name # Here
        /\ (name = Up => M = <<>> /\ ~absolute)
    BY <1>2, <2>2, NormalFront
  <2>. QED
    BY <2>3 DEF Resolve
<1>. HIDE DEF T
<1>3. N \in T
  BY <1>1, <1>2, SeqSetInduction
<1>. QED
  BY <1>3 DEF T

\* A normalized text, its names, and that it is canonical.
LEMMA NormalizedText ==
  ASSUME NEW t \in Seq(Characters)
  PROVE  LET N == Resolved(IsAbsolute(t), Split(t, Separators))
         IN /\ N \in Seq(Names)
            /\ Split(t, Separators) \in Seq(Names)
            /\ Normal(IsAbsolute(t), N)
            /\ Normalized(t) = Concatenated(IsAbsolute(t), N)
            /\ Normalized(t) \in Seq(Characters)
            /\ Components(Normalized(t)) = N
            /\ Split(Normalized(t), Separators) = N
            /\ IsAbsolute(Normalized(t)) = IsAbsolute(t)
            /\ Normalized(Normalized(t)) = Normalized(t)
<1> DEFINE a == IsAbsolute(t)
           M == Split(t, Separators)
           N == Resolved(a, M)
           normal == Normalized(t)
<1>1. a \in BOOLEAN
  BY DEF IsAbsolute
<1>2. M \in Seq(Names)
  BY SplitIs, SplitSteps, NamesOfTypes DEF Names
<1>. HIDE DEF a, M
<1>3. N \in Seq(Names) /\ Normal(a, N)
  BY <1>2, ResolvedSteps, ResolvedIsNormal
<1>4. normal = Concatenated(a, N)
  BY NormalizedIs DEF a, M
<1>5. normal \in Seq(Characters)
  BY <1>3, <1>4, ConcatenatedSteps
<1>. HIDE DEF N, normal
<1>6. Rejoined(Separators, a, N) /\ Rejoined({Backslash}, a, N)
  BY <1>1, <1>3, RejoinedAlways DEF Separators
<1>7. Components(normal) = N /\ Split(normal, Separators) = N /\ IsAbsolute(normal) = a
  BY <1>1, <1>4, <1>6, SplitIs DEF Rejoined, Components, IsAbsolute
<1>8. Normalized(normal) = normal
  BY <1>3, <1>4, <1>7, NormalizedIs, NormalIsResolved
<1>. QED
  BY <1>2, <1>3, <1>4, <1>5, <1>7, <1>8 DEF a, M, N, normal
-----------------------------------------------------------------------------
(* What a text names.                                                      *)

\* Names that lead down: no "..", no ".".
Down(N) == \A i \in 1 .. Len(N) : N[i] # Here /\ N[i] # Up

LEMMA DownNormal == \A N : Down(N) <=> Normal(TRUE, N)
BY DEF Down, Normal

LEMMA UpFirst ==
  ASSUME NEW N \in Seq(Names)
  PROVE  <<Up>> \o N \in Seq(Names) /\ <<Up>> \o N # <<>>
         /\ \A name \in Names : Append(<<Up>> \o N, name) = <<Up>> \o Append(N, name)
<1>1. <<Up>> \in Seq(Names) /\ <<Up>> # <<>>
  BY UpIsNotHere, SingletonSeq
<1>2. <<Up>> \o N \in Seq(Names) /\ <<Up>> \o N # <<>>
  BY <1>1, ConcatProperties, ConcatSimplifications!concIsEmpty
<1>3. \A name \in Names : Append(<<Up>> \o N, name) = <<Up>> \o Append(N, name)
  BY <1>1, ConcatAppend
<1>. QED
  BY <1>2, <1>3

\* Above the start, the resolved names are those of the place, behind a ".."
\* when an odd number of them was kept.
Follows(absolute, place, N) ==
  /\ Down(place.names)
  /\ absolute => place.above = 0
  /\ place.above = 0 => N = place.names
  /\ place.above = 1 => N = <<Up>> \o place.names
  /\ N = place.names \/ N = <<Up>> \o place.names

LEMMA FollowsNext ==
  ASSUME NEW absolute, NEW place \in Places, NEW N \in Seq(Names),
         Follows(absolute, place, N), NEW name \in Names
  PROVE  Follows(absolute, WalkOn(absolute, place, name), Resolve(absolute, N, name))
<1> DEFINE names == place.names
           above == place.above
<1>1. names \in Seq(Names) /\ above \in Nat
      /\ place = [above |-> above, names |-> names]
  BY DEF Places
<1>2. /\ Down(names)
      /\ absolute => above = 0
      /\ above = 0 => N = names
      /\ above = 1 => N = <<Up>> \o names
      /\ N = names \/ N = <<Up>> \o names
  BY DEF Follows
<1>. HIDE DEF names, above
<1>3. CASE name = Here
  <2>1. WalkOn(absolute, place, name) = place /\ Resolve(absolute, N, name) = N
    BY <1>3, UpIsNotHere DEF WalkOn, Resolve
  <2>. QED
    BY <2>1
<1>4. CASE name = Up /\ names # <<>>
  <2>1. /\ Front(names) \in Seq(Names) /\ Last(names) \in Names
        /\ Append(Front(names), Last(names)) = names
    BY <1>1, <1>4, FrontAndLast
  <2>2. Down(Front(names))
    BY <1>1, <1>2, <1>4, NormalLess, DownNormal
  <2>3. /\ <<Up>> \o names # <<>>
        /\ Front(<<Up>> \o names) = <<Up>> \o Front(names)
    <3>1. Append(<<Up>> \o Front(names), Last(names)) = <<Up>> \o names
          /\ <<Up>> \o Front(names) \in Seq(Names)
      BY <2>1, UpFirst
    <3>2. Front(Append(<<Up>> \o Front(names), Last(names))) = <<Up>> \o Front(names)
      BY <2>1, <3>1, FrontOfAppend
    <3>3. <<Up>> \o names # <<>>
      BY <1>1, UpFirst
    <3>. QED
      BY <3>1, <3>2, <3>3
  <2>4. WalkOn(absolute, place, name) = [above |-> above, names |-> Front(names)]
    BY <1>1, <1>4, UpIsNotHere DEF WalkOn
  <2>5. Resolve(absolute, N, name) = Front(N)
    BY <1>2, <1>4, <2>3, UpIsNotHere DEF Resolve
  <2>6. /\ above = 0 => Front(N) = Front(names)
        /\ above = 1 => Front(N) = <<Up>> \o Front(names)
        /\ Front(N) = Front(names) \/ Front(N) = <<Up>> \o Front(names)
    BY <1>2, <2>3
  <2>. QED
    BY <1>2, <2>2, <2>4, <2>5, <2>6 DEF Follows
<1>5. CASE name = Up /\ names = <<>> /\ absolute
  <2>1. WalkOn(absolute, place, name) = place /\ Resolve(absolute, N, name) = N
    BY <1>1, <1>2, <1>5, UpIsNotHere DEF WalkOn, Resolve
  <2>. QED
    BY <2>1
<1>6. CASE name = Up /\ names = <<>> /\ ~absolute
  <2>1. WalkOn(absolute, place, name) = [above |-> above + 1, names |-> <<>>]
    BY <1>1, <1>6, UpIsNotHere DEF WalkOn
  <2>2. /\ <<Up>> \in Seq(Names) /\ <<Up>> = Append(<<>>, Up) /\ <<>> \in Seq(Names)
        /\ <<Up>> \o <<>> = <<Up>> /\ <<Up>> # <<>>
    BY UpIsNotHere, SingletonSeq, EmptySeq, ConcatEmptySeq
  <2>3. Front(<<Up>>) = <<>>
    BY <2>2, UpIsNotHere, FrontOfAppend
  <2>4. CASE N = <<>>
    <3>1. Resolve(absolute, N, name) = <<Up>>
      BY <1>6, <2>2, <2>4, UpIsNotHere DEF Resolve
    <3>2. above # 1
      BY <1>2, <1>6, <2>2, <2>4
    <3>. QED
      BY <1>1, <1>2, <1>6, <2>1, <2>2, <3>1, <3>2 DEF Follows
  <2>5. CASE N = <<Up>>
    <3>1. Resolve(absolute, N, name) = <<>>
      BY <1>6, <2>2, <2>3, <2>5, UpIsNotHere DEF Resolve
    <3>2. above # 0
      BY <1>2, <1>6, <2>2, <2>5
    <3>. QED
      BY <1>1, <1>2, <1>6, <2>1, <2>2, <3>1, <3>2 DEF Follows
  <2>. QED
    BY <1>2, <1>6, <2>2, <2>4, <2>5
<1>7. CASE name # Here /\ name # Up
  <2>1. WalkOn(absolute, place, name) = [above |-> above, names |-> Append(names, name)]
    BY <1>1, <1>7 DEF WalkOn
  <2>2. Resolve(absolute, N, name) = Append(N, name)
    BY <1>7 DEF Resolve
  <2>3. Down(Append(names, name))
    BY <1>1, <1>2, <1>7, NormalFront, DownNormal
  <2>4. Append(<<Up>> \o names, name) = <<Up>> \o Append(names, name)
    BY <1>1, UpFirst
  <2>. QED
    BY <1>2, <2>1, <2>2, <2>3, <2>4 DEF Follows
<1>. QED
  BY <1>3, <1>4, <1>5, <1>6, <1>7

LEMMA FollowsAlways ==
  ASSUME NEW absolute, NEW N \in Seq(Names)
  PROVE  Follows(absolute, Walked(absolute, N), Resolved(absolute, N))
<1> DEFINE T == {M \in Seq(Names) :
                   Follows(absolute, Walked(absolute, M), Resolved(absolute, M))}
<1>1. <<>> \in T
  <2>1. Walked(absolute, <<>>) = Start /\ Resolved(absolute, <<>>) = <<>>
    BY WalkedSteps, ResolvedSteps
  <2>2. Follows(absolute, Start, <<>>)
    BY DEF Follows, Start, Down
  <2>. QED
    BY <2>1, <2>2, EmptySeq
<1>2. ASSUME NEW M \in Seq(Names), NEW name \in Names, M \in T
      PROVE  Append(M, name) \in T
  <2>1. Walked(absolute, M) \in Places /\ Resolved(absolute, M) \in Seq(Names)
        /\ Append(M, name) \in Seq(Names)
    BY WalkedSteps, ResolvedSteps, AppendProperties
  <2>2. /\ Walked(absolute, Append(M, name)) = WalkOn(absolute, Walked(absolute, M), name)
        /\ Resolved(absolute, Append(M, name)) = Resolve(absolute, Resolved(absolute, M), name)
    BY WalkedSteps, ResolvedSteps
  <2>. QED
    BY <1>2, <2>1, <2>2, FollowsNext
<1>. HIDE DEF T
<1>3. N \in T
  BY <1>1, <1>2, SeqSetInduction
<1>. QED
  BY <1>3 DEF T

\* Names that lead down are walked as they are, also from one directory above.
LEMMA WalkedDown ==
  ASSUME NEW absolute, NEW N \in Seq(Names), Down(N)
  PROVE  /\ Walked(absolute, N) = [above |-> 0, names |-> N]
         /\ ~absolute => Walked(absolute, <<Up>> \o N) = [above |-> 1, names |-> N]
<1> DEFINE Ways(M) ==
      /\ Walked(absolute, M) = [above |-> 0, names |-> M]
      /\ ~absolute => Walked(absolute, <<Up>> \o M) = [above |-> 1, names |-> M]
    T == {M \in Seq(Names) : Down(M) => Ways(M)}
<1>1. <<>> \in T
  <2>1. Walked(absolute, <<>>) = [above |-> 0, names |-> <<>>]
    BY WalkedSteps DEF Start
  <2>2. /\ <<>> \in Seq(Names) /\ <<Up>> = Append(<<>>, Up) /\ <<Up>> \in Seq(Names)
    BY UpIsNotHere, EmptySeq, SingletonSeq
  <2>3. <<Up>> \o <<>> = Append(<<>>, Up)
    BY <2>2, ConcatEmptySeq
  <2>4. Walked(absolute, Append(<<>>, Up)) = WalkOn(absolute, Start, Up)
    BY <2>2, UpIsNotHere, WalkedSteps
  <2>5. ~absolute => WalkOn(absolute, Start, Up) = [above |-> 1, names |-> <<>>]
    BY UpIsNotHere DEF WalkOn, Start
  <2>. QED
    BY <2>1, <2>2, <2>3, <2>4, <2>5
<1>2. ASSUME NEW M \in Seq(Names), NEW name \in Names, M \in T
      PROVE  Append(M, name) \in T
  <2>1. Append(M, name) \in Seq(Names) /\ <<Up>> \o M \in Seq(Names)
        /\ <<Up>> \o Append(M, name) = Append(<<Up>> \o M, name)
    BY AppendProperties, UpFirst
  <2>2. SUFFICES ASSUME Down(Append(M, name)) PROVE Ways(Append(M, name))
    BY <2>1
  <2>3. Down(M) /\ name # Here /\ name # Up
    BY <2>2, NormalFront, DownNormal
  <2>4. Ways(M)
    BY <1>2, <2>3
  <2>5. /\ Walked(absolute, Append(M, name)) = WalkOn(absolute, Walked(absolute, M), name)
        /\ Walked(absolute, Append(<<Up>> \o M, name)) =
             WalkOn(absolute, Walked(absolute, <<Up>> \o M), name)
    BY <2>1, WalkedSteps
  <2>6. \A k : WalkOn(absolute, [above |-> k, names |-> M], name) =
                 [above |-> k, names |-> Append(M, name)]
    BY <2>3 DEF WalkOn
  <2>. QED
    BY <2>1, <2>4, <2>5, <2>6
<1>. HIDE DEF T
<1>3. N \in T
  BY <1>1, <1>2, SeqSetInduction
<1>. QED
  BY <1>3 DEF T
-----------------------------------------------------------------------------
(* The properties of normal forms.                                         *)

LEMMA CanonicalOf ==
  ASSUME path \in Seq(Characters)
  PROVE  CanonicalForm
<1> DEFINE N == Resolved(IsAbsolute(path), Split(path, Separators))
<1>1. /\ Normal(IsAbsolute(path), N)
      /\ Normalized(path) = Concatenated(IsAbsolute(path), N)
      /\ Components(Normalized(path)) = N
      /\ Normalized(Normalized(path)) = Normalized(path)
  BY NormalizedText
<1>. HIDE DEF N
<1>. QED
  BY <1>1 DEF CanonicalForm, Normal

\* What a path names when it names something at most one directory above.
LEMMA NamesTheSameOf ==
  ASSUME NEW t \in Seq(Characters)
  PROVE  /\ IsAbsolute(Normalized(t)) = IsAbsolute(t)
         /\ Meaning(t).above <= 1 => Meaning(Normalized(t)) = Meaning(t)
         /\ IsAbsolute(t) => Components(Normalized(t)) = Meaning(t).names
<1> DEFINE a == IsAbsolute(t)
           M == Split(t, Separators)
           N == Resolved(a, M)
           normal == Normalized(t)
           place == Walked(a, M)
<1>1. /\ N \in Seq(Names) /\ M \in Seq(Names)
      /\ Components(normal) = N
      /\ Split(normal, Separators) = N
      /\ IsAbsolute(normal) = a
  BY NormalizedText
<1>2. Meaning(t) = place /\ Meaning(normal) = Walked(a, N)
  BY <1>1, MeaningIs
<1>. HIDE DEF normal, M, a
<1>3. Follows(a, place, N)
  BY <1>1, FollowsAlways
<1>4. place \in Places
  BY <1>1, WalkedSteps
<1>. HIDE DEF N, place
<1>5. /\ place.names \in Seq(Names) /\ place.above \in Nat
      /\ place = [above |-> place.above, names |-> place.names]
  BY <1>4 DEF Places
<1>6. a => N = place.names
  BY <1>3 DEF Follows
<1>7. CASE place.above = 0
  <2>1. N = place.names /\ Down(place.names)
    BY <1>3, <1>7 DEF Follows
  <2>2. Walked(a, N) = [above |-> 0, names |-> N]
    BY <1>1, <2>1, WalkedDown
  <2>. QED
    BY <1>1, <1>2, <1>5, <1>6, <1>7, <2>1, <2>2 DEF a, normal
<1>8. CASE place.above = 1
  <2>1. N = <<Up>> \o place.names /\ Down(place.names) /\ ~a
    BY <1>3, <1>8 DEF Follows
  <2>2. Walked(a, N) = [above |-> 1, names |-> place.names]
    BY <1>5, <2>1, WalkedDown
  <2>. QED
    BY <1>1, <1>2, <1>5, <1>6, <1>8, <2>1, <2>2 DEF a, normal
<1>9. CASE place.above > 1
  BY <1>1, <1>2, <1>5, <1>6, <1>9 DEF a, normal
<1>. QED
  BY <1>5, <1>7, <1>8, <1>9

LEMMA NormalFormOf ==
  ASSUME path \in Seq(Characters)
  PROVE  NormalFormHolds
BY CanonicalOf, NamesTheSameOf DEF NormalFormHolds, NormalizedNamesTheSame
-----------------------------------------------------------------------------
(* The parts of a path.                                                    *)

LEMMA LastPositionIs ==
  ASSUME NEW t \in Seq(Characters), NEW c
  PROVE  LET p == LastPosition(t, c)
         IN /\ p \in 0 .. Len(t)
            /\ p # 0 => t[p] = c
            /\ \A i \in 1 .. Len(t) : p < i => t[i] # c
<1> DEFINE n == Len(t)
           I == {i \in 1 .. n : t[i] = c}
           p == LastPosition(t, c)
<1>1. p = IF I # {} THEN Max(I) ELSE 0
  BY DEF LastPosition, SelectLastInSeq
<1>2. n \in Nat /\ I \in SUBSET (1 .. n)
  BY LenProperties
<1>3. CASE I = {}
  BY <1>1, <1>2, <1>3
<1>4. CASE I # {}
  <2>1. Max(I) \in I /\ \A i \in I : i <= Max(I)
    <3>. HIDE DEF I, n
    <3>. QED
      BY <1>2, <1>4, MaxInterval
  <2>2. p = Max(I)
    BY <1>1, <1>4
  <2>. HIDE DEF p
  <2>3. p \in 1 .. n /\ t[p] = c /\ \A i \in 1 .. n : t[i] = c => i <= p
    BY <2>1, <2>2
  <2>4. p \in 0 .. n /\ \A i \in 1 .. n : p < i => t[i] # c
    BY <1>2, <2>3
  <2>. QED
    BY <2>3, <2>4 DEF p
<1>. QED
  BY <1>3, <1>4

\* The place of the last c is where nothing behind it is one.
LEMMA LastPositionAt ==
  ASSUME NEW t \in Seq(Characters), NEW c, NEW q \in 0 .. Len(t),
         q # 0 => t[q] = c,
         \A i \in 1 .. Len(t) : q < i => t[i] # c
  PROVE  LastPosition(t, c) = q
<1> DEFINE p == LastPosition(t, c)
           n == Len(t)
<1>1. /\ p \in 0 .. n
      /\ p # 0 => t[p] = c
      /\ \A i \in 1 .. n : p < i => t[i] # c
  BY LastPositionIs
<1>2. n \in Nat
  BY LenProperties
<1>. HIDE DEF p, n
<1>3. ~(p < q)
  BY <1>1, <1>2 DEF n
<1>4. ~(q < p)
  BY <1>1, <1>2 DEF n
<1>. QED
  BY <1>1, <1>2, <1>3, <1>4 DEF p, n

\* What a text without c adds does not move the last c; a c does.
LEMMA LastPositionBehind ==
  ASSUME NEW s \in Seq(Characters), NEW w \in Seq(Characters), NEW c,
         \A i \in 1 .. Len(w) : w[i] # c
  PROVE  LastPosition(s \o w, c) = LastPosition(s, c)
<1> DEFINE t == s \o w
           n == Len(s)
           q == LastPosition(s, c)
<1>1. /\ t \in Seq(Characters) /\ n \in Nat /\ Len(w) \in Nat /\ Len(t) = n + Len(w)
      /\ \A i \in 1 .. n + Len(w) : t[i] = IF i <= n THEN s[i] ELSE w[i - n]
  BY ConcatProperties, LenProperties
<1>2. /\ q \in 0 .. n
      /\ q # 0 => s[q] = c
      /\ \A i \in 1 .. n : q < i => s[i] # c
  BY LastPositionIs
<1>. HIDE DEF q, n, t
<1>3. q \in 0 .. Len(t) /\ (q # 0 => t[q] = c)
  BY <1>1, <1>2
<1>4. ASSUME NEW i \in 1 .. Len(t), q < i PROVE t[i] # c
  <2>1. CASE i <= n
    BY <1>1, <1>2, <1>4, <2>1
  <2>2. CASE ~(i <= n)
    BY <1>1, <1>4, <2>2
  <2>. QED
    BY <2>1, <2>2
<1>. QED
  BY <1>1, <1>3, <1>4, LastPositionAt DEF t, q

LEMMA LastPositionEnd ==
  ASSUME NEW s \in Seq(Characters), NEW c \in Characters
  PROVE  LastPosition(Append(s, c), c) = Len(s) + 1
<1>1. /\ Append(s, c) \in Seq(Characters) /\ Len(s) \in Nat
      /\ Len(Append(s, c)) = Len(s) + 1 /\ Append(s, c)[Len(s) + 1] = c
  BY AppendProperties, LenProperties
<1>2. /\ Len(s) + 1 \in 0 .. Len(Append(s, c))
      /\ \A i \in 1 .. Len(Append(s, c)) : ~(Len(s) + 1 < i)
  BY <1>1
<1>. QED
  BY <1>1, <1>2, LastPositionAt

LEMMA PartTypes ==
  ASSUME NEW S, NEW t \in Seq(S), NEW i \in Int, NEW j \in Int, 1 <= i, j <= Len(t)
  PROVE  SubSeq(t, i, j) \in Seq(S)
<1>1. Len(t) \in Nat /\ \A k \in 1 .. Len(t) : t[k] \in S
  BY LenProperties
<1>2. \A k \in i .. j : t[k] \in S
  BY <1>1
<1>. QED
  BY <1>2, SubSeqProperties

\* A text is what is before a place and what is behind it.
LEMMA CutAt ==
  ASSUME NEW S, NEW s \in Seq(S), NEW w \in Seq(S)
  PROVE  /\ SubSeq(s \o w, 1, Len(s)) = s
         /\ SubSeq(s \o w, Len(s) + 1, Len(s \o w)) = w
<1> DEFINE t == s \o w
           n == Len(s)
           m == Len(w)
           u == SubSeq(t, 1, n)
           v == SubSeq(t, n + 1, n + m)
<1>1. /\ t \in Seq(S) /\ n \in Nat /\ m \in Nat /\ Len(t) = n + m
      /\ \A i \in 1 .. n + m : t[i] = IF i <= n THEN s[i] ELSE w[i - n]
  BY ConcatProperties, LenProperties
<1>. HIDE DEF t, n, m
<1>2. \A i \in 1 .. n + m : t[i] \in S
  BY <1>1, LenProperties
<1>3. /\ u \in Seq(S) /\ Len(u) = n
      /\ \A i \in 1 .. n : u[i] = s[i]
  <2>1. 1 \in Int /\ n \in Int /\ \A i \in 1 .. n : t[i] \in S
    BY <1>1, <1>2
  <2>2. /\ u \in Seq(S)
        /\ Len(u) = IF 1 <= n THEN n - 1 + 1 ELSE 0
        /\ \A i \in 1 .. n - 1 + 1 : u[i] = t[1 + i - 1]
    BY <2>1, SubSeqProperties
  <2>. QED
    BY <1>1, <2>2
<1>4. /\ v \in Seq(S) /\ Len(v) = m
      /\ \A i \in 1 .. m : v[i] = w[i]
  <2>1. n + 1 \in Int /\ n + m \in Int /\ \A i \in (n + 1) .. (n + m) : t[i] \in S
    BY <1>1, <1>2
  <2>2. /\ v \in Seq(S)
        /\ Len(v) = IF n + 1 <= n + m THEN (n + m) - (n + 1) + 1 ELSE 0
        /\ \A i \in 1 .. (n + m) - (n + 1) + 1 : v[i] = t[(n + 1) + i - 1]
    BY <2>1, SubSeqProperties
  <2>3. ASSUME NEW i \in 1 .. m PROVE v[i] = w[i]
    <3>1. /\ i \in 1 .. (n + m) - (n + 1) + 1 /\ (n + 1) + i - 1 = n + i
          /\ n + i \in 1 .. n + m /\ ~(n + i <= n) /\ (n + i) - n = i
      BY <1>1
    <3>. QED
      BY <1>1, <2>2, <3>1
  <2>. QED
    BY <1>1, <2>2, <2>3
<1>5. u = s /\ v = w
  BY <1>3, <1>4, SeqEqual DEF n, m
<1>. QED
  BY <1>1, <1>5 DEF t, n, m
-----------------------------------------------------------------------------
(* Parents and file names.                                                 *)

LEMMA NamesPlain ==
  ASSUME NEW name \in Names
  PROVE  \A i \in 1 .. Len(name) : name[i] # Backslash
<1>1. name \in Seq(Characters \ Separators)
  BY DEF Names, NamesWithout
<1>. QED
  BY <1>1, ElementOfSeq DEF Separators

\* A text put together from one name more.
LEMMA ConcatenatedParts ==
  ASSUME NEW a \in BOOLEAN, NEW Q \in Seq(Names), NEW name \in Names
  PROVE  LET text   == Concatenated(a, Append(Q, name))
             before == Concatenated(a, Q)
         IN /\ text \in Seq(Characters) /\ before \in Seq(Characters)
            /\ text # <<>> /\ ~IsRoot(text)
            /\ Q # <<>> => /\ text = Append(before, Backslash) \o name
                           /\ before # <<>> /\ Last(before) # Backslash
                           /\ LastPosition(text, Backslash) = Len(before) + 1
            /\ Q = <<>> /\ a => /\ text = <<Backslash>> \o name
                                /\ LastPosition(text, Backslash) = 1
            /\ Q = <<>> /\ ~a => /\ text = name
                                 /\ LastPosition(text, Backslash) = 0
<1> DEFINE text   == Concatenated(a, Append(Q, name))
           before == Concatenated(a, Q)
           front == Append(before, Backslash)
<1>1. /\ text \in Seq(Characters) /\ before \in Seq(Characters)
      /\ text = AddName(before, name) /\ Append(Q, name) # <<>>
  BY ConcatenatedSteps, AppendProperties
<1>2. Rejoined({Backslash}, a, Q) /\ Rejoined({Backslash}, a, Append(Q, name))
  BY RejoinedAlways, AppendProperties DEF Separators
<1>3. /\ text # <<>> /\ Last(text) # Backslash
      /\ Q = <<>> => before = First(a)
      /\ Q # <<>> => before # <<>> /\ Last(before) # Backslash
  BY <1>1, <1>2 DEF Rejoined
<1>4. ~IsRoot(text)
  <2>1. Last(<<Backslash>>) = Backslash
    BY DEF Last
  <2>. QED
    BY <1>3, <2>1 DEF IsRoot
<1>5. /\ name \in Seq(Characters) /\ \A i \in 1 .. Len(name) : name[i] # Backslash
      /\ Backslash \in Characters
  BY NameEnds, NamesPlain DEF Characters, Separators
<1>. HIDE DEF text, before
<1>6. CASE Q # <<>>
  <2>1. text = before \o <<Backslash>> \o name
    BY <1>1, <1>3, <1>6 DEF AddName
  <2>2. front \in Seq(Characters) /\ front = before \o <<Backslash>>
    BY <1>1, <1>5, AppendProperties, AppendIsConcat
  <2>3. LastPosition(front, Backslash) = Len(before) + 1
    BY <1>1, <1>5, LastPositionEnd
  <2>4. LastPosition(front \o name, Backslash) = LastPosition(front, Backslash)
    <3>. HIDE DEF front
    <3>. QED
      BY <1>5, <2>2, LastPositionBehind
  <2>5. text = front \o name
    BY <2>1, <2>2
  <2>. QED
    BY <1>1, <1>3, <1>4, <1>6, <2>3, <2>4, <2>5 DEF text, before
<1>7. CASE Q = <<>> /\ a
  <2>1. before = <<Backslash>> /\ <<Backslash>> = Append(<<>>, Backslash)
        /\ Last(<<Backslash>>) = Backslash
    BY <1>3, <1>7 DEF First, Last
  <2>2. text = <<Backslash>> \o name
    BY <1>1, <2>1 DEF AddName
  <2>3. <<>> \in Seq(Characters) /\ Len(<<>>) = 0 /\ <<Backslash>> \in Seq(Characters)
    BY <1>5, EmptySeq, SingletonSeq
  <2>4. LastPosition(<<Backslash>>, Backslash) = 1
    <3>1. LastPosition(Append(<<>>, Backslash), Backslash) = Len(<<>>) + 1
      BY <1>5, <2>3, LastPositionEnd
    <3>. QED
      BY <2>1, <2>3, <3>1
  <2>5. LastPosition(<<Backslash>> \o name, Backslash) = 1
    BY <1>5, <2>3, <2>4, LastPositionBehind
  <2>. QED
    BY <1>1, <1>3, <1>4, <1>7, <2>2, <2>5 DEF text, before
<1>8. CASE Q = <<>> /\ ~a
  <2>1. text = name
    BY <1>1, <1>3, <1>5, <1>8, ConcatEmptySeq DEF AddName, First
  <2>2. LastPosition(name, Backslash) = 0
    BY <1>5, LastPositionIs, LenProperties
  <2>. QED
    BY <1>1, <1>3, <1>4, <1>8, <2>1, <2>2 DEF text, before
<1>. QED
  BY <1>6, <1>7, <1>8

\* Names put together are split again.
LEMMA ConcatenatedSplits ==
  ASSUME NEW a \in BOOLEAN, NEW N \in Seq(Names)
  PROVE  LET text == Concatenated(a, N)
         IN /\ text \in Seq(Characters)
            /\ Split(text, Separators) = N
            /\ Components(text) = N
            /\ IsAbsolute(text) = a
            /\ Normalized(text) = Concatenated(a, Resolved(a, N))
            /\ N = <<>> => text = First(a)
            /\ N # <<>> => text # <<>> /\ Last(text) # Backslash
<1> DEFINE text == Concatenated(a, N)
<1>1. text \in Seq(Characters)
  BY ConcatenatedSteps
<1>2. Rejoined(Separators, a, N) /\ Rejoined({Backslash}, a, N)
  BY RejoinedAlways DEF Separators
<1>3. /\ Components(text) = N /\ Split(text, Separators) = N
      /\ IsAbsolute(text) <=> a
      /\ N = <<>> => text = First(a)
      /\ N # <<>> => text # <<>> /\ Last(text) # Backslash
  BY <1>2, SplitIs DEF Rejoined, Components
<1>. HIDE DEF text
<1>4. IsAbsolute(text) = a
  BY <1>3 DEF IsAbsolute
<1>5. Normalized(text) = Concatenated(a, Resolved(a, N))
  BY <1>3, <1>4, NormalizedIs
<1>. QED
  BY <1>1, <1>3, <1>4, <1>5 DEF text

LEMMA ParentAndNameOf ==
  ASSUME path \in Seq(Characters)
  PROVE  ParentAndNameJoin
<1> DEFINE a == IsAbsolute(path)
           N == Resolved(a, Split(path, Separators))
           normal == Normalized(path)
<1>1. a \in BOOLEAN
  BY DEF IsAbsolute
<1>2. /\ N \in Seq(Names) /\ Normal(a, N)
      /\ normal = Concatenated(a, N)
      /\ Split(normal, Separators) = N
      /\ Normalized(normal) = normal
  BY NormalizedText
<1>. HIDE DEF a, N
<1>3. SUFFICES ASSUME normal # <<>>, ~IsRoot(normal)
               PROVE  /\ Join(Parent(path), FileName(normal)) = normal
                      /\ NameCount(Parent(path)) = NameCount(normal) - 1
  BY DEF ParentAndNameJoin
<1>4. N # <<>>
  <2>1. N = <<>> => normal = First(a)
    BY <1>1, <1>2, ConcatenatedSplits
  <2>. QED
    BY <1>3, <2>1 DEF First, IsRoot
<1> DEFINE Q == Front(N)
           name == Last(N)
           before == Concatenated(a, Q)
           last == LastPosition(normal, Backslash)
<1>5. Q \in Seq(Names) /\ name \in Names /\ Append(Q, name) = N
      /\ name \in Seq(Characters) /\ name # <<>>
  BY <1>2, <1>4, FrontAndLast, NameEnds
<1>. HIDE DEF Q, name
<1>6. /\ Split(before, Separators) = Q /\ before \in Seq(Characters)
      /\ Q = <<>> => before = First(a)
  BY <1>1, <1>5, ConcatenatedSplits
<1>7. /\ Q # <<>> => /\ normal = Append(before, Backslash) \o name
                     /\ before # <<>> /\ Last(before) # Backslash
                     /\ last = Len(before) + 1
      /\ Q = <<>> /\ a => normal = <<Backslash>> \o name /\ last = 1
      /\ Q = <<>> /\ ~a => normal = name /\ last = 0
  <2> DEFINE text == Concatenated(a, Append(Q, name))
  <2>1. /\ Q # <<>> => /\ text = Append(before, Backslash) \o name
                       /\ before # <<>> /\ Last(before) # Backslash
                       /\ LastPosition(text, Backslash) = Len(before) + 1
        /\ Q = <<>> /\ a => /\ text = <<Backslash>> \o name
                            /\ LastPosition(text, Backslash) = 1
        /\ Q = <<>> /\ ~a => /\ text = name
                             /\ LastPosition(text, Backslash) = 0
    BY <1>1, <1>5, ConcatenatedParts
  <2>2. text = normal
    BY <1>2, <1>5
  <2>. HIDE DEF text, normal
  <2>. QED
    BY <2>1, <2>2
<1>8. /\ Parent(path) = IF last = 1 THEN <<Backslash>> ELSE SubSeq(normal, 1, last - 1)
      /\ FileName(normal) = SubSeq(normal, last + 1, Len(normal))
  BY <1>3 DEF Parent, FileName
<1>. HIDE DEF normal, last, before
<1>9. /\ <<Backslash>> \in Seq(Characters) /\ Len(<<Backslash>>) = 1
      /\ Last(<<Backslash>>) = Backslash /\ <<Backslash>> # <<>>
      /\ Backslash \in Characters
  <2>1. Backslash \in Characters
    BY DEF Characters, Separators
  <2>. QED
    BY <2>1, SingletonSeq DEF Last
<1>10. Parent(path) = before /\ FileName(normal) = name
       /\ Join(before, name) = normal
  <2>1. CASE Q # <<>>
    <3> DEFINE front == Append(before, Backslash)
    <3>1. /\ front \in Seq(Characters) /\ Len(front) = Len(before) + 1
          /\ front = before \o <<Backslash>> /\ Len(before) \in Nat /\ Len(before) # 0
      BY <1>6, <1>7, <1>9, <2>1, AppendProperties, AppendIsConcat, EmptySeq, LenProperties
    <3>2. normal = front \o name
      BY <1>7, <2>1
    <3>3. FileName(normal) = name
      <4>1. SubSeq(front \o name, Len(front) + 1, Len(front \o name)) = name
        <5>. HIDE DEF front
        <5>. QED
          BY <1>5, <3>1, CutAt
      <4>. QED
        BY <1>7, <1>8, <2>1, <3>1, <3>2, <4>1
    <3>4. Parent(path) = before
      <4>1. (before \o <<Backslash>>) \o name = before \o (<<Backslash>> \o name)
        BY <1>5, <1>6, <1>9, ConcatAssociative
      <4>2. normal = before \o (<<Backslash>> \o name)
            /\ <<Backslash>> \o name \in Seq(Characters)
        BY <1>5, <1>9, <3>1, <3>2, <4>1, ConcatProperties
      <4>3. SubSeq(normal, 1, Len(before)) = before
        BY <1>6, <4>2, CutAt
      <4>4. last # 1 /\ last - 1 = Len(before)
        BY <1>7, <2>1, <3>1
      <4>. QED
        BY <1>8, <4>3, <4>4
    <3>5. Join(before, name) = Normalized(before \o <<Backslash>> \o name)
      BY <1>5, <1>7, <2>1 DEF Join
    <3>. QED
      BY <1>2, <3>1, <3>2, <3>3, <3>4, <3>5 DEF normal
  <2>2. CASE Q = <<>> /\ a
    <3>1. before = <<Backslash>> /\ normal = <<Backslash>> \o name /\ last = 1
      BY <1>6, <1>7, <2>2 DEF First
    <3>2. FileName(normal) = name
      <4>1. SubSeq(<<Backslash>> \o name, 1 + 1, Len(<<Backslash>> \o name)) = name
        BY <1>5, <1>9, CutAt
      <4>. QED
        BY <1>8, <3>1, <4>1
    <3>3. Join(before, name) = Normalized(before \o <<>> \o name)
      BY <1>5, <1>9, <3>1 DEF Join
    <3>4. before \o <<>> = before
      BY <1>6, ConcatEmptySeq
    <3>. QED
      BY <1>2, <1>8, <3>1, <3>2, <3>3, <3>4 DEF normal
  <2>3. CASE Q = <<>> /\ ~a
    <3>1. before = <<>> /\ normal = name /\ last = 0
      BY <1>6, <1>7, <2>3 DEF First
    <3>2. SubSeq(name, 1, Len(name)) = name
      BY <1>5, SubSeqFull
    <3>3. SubSeq(normal, 1, -1) = <<>>
      BY SubSeqEmpty
    <3>4. Join(before, name) = name
      BY <1>5, <3>1, ConcatEmptySeq DEF Join
    <3>. QED
      BY <1>8, <3>1, <3>2, <3>3, <3>4
  <2>. QED
    BY <2>1, <2>2, <2>3
<1>11. NameCount(before) = NameCount(normal) - 1
  <2>1. Len(N) = Len(Q) + 1 /\ Len(Q) \in Nat
    BY <1>5, AppendProperties, LenProperties
  <2>. QED
    BY <1>2, <1>6, <2>1 DEF NameCount, normal
<1>. QED
  BY <1>10, <1>11
-----------------------------------------------------------------------------
(* Extensions.                                                             *)

LEMMA Cut ==
  ASSUME NEW S, NEW t \in Seq(S), NEW p \in 0 .. Len(t)
  PROVE  /\ SubSeq(t, 1, p) \in Seq(S) /\ Len(SubSeq(t, 1, p)) = p
         /\ SubSeq(t, p + 1, Len(t)) \in Seq(S)
         /\ t = SubSeq(t, 1, p) \o SubSeq(t, p + 1, Len(t))
         /\ \A i \in 1 .. Len(SubSeq(t, p + 1, Len(t))) :
              i + p \in 1 .. Len(t) /\ SubSeq(t, p + 1, Len(t))[i] = t[i + p]
<1> DEFINE n == Len(t)
           u == SubSeq(t, 1, p)
           v == SubSeq(t, p + 1, n)
<1>1. n \in Nat /\ p \in Nat /\ p <= n
  BY LenProperties
<1>2. u \in Seq(S) /\ v \in Seq(S)
  BY <1>1, PartTypes
<1>3. t = u \o v
  <2>1. 1 \in 1 .. n + 1 /\ p \in (1 - 1) .. n /\ n \in p .. n
    BY <1>1
  <2>2. u \o v = SubSeq(t, 1, n)
    BY <2>1, ConcatAdjacentSubSeq
  <2>. QED
    BY <2>2, SubSeqFull
<1>4. \A i \in 1 .. n : t[i] \in S
  BY LenProperties
<1>5. Len(u) = p
  <2>1. 1 \in Int /\ p \in Int /\ \A i \in 1 .. p : t[i] \in S
    BY <1>1, <1>4
  <2>2. Len(u) = IF 1 <= p THEN p - 1 + 1 ELSE 0
    BY <2>1, SubSeqProperties
  <2>. QED
    BY <1>1, <2>2
<1>6. \A i \in 1 .. Len(v) : i + p \in 1 .. n /\ v[i] = t[i + p]
  <2>1. p + 1 \in Int /\ n \in Int /\ \A i \in (p + 1) .. n : t[i] \in S
    BY <1>1, <1>4
  <2>2. /\ Len(v) = IF p + 1 <= n THEN n - (p + 1) + 1 ELSE 0
        /\ \A i \in 1 .. n - (p + 1) + 1 : v[i] = t[(p + 1) + i - 1]
    BY <2>1, SubSeqProperties
  <2>3. Len(v) = n - p
    BY <1>1, <2>2
  <2>4. ASSUME NEW i \in 1 .. Len(v) PROVE i + p \in 1 .. n /\ v[i] = t[i + p]
    <3>1. i \in 1 .. n - (p + 1) + 1 /\ (p + 1) + i - 1 = i + p /\ i + p \in 1 .. n
      BY <1>1, <2>3
    <3>. HIDE DEF v
    <3>. QED
      BY <2>2, <3>1
  <2>. QED
    BY <2>4
<1>. QED
  BY <1>2, <1>3, <1>5, <1>6

\* What is before the file name, which has no backslash.
Folder(t) == SubSeq(t, 1, LastPosition(t, Backslash))

LEMMA FileNameIs ==
  ASSUME NEW t \in Seq(Characters)
  PROVE  /\ Folder(t) \in Seq(Characters) /\ FileName(t) \in Seq(Characters)
         /\ t = Folder(t) \o FileName(t)
         /\ Len(Folder(t)) = LastPosition(t, Backslash)
         /\ LastPosition(Folder(t), Backslash) = Len(Folder(t))
         /\ \A i \in 1 .. Len(FileName(t)) : FileName(t)[i] # Backslash
         /\ FileName(t) = SubSeq(t, LastPosition(t, Backslash) + 1, Len(t))
<1> DEFINE p == LastPosition(t, Backslash)
           u == SubSeq(t, 1, p)
           v == SubSeq(t, p + 1, Len(t))
<1>1. /\ p \in 0 .. Len(t)
      /\ p # 0 => t[p] = Backslash
      /\ \A i \in 1 .. Len(t) : p < i => t[i] # Backslash
  BY LastPositionIs
<1>2. FileName(t) = v
  <2>1. CASE IsRoot(t)
    <3>1. t = <<Backslash>> /\ Len(t) = 1 /\ t[1] = Backslash
      BY <2>1 DEF IsRoot
    <3>2. p = 1
      BY <1>1, <3>1
    <3>3. v = <<>>
      BY <3>1, <3>2, SubSeqEmpty
    <3>. QED
      BY <2>1, <3>3 DEF FileName
  <2>2. CASE ~IsRoot(t)
    BY <2>2 DEF FileName
  <2>. QED
    BY <2>1, <2>2
<1>. HIDE DEF p
<1>3. /\ u \in Seq(Characters) /\ v \in Seq(Characters) /\ Len(u) = p
      /\ t = u \o v
      /\ \A i \in 1 .. Len(v) : i + p \in 1 .. Len(t) /\ v[i] = t[i + p]
  BY <1>1, Cut
<1>4. \A i \in 1 .. Len(v) : v[i] # Backslash
  <2>. SUFFICES ASSUME NEW i \in 1 .. Len(v) PROVE v[i] # Backslash
    OBVIOUS
  <2>1. p < i + p
    BY <1>1, <1>3, LenProperties
  <2>. HIDE DEF v
  <2>. QED
    BY <1>1, <1>3, <2>1
<1>5. LastPosition(u, Backslash) = Len(u)
  <2>1. p \in Nat
    BY <1>1, LenProperties
  <2>2. p # 0 => u[p] = Backslash
    <3>1. /\ Len(u) \in Nat /\ Len(v) \in Nat
          /\ \A i \in 1 .. Len(u) + Len(v) :
               (u \o v)[i] = IF i <= Len(u) THEN u[i] ELSE v[i - Len(u)]
      BY <1>3, ConcatProperties, LenProperties
    <3>. HIDE DEF u, v
    <3>. QED
      BY <1>1, <1>3, <2>1, <3>1
  <2>. HIDE DEF u, v
  <2>3. /\ Len(u) \in 0 .. Len(u)
        /\ \A i \in 1 .. Len(u) : ~(Len(u) < i)
    BY <1>3, <2>1
  <2>. QED
    BY <1>3, <2>2, <2>3, LastPositionAt
<1>. QED
  BY <1>2, <1>3, <1>4, <1>5 DEF Folder, p

\* A name with a dot is its stem, the dot and its extension.
LEMMA StemAndExtension ==
  ASSUME NEW t \in Seq(Characters)
  PROVE  LET dot == ExtensionDot(FileName(t))
         IN /\ Stem(t) \in Seq(Characters) /\ Extension(t) \in Seq(Characters)
            /\ Folder(t) \o Stem(t) \in Seq(Characters)
            /\ \A i \in 1 .. Len(Stem(t)) : Stem(t)[i] # Backslash
            /\ dot = 0 => Stem(t) = FileName(t)
            /\ dot # 0 => /\ FileName(t) = Stem(t) \o (<<Dot>> \o Extension(t))
                          /\ Len(Stem(t)) = dot - 1
                          /\ <<Dot>> \o Extension(t) \in Seq(Characters)
<1> DEFINE name == FileName(t)
           dot  == LastPosition(name, Dot)
           u == SubSeq(name, 1, dot - 1)
           v == SubSeq(name, dot + 1, Len(name))
<1>1. /\ name \in Seq(Characters) /\ Folder(t) \in Seq(Characters)
      /\ \A i \in 1 .. Len(name) : name[i] # Backslash
  BY FileNameIs
<1>2. /\ Stem(t) = IF dot = 0 THEN name ELSE u
      /\ Extension(t) = IF dot = 0 THEN <<>> ELSE v
      /\ ExtensionDot(name) = dot
  BY DEF Stem, Extension, ExtensionDot
<1>. HIDE DEF name
<1>3. dot \in 0 .. Len(name) /\ (dot # 0 => name[dot] = Dot)
  BY <1>1, LastPositionIs
<1>. HIDE DEF dot
<1>4. CASE dot = 0
  <2>1. Stem(t) = name /\ Extension(t) = <<>>
    BY <1>2, <1>4
  <2>2. Folder(t) \o name \in Seq(Characters) /\ <<>> \in Seq(Characters)
    BY <1>1, ConcatProperties, EmptySeq
  <2>. QED
    BY <1>1, <1>2, <1>4, <2>1, <2>2 DEF name
<1>5. CASE dot # 0
  <2>1. Len(name) \in Nat /\ dot - 1 \in 0 .. Len(name) /\ dot \in 1 .. Len(name)
        /\ (dot - 1) + 1 = dot /\ Len(name) \in dot .. Len(name)
    BY <1>1, <1>3, <1>5, LenProperties
  <2> DEFINE w == SubSeq(name, dot, Len(name))
  <2>2. /\ u \in Seq(Characters) /\ Len(u) = dot - 1
        /\ name = u \o w
    <3>1. /\ SubSeq(name, 1, dot - 1) \in Seq(Characters)
          /\ Len(SubSeq(name, 1, dot - 1)) = dot - 1
          /\ name = SubSeq(name, 1, dot - 1) \o SubSeq(name, (dot - 1) + 1, Len(name))
      BY <1>1, <2>1, Cut
    <3>. QED
      BY <2>1, <3>1
  <2>3. w = <<Dot>> \o v
    <3>1. w = <<name[dot]>> \o SubSeq(name, dot + 1, Len(name))
      BY <1>1, <2>1, SubSeqRecursiveFirst
    <3>. QED
      BY <1>3, <1>5, <3>1
  <2>4. v \in Seq(Characters) /\ w \in Seq(Characters)
    BY <1>1, <2>1, Cut, PartTypes
  <2>5. \A i \in 1 .. Len(u) : u[i] # Backslash
    <3>. HIDE DEF u, v, w
    <3>1. /\ Len(u) \in Nat /\ Len(w) \in Nat
          /\ Len(u \o w) = Len(u) + Len(w)
          /\ \A i \in 1 .. Len(u) + Len(w) :
               (u \o w)[i] = IF i <= Len(u) THEN u[i] ELSE w[i - Len(u)]
      BY <2>2, <2>4, ConcatProperties, LenProperties
    <3>2. Len(name) = Len(u) + Len(w) /\ \A i \in 1 .. Len(u) : name[i] = u[i]
      BY <2>2, <3>1
    <3>. QED
      BY <1>1, <3>1, <3>2
  <2>6. Stem(t) = u /\ Extension(t) = v
    BY <1>2, <1>5
  <2>7. Folder(t) \o u \in Seq(Characters)
    BY <1>1, <2>2, ConcatProperties
  <2>. HIDE DEF u, v, w
  <2>. QED
    BY <1>2, <1>5, <2>2, <2>3, <2>4, <2>5, <2>6, <2>7 DEF name
<1>. QED
  BY <1>4, <1>5

\* An extension is put behind the folder and the stem.
LEMMA ReplacedIs ==
  ASSUME NEW t \in Seq(Characters), NEW e \in Seq(Characters)
  PROVE  /\ ReplaceExtension(t, e) =
              (Folder(t) \o Stem(t)) \o IF e = <<>> THEN <<>> ELSE <<Dot>> \o e
         /\ ReplaceExtension(t, e) \in Seq(Characters)
<1> DEFINE dot == ExtensionDot(FileName(t))
           kept == IF dot = 0 THEN t
                   ELSE SubSeq(t, 1, Len(t) - Len(FileName(t)) + dot - 1)
           back == IF e = <<>> THEN <<>> ELSE <<Dot>> \o e
           front == Folder(t) \o Stem(t)
<1>1. /\ Folder(t) \in Seq(Characters) /\ FileName(t) \in Seq(Characters)
      /\ t = Folder(t) \o FileName(t)
  BY FileNameIs
<1>2. /\ Stem(t) \in Seq(Characters) /\ Extension(t) \in Seq(Characters)
      /\ front \in Seq(Characters)
      /\ dot = 0 => Stem(t) = FileName(t)
      /\ dot # 0 => /\ FileName(t) = Stem(t) \o (<<Dot>> \o Extension(t))
                    /\ Len(Stem(t)) = dot - 1
                    /\ <<Dot>> \o Extension(t) \in Seq(Characters)
  BY StemAndExtension
<1>3. ReplaceExtension(t, e) = kept \o back
  BY DEF ReplaceExtension
<1>4. kept = front
  <2>1. CASE dot = 0
    BY <1>1, <1>2, <2>1
  <2>2. CASE dot # 0
    <3> DEFINE w == <<Dot>> \o Extension(t)
    <3>1. w \in Seq(Characters) /\ FileName(t) = Stem(t) \o w /\ Len(Stem(t)) = dot - 1
      BY <1>2, <2>2
    <3>. HIDE DEF w
    <3>2. t = front \o w
      <4>1. Folder(t) \in Seq(Characters) /\ Stem(t) \in Seq(Characters)
            /\ w \in Seq(Characters)
        BY <1>1, <1>2, <3>1
      <4>2. (Folder(t) \o Stem(t)) \o w = Folder(t) \o (Stem(t) \o w)
        BY <4>1, ConcatAssociative
      <4>. QED
        BY <1>1, <3>1, <4>2
    <3>3. SubSeq(front \o w, 1, Len(front)) = front
      BY <1>2, <3>1, CutAt
    <3>4. Len(front) = Len(t) - Len(FileName(t)) + dot - 1
      <4>1. /\ Len(front) = Len(Folder(t)) + Len(Stem(t))
            /\ Len(t) = Len(Folder(t)) + Len(FileName(t))
            /\ Len(Folder(t)) \in Nat /\ Len(FileName(t)) \in Nat /\ Len(Stem(t)) \in Nat
        BY <1>1, <1>2, ConcatProperties, LenProperties
      <4>2. Len(Stem(t)) + 1 = dot
        <5>1. dot \in Nat
          BY <1>1, LastPositionIs, LenProperties DEF ExtensionDot
        <5>. QED
          BY <3>1, <5>1
      <4>. QED
        BY <3>1, <4>1, <4>2
    <3>. QED
      BY <2>2, <3>2, <3>3, <3>4
  <2>. QED
    BY <2>1, <2>2
<1>5. Dot \in Characters
  BY DEF Characters
<1>6. back \in Seq(Characters)
  BY <1>5, EmptySeq, SingletonSeq, ConcatProperties
<1>7. front \o back \in Seq(Characters)
  <2>. HIDE DEF front, back
  <2>. QED
    BY <1>2, <1>6, ConcatProperties
<1>. QED
  BY <1>3, <1>4, <1>7
-----------------------------------------------------------------------------
(* Extensions taken off and put on.                                        *)

LEMMA LettersDiffer ==
  ASSUME NEW e \in Seq(Letters)
  PROVE  /\ e \in Seq(Characters)
         /\ \A i \in 1 .. Len(e) : e[i] # Backslash /\ e[i] # Dot
<1>1. e \in Seq(Characters)
  BY SeqMonotonic DEF Characters
<1>. QED
  BY <1>1, ElementOfSeq, LettersAssumption DEF Separators

LEMMA ExtensionPutOn ==
  ASSUME NEW t \in Seq(Characters), NEW e \in Seq(Letters), e # <<>>
  PROVE  /\ Extension(ReplaceExtension(t, e)) = e
         /\ Stem(ReplaceExtension(t, e)) = Stem(t)
<1> DEFINE folder == Folder(t)
           stem == Stem(t)
           back == <<Dot>> \o e
           name == stem \o back
           front == Append(stem, Dot)
           r == ReplaceExtension(t, e)
<1>1. /\ folder \in Seq(Characters) /\ stem \in Seq(Characters)
      /\ LastPosition(folder, Backslash) = Len(folder)
      /\ \A i \in 1 .. Len(stem) : stem[i] # Backslash
  BY FileNameIs, StemAndExtension
<1>2. /\ e \in Seq(Characters)
      /\ \A i \in 1 .. Len(e) : e[i] # Backslash /\ e[i] # Dot
      /\ Dot \in Characters
  BY LettersDiffer DEF Characters
<1>3. r = (folder \o stem) \o back
  BY <1>2, ReplacedIs
<1>. HIDE DEF folder, stem, r
<1>4. /\ back \in Seq(Characters) /\ front \in Seq(Characters)
      /\ <<Dot>> \in Seq(Characters) /\ front = stem \o <<Dot>>
      /\ Len(front) = Len(stem) + 1 /\ Len(stem) \in Nat
  BY <1>1, <1>2, SingletonSeq, ConcatProperties, AppendProperties, AppendIsConcat,
     LenProperties
<1>5. name = front \o e
  BY <1>1, <1>2, <1>4, ConcatAssociative
<1>6. name \in Seq(Characters)
  <2>. HIDE DEF back
  <2>. QED
    BY <1>1, <1>4, ConcatProperties
<1>7. r = folder \o name
  <2>1. folder \in Seq(Characters) /\ stem \in Seq(Characters) /\ back \in Seq(Characters)
    BY <1>1, <1>4
  <2>. HIDE DEF back
  <2>2. (folder \o stem) \o back = folder \o (stem \o back)
    BY <2>1, ConcatAssociative
  <2>. QED
    BY <1>3, <2>2
<1>8. \A i \in 1 .. Len(name) : name[i] # Backslash
  <2>1. /\ Len(front) \in Nat /\ Len(e) \in Nat
        /\ Len(front \o e) = Len(front) + Len(e)
        /\ \A i \in 1 .. Len(front) + Len(e) :
             (front \o e)[i] = IF i <= Len(front) THEN front[i] ELSE e[i - Len(front)]
    <3>. HIDE DEF front
    <3>. QED
      BY <1>2, <1>4, ConcatProperties, LenProperties
  <2>2. \A i \in 1 .. Len(front) : front[i] # Backslash
    <3>1. /\ \A i \in 1 .. Len(stem) : front[i] = stem[i]
          /\ front[Len(stem) + 1] = Dot
      BY <1>1, <1>2, AppendProperties
    <3>2. Len(front) = Len(stem) + 1 /\ Len(stem) \in Nat
      BY <1>4
    <3>. HIDE DEF front
    <3>3. ASSUME NEW i \in 1 .. Len(front) PROVE front[i] # Backslash
      <4>1. i \in 1 .. Len(stem) \/ i = Len(stem) + 1
        BY <3>2
      <4>. QED
        BY <1>1, <3>1, <4>1, CharactersDiffer
    <3>. QED
      BY <3>3
  <2>. HIDE DEF front, name
  <2>3. ASSUME NEW i \in 1 .. Len(front) + Len(e) PROVE (front \o e)[i] # Backslash
    <3>1. CASE i <= Len(front)
      BY <2>1, <2>2, <3>1
    <3>2. CASE ~(i <= Len(front))
      <4>1. i - Len(front) \in 1 .. Len(e)
        BY <2>1, <3>2
      <4>. QED
        BY <1>2, <2>1, <3>2, <4>1
    <3>. QED
      BY <3>1, <3>2
  <2>. QED
    BY <1>5, <2>1, <2>3
<1>9. FileName(r) = name
  <2>. HIDE DEF name
  <2>1. LastPosition(r, Backslash) = Len(folder) /\ r \in Seq(Characters)
    BY <1>1, <1>6, <1>7, <1>8, LastPositionBehind, ConcatProperties
  <2>2. FileName(r) = SubSeq(r, Len(folder) + 1, Len(r))
    BY <2>1, FileNameIs
  <2>. QED
    BY <1>1, <1>6, <1>7, <2>2, CutAt
<1>10. ExtensionDot(name) = Len(stem) + 1
  <2>1. LastPosition(front, Dot) = Len(stem) + 1
    BY <1>1, <1>2, LastPositionEnd
  <2>2. LastPosition(front \o e, Dot) = LastPosition(front, Dot)
    <3>. HIDE DEF front
    <3>. QED
      BY <1>2, <1>4, LastPositionBehind
  <2>. HIDE DEF name, front
  <2>. QED
    BY <1>5, <2>1, <2>2 DEF ExtensionDot
<1>. HIDE DEF name, front, back
<1>11. Extension(r) = SubSeq(name, Len(front) + 1, Len(name))
       /\ Stem(r) = SubSeq(name, 1, Len(stem))
  <2>1. Len(stem) + 1 # 0 /\ (Len(stem) + 1) + 1 = Len(front) + 1
        /\ (Len(stem) + 1) - 1 = Len(stem)
    BY <1>4
  <2>. QED
    BY <1>9, <1>10, <2>1 DEF Extension, Stem
<1>12. SubSeq(name, Len(front) + 1, Len(name)) = e
  BY <1>2, <1>4, <1>5, CutAt
<1>13. SubSeq(name, 1, Len(stem)) = stem
  BY <1>1, <1>4, CutAt DEF name
<1>. QED
  BY <1>11, <1>12, <1>13 DEF stem, r

LEMMA ExtensionTakenOff ==
  ASSUME NEW t \in Seq(Characters), ExtensionDot(FileName(t)) # 0
  PROVE  /\ RemoveExtension(t) \o <<Dot>> \o Extension(t) = t
         /\ Stem(t) \o <<Dot>> \o Extension(t) = FileName(t)
<1> DEFINE folder == Folder(t)
           stem == Stem(t)
           ext == Extension(t)
           front == folder \o stem
           back == <<Dot>> \o ext
<1>1. /\ folder \in Seq(Characters) /\ stem \in Seq(Characters)
      /\ ext \in Seq(Characters) /\ back \in Seq(Characters)
      /\ front \in Seq(Characters)
      /\ t = folder \o FileName(t) /\ FileName(t) = stem \o back
  BY FileNameIs, StemAndExtension
<1>2. RemoveExtension(t) = front
  <2>1. <<>> \in Seq(Characters)
    BY EmptySeq
  <2>2. RemoveExtension(t) = front \o <<>>
    BY <2>1, ReplacedIs DEF RemoveExtension
  <2>. HIDE DEF front
  <2>. QED
    BY <1>1, <2>2, ConcatEmptySeq
<1>3. <<Dot>> \in Seq(Characters)
  BY SingletonSeq DEF Characters
<1>. HIDE DEF folder, stem, ext
<1>4. stem \o <<Dot>> \o ext = stem \o back
  BY <1>1, <1>3, ConcatAssociative
<1>5. front \o <<Dot>> \o ext = front \o back
  <2>. HIDE DEF front
  <2>. QED
    BY <1>1, <1>3, ConcatAssociative
<1>6. front \o back = folder \o (stem \o back)
  <2>1. folder \in Seq(Characters) /\ stem \in Seq(Characters) /\ back \in Seq(Characters)
    BY <1>1
  <2>. HIDE DEF back
  <2>. QED
    BY <2>1, ConcatAssociative
<1>. HIDE DEF front, back
<1>. QED
  BY <1>1, <1>2, <1>4, <1>5, <1>6 DEF stem, ext

LEMMA PartsRejoinOf ==
  ASSUME path \in Seq(Characters)
  PROVE  PartsRejoin
BY ParentAndNameOf, ExtensionTakenOff, ExtensionPutOn DEF PartsRejoin, ExtensionIsTheRest
-----------------------------------------------------------------------------
(* What the operations leave in the path.                                  *)

LEMMA JoinTypes ==
  ASSUME NEW left \in Seq(Characters), NEW right \in Seq(Characters)
  PROVE  Join(left, right) \in Seq(Characters)
<1> DEFINE between == IF Last(left) = Backslash THEN <<>> ELSE <<Backslash>>
<1>1. between \in Seq(Characters)
  BY EmptySeq, SingletonSeq DEF Characters, Separators
<1>2. left \o right \in Seq(Characters)
  BY ConcatProperties
<1>. HIDE DEF between
<1>3. left \o between \in Seq(Characters)
  BY <1>1, ConcatProperties
<1>4. left \o between \o right \in Seq(Characters)
  BY <1>3, ConcatProperties
<1>5. Normalized(left \o between \o right) \in Seq(Characters)
  BY <1>4, NormalizedText
<1>. QED
  BY <1>2, <1>5 DEF Join, between

\* Texts and names of which one of several is taken.
TextSets == SUBSET Seq(Characters)

Empty == {<<>>}

LEMMA EmptyTypes == Empty \in TextSets
BY EmptySeq DEF Empty, TextSets

\* JoinOne of texts is texts.
LEMMA JoinOneTypes ==
  ASSUME NEW texts \in TextSets, NEW names \in TextSets
  PROVE  JoinOne(texts, names) \in TextSets
<1>1. <<>> \in Seq(Characters) /\ <<Backslash>> \in Seq(Characters)
  BY EmptySeq, SingletonSeq DEF Characters, Separators
<1>2. ASSUME NEW text \in texts, NEW name \in names \cup {<<>>}
      PROVE  Joins(text, name) \subseteq Seq(Characters)
  <2>1. text \in Seq(Characters) /\ name \in Seq(Characters)
    BY <1>1 DEF TextSets
  <2>. QED
    BY <1>1, <2>1, JoinTypes DEF Joins
<1>. QED
  BY <1>2 DEF JoinOne, TextSets

Gathered(N) == FoldLeft(LAMBDA texts, names : JoinOne(texts, names), Empty, N)

LEMMA GatheredIs == \A N : FoldLeft(JoinOne, {<<>>}, N) = Gathered(N)
BY DEF Gathered, Empty, FoldLeft, MapThenFoldSet

LEMMA GatheredRun ==
  ASSUME NEW N \in Seq(TextSets)
  PROVE  \E h : /\ h[0] = Empty
                /\ \A k \in 1 .. Len(N) : h[k] = JoinOne(h[k - 1], N[k])
                /\ h[Len(N)] = Gathered(N)
<1> DEFINE n == Len(N)
           F == [i \in 1 .. n |-> [x \in TextSets |-> JoinOne(x, N[i])]]
           Folds(g) == g = [s \in SUBSET (1 .. n) |->
                              IF s = {} THEN Empty
                              ELSE JoinOne(g[s \ {Max(s)}], N[Max(s)])]
           f == CHOOSE g : Folds(g)
           h == [k \in 0 .. n |-> f[1 .. k]]
<1>1. n \in Nat /\ DOMAIN N = 1 .. n /\ \A i \in 1 .. n : N[i] \in TextSets
  BY LenProperties
<1>2. Gathered(N) = f[1 .. n]
  BY <1>1 DEF Gathered, FoldLeft, MapThenFoldSet
<1>. HIDE DEF n
<1>3. F \in [1 .. n -> [TextSets -> TextSets]]
  BY <1>1, JoinOneTypes
<1>. HIDE DEF F
<1>4. PICK g \in [SUBSET (1 .. n) -> TextSets] : IsFold(g, F, Empty, n)
  <2>1. n \in Nat /\ Empty \in TextSets
    BY <1>1, EmptyTypes
  <2>. HIDE DEF h, f, Folds
  <2>. QED
    BY <1>3, <2>1, FoldExists
<1>5. ASSUME NEW s \in SUBSET (1 .. n), s # {}
      PROVE  g[s] = JoinOne(g[s \ {Max(s)}], N[Max(s)])
  <2>1. Max(s) \in 1 .. n /\ s \ {Max(s)} \in SUBSET (1 .. n)
    BY <1>1, <1>5, MaxInterval
  <2>. QED
    BY <1>4, <1>5, <2>1 DEF F, IsFold
<1>6. Folds(g)
  BY <1>4, <1>5 DEF IsFold
<1>. HIDE DEF Folds
<1>7. Folds(f)
  BY <1>6
<1>. HIDE DEF f
<1>8. \A s \in SUBSET (1 .. n) :
        f[s] = IF s = {} THEN Empty
               ELSE JoinOne(f[s \ {Max(s)}], N[Max(s)])
  BY <1>7 DEF Folds
<1>9. f[1 .. 0] = Empty
  <2>1. {} \in SUBSET (1 .. n) /\ 1 .. 0 = {}
    OBVIOUS
  <2>. QED
    BY <1>8, <2>1
<1>10. ASSUME NEW k \in 1 .. n PROVE f[1 .. k] = JoinOne(f[1 .. (k - 1)], N[k])
  <2>1. k \in Nat /\ k # 0 /\ 1 .. k \in SUBSET (1 .. n)
    BY <1>1
  <2>. DEFINE s == 1 .. k
  <2>2. s \in SUBSET (1 .. k) /\ k \in s /\ s # {} /\ s \ {k} = 1 .. (k - 1)
    BY <2>1, IntervalFront
  <2>. HIDE DEF s
  <2>3. Max(s) = k
    BY <2>1, <2>2, IntervalFront
  <2>. QED
    BY <1>8, <2>1, <2>2, <2>3 DEF s
<1>11. h[0] = Empty /\ h[n] = f[1 .. n]
       /\ \A k \in 1 .. n : h[k] = JoinOne(h[k - 1], N[k])
  BY <1>1, <1>9, <1>10
<1>. HIDE DEF h
<1>. QED
  BY <1>2, <1>11 DEF n

LEMMA GatheredTypes ==
  ASSUME NEW N \in Seq(TextSets)
  PROVE  Gathered(N) \in TextSets
<1> DEFINE n == Len(N)
<1>1. n \in Nat /\ \A k \in 1 .. n : N[k] \in TextSets
  BY LenProperties
<1>2. PICK h : /\ h[0] = Empty
               /\ \A k \in 1 .. n : h[k] = JoinOne(h[k - 1], N[k])
               /\ h[n] = Gathered(N)
  BY GatheredRun
<1>. HIDE DEF n
<1> DEFINE T == {k \in Nat : k <= n => h[k] \in TextSets}
<1>3. 0 \in T
  BY <1>2, EmptyTypes
<1>4. ASSUME NEW k \in Nat, k \in T PROVE k + 1 \in T
  <2>1. CASE k + 1 <= n
    <3>1. k + 1 \in 1 .. n /\ (k + 1) - 1 = k /\ k <= n
      BY <1>1, <2>1
    <3>2. h[k + 1] = JoinOne(h[k], N[k + 1])
      BY <1>2, <3>1
    <3>3. h[k] \in TextSets /\ N[k + 1] \in TextSets
      BY <1>1, <1>4, <3>1
    <3>. QED
      BY <3>2, <3>3, JoinOneTypes
  <2>. QED
    BY <2>1
<1>. HIDE DEF T
<1>5. Nat \subseteq T
  BY <1>3, <1>4, NatSetInduction
<1>6. n \in T
  BY <1>1, <1>5
<1>. QED
  BY <1>1, <1>2, <1>6 DEF T

\* What is read for a name is a text.
LEMMA StaleTypes ==
  ASSUME NEW name \in Seq(Characters)
  PROVE  Stale(name) \in TextSets
<1>1. Len(name) \in Nat /\ DOMAIN name = 1 .. Len(name) /\ Range(name) \subseteq Characters
  BY LenProperties DEF Range
<1>2. [DOMAIN name -> Range(name) \cup Leftovers] \subseteq [1 .. Len(name) -> Characters]
  BY <1>1, LeftoversAssumption
<1>3. [1 .. Len(name) -> Characters] \subseteq Seq(Characters)
  BY <1>1, SeqDef
<1>. QED
  BY <1>2, <1>3 DEF Stale, TextSets

LEMMA WayTypes ==
  ASSUME NEW target \in Seq(Names), NEW base \in Seq(Names),
         NEW common \in Commons(target, base)
  PROVE  Way(target, base, common) \in Seq(TextSets)
<1> DEFINE up == Len(base) - common
           down == Len(target) - common
           climb == [i \in 1 .. up |-> {Up}]
           descent == [i \in 1 .. down |-> Stale(target[common + i])]
<1>1. common \in Nat /\ up \in Nat /\ down \in Nat
  BY LenProperties DEF Commons
<1>2. climb \in Seq(TextSets)
  <2>1. {Up} \in TextSets
    BY UpIsNotHere, NameEnds DEF TextSets
  <2>2. climb \in [1 .. up -> TextSets]
    BY <2>1
  <2>. QED
    BY <1>1, <2>2, SeqDef, Zenon
<1>3. descent \in Seq(TextSets)
  <2>1. ASSUME NEW i \in 1 .. down
        PROVE  Stale(target[common + i]) \in TextSets
    <3>1. common + i \in 1 .. Len(target)
      BY <1>1, LenProperties
    <3>2. target[common + i] \in Names
      BY <3>1, LenProperties
    <3>. QED
      BY <3>2, NameEnds, StaleTypes
  <2>2. descent \in [1 .. down -> TextSets]
    BY <2>1
  <2>. QED
    BY <1>1, <2>2, SeqDef, Zenon
<1>. HIDE DEF climb, descent
<1>4. climb \o descent \in Seq(TextSets)
  BY <1>2, <1>3, ConcatProperties
<1>. QED
  BY <1>4 DEF Way, climb, descent

\* Whatever is read for its components, RelativeTo returns a text.
LEMMA RelativeTypes ==
  ASSUME NEW t \in Seq(Characters), NEW base \in Seq(Characters)
  PROVE  RelativeTo(t, base) \subseteq Seq(Characters)
<1> DEFINE targets == {Components(Normalized(t)), <<>>}
           bases == {Components(Normalized(base)), <<>>}
<1>1. targets \subseteq Seq(Names) /\ bases \subseteq Seq(Names)
  BY NormalizedText, EmptySeq
<1>2. ASSUME NEW target \in targets, NEW from \in bases, NEW common \in Commons(target, from)
      PROVE  FoldLeft(JoinOne, {<<>>}, Way(target, from, common)) \subseteq Seq(Characters)
  <2>1. Way(target, from, common) \in Seq(TextSets)
    BY <1>1, WayTypes
  <2>2. Gathered(Way(target, from, common)) \in TextSets
    BY <2>1, GatheredTypes
  <2>. QED
    BY <2>2, GatheredIs DEF TextSets
<1>. QED
  BY <1>2 DEF RelativeTo

LEMMA ParentTypes ==
  ASSUME NEW t \in Seq(Characters)
  PROVE  Parent(t) \in Seq(Characters)
<1> DEFINE normal == Normalized(t)
           last == LastPosition(normal, Backslash)
<1>1. normal \in Seq(Characters)
  BY NormalizedText
<1>. HIDE DEF normal
<1>2. last \in 0 .. Len(normal) /\ Len(normal) \in Nat
  BY <1>1, LastPositionIs, LenProperties
<1>. HIDE DEF last
<1>3. SubSeq(normal, 1, last - 1) \in Seq(Characters)
  <2>1. last - 1 \in Int /\ last - 1 <= Len(normal) /\ 1 \in Int /\ 1 <= 1
    BY <1>2
  <2>. QED
    BY <1>1, <2>1, PartTypes
<1>4. <<Backslash>> \in Seq(Characters)
  BY SingletonSeq DEF Characters, Separators
<1>. QED
  BY <1>1, <1>3, <1>4 DEF Parent, normal, last

IsText == path \in Seq(Characters)

LEMMA PathTypes == PathSpec => []IsText
<1>1. PathInit => IsText
  BY EmptySeq DEF PathInit, IsText
<1>2. IsText /\ [PathNext]_path => IsText'
  <2>. SUFFICES ASSUME path \in Seq(Characters), [PathNext]_path
                PROVE  path' \in Seq(Characters)
    BY DEF IsText
  <2>1. <<>> \in Seq(Characters)
    BY EmptySeq
  <2>2. CASE Assign
    <3>1. ShortTexts \subseteq Seq(Characters)
      <4>1. \A n \in 0 .. MaxLength : [1 .. n -> Characters] \subseteq Seq(Characters)
        BY PathAssumption, SeqDef
      <4>. QED
        BY <4>1 DEF ShortTexts
    <3>. QED
      BY <2>2, <3>1 DEF Assign
  <2>3. CASE Normalize
    BY <2>1, <2>3, NormalizedText DEF Normalize
  <2>4. CASE JoinWith
    <3>1. PICK t \in Operands : path' \in Joins(path, t)
      BY <2>4 DEF JoinWith
    <3>2. t \in Seq(Characters) /\ <<Backslash>> \in Seq(Characters)
      BY PathAssumption, SingletonSeq DEF Characters, Separators
    <3>. QED
      BY <2>1, <3>1, <3>2, JoinTypes DEF Joins
  <2>5. CASE GoToParent
    BY <2>1, <2>5, ParentTypes DEF GoToParent
  <2>6. CASE Relate
    BY <2>6, RelativeTypes, PathAssumption DEF Relate
  <2>7. CASE Rename
    BY <2>1, <2>7, ReplacedIs, PathAssumption DEF Rename
  <2>8. CASE UNCHANGED path
    BY <2>8
  <2>. QED
    BY <2>2, <2>3, <2>4, <2>5, <2>6, <2>7, <2>8 DEF PathNext
<1>. QED
  BY <1>1, <1>2, PTL DEF PathSpec

\* Whatever its owner makes of a path, of any length and with any operands,
\* Path::Normalized gives one text for what it names and keeps what it names
\* (up to one directory above its start).
THEOREM NormalFormCorrect == PathSpec => []NormalFormHolds
<1>1. IsText => NormalFormHolds
  BY NormalFormOf DEF IsText
<1>. QED
  BY <1>1, PathTypes, PTL

\* What Parent, FileName, Stem, Extension and ReplaceExtension take a path
\* apart into makes the path again.
THEOREM PartsRejoinCorrect == PathSpec => []PartsRejoin
<1>1. IsText => PartsRejoin
  BY PartsRejoinOf DEF IsText
<1>. QED
  BY <1>1, PathTypes, PTL
-----------------------------------------------------------------------------
(* What a File asks for.                                                   *)

\* The normalized text has the names that a text means, behind at most a "..".
LEMMA NormalizedLeads ==
  ASSUME NEW t \in Seq(Characters)
  PROVE  /\ Meaning(t).names \in Seq(Names)
         /\ \/ Components(Normalized(t)) = Meaning(t).names
            \/ Components(Normalized(t)) = <<Up>> \o Meaning(t).names
<1> DEFINE a == IsAbsolute(t)
           M == Split(t, Separators)
<1>1. M \in Seq(Names) /\ Components(Normalized(t)) = Resolved(a, M)
  BY NormalizedText
<1>2. Meaning(t) = Walked(a, M)
  BY MeaningIs
<1>. HIDE DEF a, M
<1>3. Follows(a, Walked(a, M), Resolved(a, M)) /\ Walked(a, M) \in Places
  BY <1>1, FollowsAlways, WalkedSteps
<1>. QED
  BY <1>1, <1>2, <1>3 DEF Follows, Places

\* What the firmware finds under a path is what the path names.
LEMMA NodeIsNamed ==
  ASSUME NEW t \in Texts, NodeOf[t] # None
  PROVE  NodeOf[t] = NamedNode[t]
<1> DEFINE names == Meaning(t).names
           found == Components(Normalized(t))
<1>1. names \in Seq(Names) /\ (found = names \/ found = <<Up>> \o names)
  BY NormalizedLeads, FileAssumption
<1>2. NodeOf[t] = Node(found) /\ NamedNode[t] = Node(names)
  BY DEF NodeOf, NamedNode
<1>. HIDE DEF names, found
<1>3. ASSUME found = <<Up>> \o names PROVE Node(found) = None
  <2>1. /\ <<Up>> \o names \in Seq(Names) /\ <<Up>> \o names # <<>>
        /\ Head(<<Up>> \o names) = Up
    <3>1. <<Up>> \in Seq(Names) /\ <<Up>> # <<>> /\ Head(<<Up>>) = Up
      BY UpIsNotHere, SingletonSeq, EmptySeq
    <3>2. <<Up>> \o names \in Seq(Names) /\ Len(<<Up>> \o names) = 1 + Len(names)
          /\ Len(names) \in Nat /\ (<<Up>> \o names)[1] = Up
      BY <1>1, <3>1, ConcatProperties, LenProperties
    <3>3. <<Up>> \o names # <<>>
      BY <3>2, EmptySeq
    <3>. QED
      BY <3>2, <3>3, HeadTailProperties DEF Head
  <2>2. Len(Up) = 2
    BY DEF Up
  <2>3. Up # <<"f">> /\ Up # <<"d">>
    <3>1. Len(<<"f">>) = 1 /\ Len(<<"d">>) = 1
      OBVIOUS
    <3>. QED
      BY <2>2, <3>1
  <2>4. Head(<< <<"f">> >>) = <<"f">> /\ Head(<< <<"d">> >>) = <<"d">>
    OBVIOUS
  <2>5. found # << <<"f">> >> /\ found # << <<"d">> >> /\ found # <<>>
    BY <1>3, <2>1, <2>3, <2>4
  <2>. QED
    BY <2>5 DEF Node
<1>. QED
  BY <1>1, <1>2, <1>3
-----------------------------------------------------------------------------
(* Machines.                                                               *)

Contents == Seq(Bytes) \cup {None}

Disks == [ToSet(Volumes) -> Contents]

Handles ==
  [volume : ToSet(Volumes), node : {"file", "directory"}, position : Nat,
   writable : BOOLEAN]

Tables == UNION {[S -> Handles] : S \in SUBSET Nat}

FileRecords ==
  [handle : Nat \cup {None}, volume : ToSet(Volumes) \cup {None},
   info : [size : Nat, directory : BOOLEAN], open : BOOLEAN, append : BOOLEAN]

Machines ==
  [disk : Disks, handles : Tables, file : FileRecords, ok : BOOLEAN,
   data : Seq(Bytes), status : {"Stale", "Success", "Warning", "Error"}]

\* The handle a machine's File holds.
Held(m) == IF IsValid(m) THEN {m.file.handle} ELSE {}

\* What a File keeps about its handle is what the firmware says of it.
Described(m) ==
  /\ m.file.volume = Own(m).volume
  /\ m.file.info.directory = (Own(m).node = "directory")

\* The open handles are those of the others and the machine's own.
Sound(m, others) ==
  /\ m \in Machines
  /\ DOMAIN m.handles = DOMAIN others \cup Held(m)
  /\ m.file.handle \notin DOMAIN others
  /\ \A h \in DOMAIN others : m.handles[h] = others[h]
  /\ IsValid(m) => Described(m)

\* The handles of the other Files: one each, at most.
Others(others) ==
  /\ others \in Tables
  /\ IsFiniteSet(DOMAIN others)
  /\ Cardinality(DOMAIN others) < Cardinality(Files)

\* The size the File keeps is the size the file has.
Matching(m) ==
  Own(m).node = "file" => Content(m) # None /\ Len(Content(m)) = m.file.info.size

\* The File is closed, or has just asked for the size.
Opened(m) == IsValid(m) => Matching(m)

\* The File has the same handle as before, and knows as much of it.
SameHandle(m, r) ==
  /\ r.file.handle = m.file.handle /\ r.file.volume = m.file.volume
  /\ r.file.info = m.file.info
  /\ IsValid(m) => Own(r).node = Own(m).node

\* What the machine of a call that is not around the File may have become.
Settled(m, r) == Opened(r) \/ (SameHandle(m, r) /\ (r.ok => r.disk = m.disk))

-----------------------------------------------------------------------------
LEMMA Constants ==
  /\ None \notin Nat /\ None \notin ToSet(Volumes) /\ None \notin Seq(Bytes)
  /\ Volumes \in Seq(ToSet(Volumes)) /\ Volumes # <<>>
  /\ Zero \in Bytes
  /\ IsFiniteSet(Files) /\ Cardinality(Files) \in Nat
  /\ MaxSize \in Nat
<1>1. Zero \in Bytes
  BY FileAssumption DEF Zero
<1>. QED
  BY <1>1, FileAssumption, FS_CardinalityType

LEMMA MaxOfTwo ==
  ASSUME NEW a \in Nat, NEW b \in Nat
  PROVE  Max({a, b}) \in Nat /\ Max({a, b}) >= a /\ Max({a, b}) >= b
                             /\ Max({a, b}) \in {a, b}
<1>1. \E x \in {a, b} : \A y \in {a, b} : x >= y
  OBVIOUS
<1>. QED
  BY <1>1 DEF Max

LEMMA MinOfTwo ==
  ASSUME NEW a \in Nat, NEW b \in Nat
  PROVE  Min({a, b}) \in Nat /\ Min({a, b}) <= a /\ Min({a, b}) <= b
                             /\ Min({a, b}) \in {a, b}
<1>1. \E x \in {a, b} : \A y \in {a, b} : x =< y
  OBVIOUS
<1>. QED
  BY <1>1 DEF Min

\* There is a handle to give out as long as no more Files than there are hold
\* one.
LEMMA FreshHandle ==
  ASSUME NEW m, IsFiniteSet(DOMAIN m.handles),
         Cardinality(DOMAIN m.handles) <= Cardinality(Files)
  PROVE  Fresh(m) \in Nat /\ Fresh(m) \notin DOMAIN m.handles
<1> DEFINE N == Cardinality(Files)
<1>1. N \in Nat /\ Cardinality(DOMAIN m.handles) \in Nat
  BY Constants, FS_CardinalityType
<1>2. IsFiniteSet(1 .. N + 1) /\ Cardinality(1 .. N + 1) = N + 1
  <2>. HIDE DEF N
  <2> DEFINE K == N + 1
  <2>1. K \in Int /\ 1 \in Int /\ ~(1 > K) /\ K - 1 + 1 = N + 1
    BY <1>1
  <2>. HIDE DEF K
  <2>2. IsFiniteSet(1 .. K) /\ Cardinality(1 .. K) = K - 1 + 1
    BY <2>1, FS_Interval
  <2>. QED
    BY <2>1, <2>2 DEF K
<1>3. ~(1 .. N + 1 \subseteq DOMAIN m.handles)
  <2>. HIDE DEF N
  <2>. SUFFICES ASSUME 1 .. N + 1 \subseteq DOMAIN m.handles PROVE FALSE
    OBVIOUS
  <2>1. Cardinality(1 .. N + 1) <= Cardinality(DOMAIN m.handles)
    BY FS_Subset
  <2>. QED
    BY <1>1, <1>2, <2>1 DEF N
<1>4. \E h \in 1 .. N + 1 : h \notin DOMAIN m.handles
  BY <1>3
<1>5. Fresh(m) \in 1 .. N + 1 /\ Fresh(m) \notin DOMAIN m.handles
  BY <1>4 DEF Fresh
<1>. QED
  BY <1>5, <1>1

-----------------------------------------------------------------------------
(* The firmware.                                                           *)

LEMMA TableExtended ==
  ASSUME NEW t \in Tables, NEW h \in Nat, NEW x \in Handles
  PROVE  LET u == [k \in DOMAIN t \cup {h} |-> IF k # h THEN t[k] ELSE x]
         IN  /\ u \in Tables
             /\ DOMAIN u = DOMAIN t \cup {h}
             /\ u[h] = x
             /\ \A k \in DOMAIN t \ {h} : u[k] = t[k]
<1>1. PICK S \in SUBSET Nat : t \in [S -> Handles]
  BY DEF Tables
<1>2. [k \in DOMAIN t \cup {h} |-> IF k # h THEN t[k] ELSE x]
        \in [S \cup {h} -> Handles]
  BY <1>1
<1>. QED
  BY <1>1, <1>2 DEF Tables

LEMMA TableRestrict ==
  ASSUME NEW t \in Tables, NEW S \in SUBSET DOMAIN t
  PROVE  /\ Restrict(t, S) \in Tables
         /\ DOMAIN Restrict(t, S) = S
         /\ \A k \in S : Restrict(t, S)[k] = t[k]
BY DEF Tables, Restrict

LEMMA TableExcept ==
  ASSUME NEW t \in Tables, NEW h \in DOMAIN t, NEW p \in Nat
  PROVE  LET u == [t EXCEPT ![h].position = p]
         IN  /\ u \in Tables
             /\ DOMAIN u = DOMAIN t
             /\ u[h] = [t[h] EXCEPT !.position = p]
             /\ u[h].node = t[h].node /\ u[h].volume = t[h].volume
             /\ u[h].position = p /\ u[h].writable = t[h].writable
             /\ \A k \in DOMAIN t \ {h} : u[k] = t[k]
<1>1. PICK S \in SUBSET Nat : t \in [S -> Handles]
  BY DEF Tables
<1>2. t[h] \in Handles
  BY <1>1
<1>3. [t[h] EXCEPT !.position = p] \in Handles
  BY <1>2 DEF Handles
<1>4. [t EXCEPT ![h].position = p] \in [S -> Handles]
  BY <1>1, <1>3
<1>5. [t[h] EXCEPT !.position = p].node = t[h].node
      /\ [t[h] EXCEPT !.position = p].volume = t[h].volume
      /\ [t[h] EXCEPT !.position = p].position = p
      /\ [t[h] EXCEPT !.position = p].writable = t[h].writable
  BY <1>2 DEF Handles
<1>. QED
  BY <1>1, <1>4, <1>5 DEF Tables

LEMMA TableTypes ==
  ASSUME NEW t \in Tables
  PROVE  DOMAIN t \subseteq Nat /\ \A h \in DOMAIN t : t[h] \in Handles
BY DEF Tables

LEMMA OwnHandle ==
  ASSUME NEW others, NEW m, Sound(m, others), IsValid(m)
  PROVE  /\ m.file.handle \in DOMAIN m.handles /\ m.file.handle \in Nat
         /\ m.file.handle \notin DOMAIN others
         /\ Own(m) \in Handles
         /\ m.handles \in Tables /\ m.disk \in Disks /\ m.file \in FileRecords
         /\ Own(m).volume = m.file.volume /\ Own(m).volume \in ToSet(Volumes)
         /\ Content(m) \in Contents /\ Content(m) = m.disk[m.file.volume]
         /\ Content(m) # None => Content(m) \in Seq(Bytes)
<1>1. m.handles \in Tables /\ m.disk \in Disks /\ m.file \in FileRecords
  BY DEF Sound, Machines
<1>2. m.file.handle \in DOMAIN m.handles /\ m.file.handle \in Nat
  BY <1>1 DEF Sound, Held, IsValid, FileRecords
<1>3. Own(m) \in Handles
  BY <1>1, <1>2, TableTypes DEF Own
<1>4. Own(m).volume = m.file.volume /\ Own(m).volume \in ToSet(Volumes)
  BY <1>3 DEF Sound, Described, Handles
<1>5. Content(m) \in Contents /\ Content(m) = m.disk[m.file.volume]
  BY <1>1, <1>4 DEF Content, Disks
<1>. QED
  BY <1>1, <1>2, <1>3, <1>4, <1>5 DEF Sound, Contents

LEMMA MovedSound ==
  ASSUME NEW others, NEW m, Sound(m, others), IsValid(m),
         NEW p \in Nat \cup {End}, IsFile(m) => Content(m) # None
  PROVE  LET r == Moved(m, p)
         IN  /\ Sound(r, others)
             /\ r.disk = m.disk /\ r.file = m.file /\ r.ok = m.ok
             /\ r.data = m.data /\ r.status = m.status
             /\ Own(r).node = Own(m).node /\ Own(r).volume = Own(m).volume
             /\ Own(r).writable = Own(m).writable
             /\ Own(r).position \in Nat
             /\ p \in Nat => Own(r).position = p
             /\ Content(r) = Content(m)
<1> DEFINE h == m.file.handle
           x == CASE p # End -> p
                  [] p = End /\ IsFile(m) -> Len(Content(m))
                  [] OTHER -> 0
           u == [m.handles EXCEPT ![h].position = x]
           r == Moved(m, p)
<1>1. m \in Machines
  BY DEF Sound
<1>2. x \in Nat /\ (p \in Nat => x = p)
  <2>1. IsFile(m) => Len(Content(m)) \in Nat
    BY OwnHandle, LenProperties
  <2>. QED
    BY <2>1 DEF End
<1>. HIDE DEF x
<1>3. /\ u \in Tables /\ DOMAIN u = DOMAIN m.handles
      /\ u[h].node = Own(m).node /\ u[h].volume = Own(m).volume
      /\ u[h].position = x /\ u[h].writable = Own(m).writable
      /\ \A k \in DOMAIN m.handles \ {h} : u[k] = m.handles[k]
  BY <1>2, OwnHandle, TableExcept DEF Own
<1>4. r = [m EXCEPT !.handles = u]
  BY <1>1 DEF Moved, x, Machines
<1>. HIDE DEF u, r
<1>5. /\ r \in Machines /\ r.handles = u
      /\ r.disk = m.disk /\ r.file = m.file /\ r.ok = m.ok
      /\ r.data = m.data /\ r.status = m.status
  BY <1>1, <1>3, <1>4 DEF Machines
<1>6. Own(r) = u[h] /\ IsValid(r)
  BY <1>5 DEF Own, IsValid
<1>7. Sound(r, others)
  <2>1. \A k \in DOMAIN others : r.handles[k] = others[k]
    <3>. TAKE k \in DOMAIN others
    <3>1. k \in DOMAIN m.handles \ {h} /\ m.handles[k] = others[k]
      BY DEF Sound
    <3>. QED
      BY <1>3, <1>5, <3>1
  <2>2. DOMAIN r.handles = DOMAIN others \cup Held(r)
    BY <1>3, <1>5 DEF Sound, Held, IsValid
  <2>3. Described(r)
    BY <1>3, <1>5, <1>6 DEF Sound, Described
  <2>. QED
    BY <1>5, <2>1, <2>2, <2>3 DEF Sound
<1>8. Content(r) = Content(m)
  BY <1>3, <1>5, <1>6 DEF Content
<1>9. Moved(m, p) = r
  BY DEF r
<1>. QED
  BY <1>2, <1>3, <1>5, <1>6, <1>7, <1>8, <1>9

LEMMA DiskSound ==
  ASSUME NEW others, NEW m, Sound(m, others), NEW v \in ToSet(Volumes),
         NEW c \in Contents
  PROVE  LET r == [m EXCEPT !.disk[v] = c]
         IN  /\ Sound(r, others)
             /\ r.handles = m.handles /\ r.file = m.file /\ r.ok = m.ok
             /\ r.data = m.data /\ r.status = m.status /\ Own(r) = Own(m)
             /\ r.disk[v] = c
             /\ \A w \in ToSet(Volumes) \ {v} : r.disk[w] = m.disk[w]
<1> DEFINE d == [m.disk EXCEPT ![v] = c]
           r == [m EXCEPT !.disk[v] = c]
<1>1. m \in Machines /\ m.disk \in Disks
  BY DEF Sound, Machines
<1>2. d \in Disks /\ d[v] = c /\ \A w \in ToSet(Volumes) \ {v} : d[w] = m.disk[w]
  BY <1>1 DEF Disks
<1>3. r = [m EXCEPT !.disk = d]
  BY <1>1 DEF Machines
<1>. HIDE DEF d, r
<1>4. /\ r \in Machines /\ r.disk = d /\ r.handles = m.handles /\ r.file = m.file
      /\ r.ok = m.ok /\ r.data = m.data /\ r.status = m.status
  BY <1>1, <1>2, <1>3 DEF Machines
<1>5. Own(r) = Own(m) /\ Held(r) = Held(m) /\ IsValid(r) = IsValid(m)
  BY <1>4 DEF Own, Held, IsValid
<1>6. Sound(r, others)
  BY <1>4, <1>5 DEF Sound, Described
<1>. QED
  BY <1>2, <1>4, <1>5, <1>6 DEF r

\* What a call returns changes nothing of the handles.
LEMMA SameSound ==
  ASSUME NEW others, NEW m, Sound(m, others), NEW r \in Machines,
         r.handles = m.handles, r.file = m.file, r.disk = m.disk
  PROVE  Sound(r, others) /\ Own(r) = Own(m) /\ Content(r) = Content(m)
BY DEF Sound, Described, Own, Held, IsValid, Content

LEMMA ReturnsSound ==
  ASSUME NEW others, NEW m, Sound(m, others), NEW ok \in BOOLEAN,
         NEW status \in {"Stale", "Success", "Warning", "Error"}
  PROVE  LET r == Returns(m, ok, status)
         IN  /\ Sound(r, others) /\ r.handles = m.handles /\ r.file = m.file
             /\ r.disk = m.disk /\ r.ok = ok /\ r.status = status
             /\ Own(r) = Own(m) /\ Content(r) = Content(m)
<1> DEFINE r == Returns(m, ok, status)
<1>1. m \in Machines
  BY DEF Sound
<1>2. /\ r \in Machines /\ r.handles = m.handles /\ r.file = m.file
      /\ r.disk = m.disk /\ r.ok = ok /\ r.status = status
  BY <1>1 DEF Machines, Returns
<1>. QED
  BY <1>2, SameSound

LEMMA FailedSound ==
  ASSUME NEW others, NEW m, Sound(m, others)
  PROVE  LET r == Failed(m)
         IN  /\ Sound(r, others) /\ r.handles = m.handles /\ r.file = m.file
             /\ r.disk = m.disk /\ r.ok = FALSE /\ r.status = "Error"
             /\ Own(r) = Own(m) /\ Content(r) = Content(m)
BY ReturnsSound DEF Failed

LEMMA SucceededSound ==
  ASSUME NEW others, NEW m, Sound(m, others)
  PROVE  LET r == Succeeded(m)
         IN  /\ Sound(r, others) /\ r.handles = m.handles /\ r.file = m.file
             /\ r.disk = m.disk /\ r.ok = TRUE
             /\ Own(r) = Own(m) /\ Content(r) = Content(m)
<1> DEFINE ok == TRUE
<1>1. ok \in BOOLEAN /\ "Success" \in {"Stale", "Success", "Warning", "Error"}
  OBVIOUS
<1>. HIDE DEF ok
<1>2. LET q == Returns(m, ok, "Success")
      IN  /\ Sound(q, others) /\ q.handles = m.handles /\ q.file = m.file
          /\ q.disk = m.disk /\ q.ok = ok
          /\ Own(q) = Own(m) /\ Content(q) = Content(m)
  BY <1>1, ReturnsSound
<1>. QED
  BY <1>2 DEF Succeeded, ok

\* A success that came short, and one with a warning.
LEMMA ShortSound ==
  ASSUME NEW others, NEW m, Sound(m, others)
  PROVE  LET r == Returns(m, FALSE, "Success")
         IN  /\ Sound(r, others) /\ r.handles = m.handles /\ r.file = m.file
             /\ r.disk = m.disk /\ r.ok = FALSE
             /\ Own(r) = Own(m) /\ Content(r) = Content(m)
<1> DEFINE ok == FALSE
<1>1. ok \in BOOLEAN /\ "Success" \in {"Stale", "Success", "Warning", "Error"}
  OBVIOUS
<1>. HIDE DEF ok
<1>2. LET q == Returns(m, ok, "Success")
      IN  /\ Sound(q, others) /\ q.handles = m.handles /\ q.file = m.file
          /\ q.disk = m.disk /\ q.ok = ok
          /\ Own(q) = Own(m) /\ Content(q) = Content(m)
  BY <1>1, ReturnsSound
<1>. QED
  BY <1>2 DEF ok

LEMMA WarnedSound ==
  ASSUME NEW others, NEW m, Sound(m, others)
  PROVE  LET r == Returns(m, TRUE, "Warning")
         IN  /\ Sound(r, others) /\ r.handles = m.handles /\ r.file = m.file
             /\ r.disk = m.disk /\ r.ok = TRUE
             /\ Own(r) = Own(m) /\ Content(r) = Content(m)
<1> DEFINE ok == TRUE
<1>1. ok \in BOOLEAN /\ "Warning" \in {"Stale", "Success", "Warning", "Error"}
  OBVIOUS
<1>. HIDE DEF ok
<1>2. LET q == Returns(m, ok, "Warning")
      IN  /\ Sound(q, others) /\ q.handles = m.handles /\ q.file = m.file
          /\ q.disk = m.disk /\ q.ok = ok
          /\ Own(q) = Own(m) /\ Content(q) = Content(m)
  BY <1>1, ReturnsSound
<1>. QED
  BY <1>2 DEF ok

LEMMA OkSound ==
  ASSUME NEW others, NEW m, Sound(m, others), NEW ok \in BOOLEAN
  PROVE  LET r == [m EXCEPT !.ok = ok]
         IN  /\ Sound(r, others) /\ r.handles = m.handles /\ r.file = m.file
             /\ r.disk = m.disk /\ r.ok = ok
             /\ Own(r) = Own(m) /\ Content(r) = Content(m)
<1> DEFINE r == [m EXCEPT !.ok = ok]
<1>1. m \in Machines
  BY DEF Sound
<1>2. /\ r \in Machines /\ r.handles = m.handles /\ r.file = m.file
      /\ r.disk = m.disk /\ r.ok = ok
  BY <1>1 DEF Machines
<1>. QED
  BY <1>2, SameSound

LEMMA DataSound ==
  ASSUME NEW others, NEW m, Sound(m, others), NEW data \in Seq(Bytes)
  PROVE  LET r == [m EXCEPT !.data = data]
         IN  /\ Sound(r, others) /\ r.handles = m.handles /\ r.file = m.file
             /\ r.disk = m.disk /\ r.ok = m.ok /\ r.data = data
             /\ Own(r) = Own(m) /\ Content(r) = Content(m)
<1> DEFINE r == [m EXCEPT !.data = data]
<1>1. m \in Machines
  BY DEF Sound
<1>2. /\ r \in Machines /\ r.handles = m.handles /\ r.file = m.file
      /\ r.disk = m.disk /\ r.ok = m.ok /\ r.data = data
  BY <1>1 DEF Machines
<1>. QED
  BY <1>2, SameSound

LEMMA InformedSound ==
  ASSUME NEW others, NEW m \in Machines, IsValid(m),
         DOMAIN m.handles = DOMAIN others \cup Held(m),
         m.file.handle \notin DOMAIN others,
         \A h \in DOMAIN others : m.handles[h] = others[h],
         m.file.volume = Own(m).volume,
         IsFile(m) => Content(m) # None
  PROVE  LET r == Informed(m)
         IN  /\ Sound(r, others) /\ Matching(r)
             /\ r.file.handle = m.file.handle /\ r.file.volume = m.file.volume
             /\ r.disk = m.disk /\ r.handles = m.handles /\ Own(r) = Own(m)
             /\ Content(r) = Content(m)
<1> DEFINE info == [size |-> IF Own(m).node = "file" THEN Len(Content(m)) ELSE 0,
                    directory |-> Own(m).node = "directory"]
           r == Informed(m)
<1>1. m.handles \in Tables /\ m.disk \in Disks /\ m.file \in FileRecords
  BY DEF Machines
<1>2. m.file.handle \in DOMAIN m.handles
  BY DEF Held
<1>3. Own(m) \in Handles
  BY <1>1, <1>2, TableTypes DEF Own
<1>4. IsFile(m) => Content(m) \in Seq(Bytes) /\ Len(Content(m)) \in Nat
  <2>1. Content(m) \in Contents
    BY <1>1, <1>3 DEF Content, Disks, Handles
  <2>. QED
    BY <2>1, LenProperties DEF Contents
<1>5. info \in [size : Nat, directory : BOOLEAN]
  BY <1>4 DEF IsFile
<1>6. /\ info.size = IF IsFile(m) THEN Len(Content(m)) ELSE 0
      /\ info.directory = (Own(m).node = "directory")
  BY DEF IsFile
<1>7. r = [m EXCEPT !.file.info = info]
  BY DEF Informed
<1>. HIDE DEF info, r
<1>8. /\ r \in Machines /\ r.handles = m.handles /\ r.disk = m.disk
      /\ r.file = [m.file EXCEPT !.info = info]
  BY <1>1, <1>5, <1>7 DEF Machines, FileRecords
<1>9. /\ r.file.handle = m.file.handle /\ r.file.volume = m.file.volume
      /\ r.file.info = info
  BY <1>1, <1>8 DEF FileRecords
<1>10. Own(r) = Own(m) /\ Held(r) = Held(m) /\ IsValid(r) /\ Content(r) = Content(m)
  BY <1>8, <1>9 DEF Own, Held, IsValid, Content
<1>11. Sound(r, others)
  BY <1>6, <1>8, <1>9, <1>10 DEF Sound, Described
<1>12. Matching(r)
  BY <1>6, <1>9, <1>10 DEF Matching, IsFile
<1>. QED
  BY <1>8, <1>9, <1>10, <1>11, <1>12 DEF r

\* The machine whose File has been closed.
Closed(m) ==
  [CloseHandle(m, m.file.handle) EXCEPT !.file.handle = None, !.file.info = NoInfo]

LEMMA ClosedSound ==
  ASSUME NEW others, NEW m, Sound(m, others)
  PROVE  /\ Sound(Closed(m), others) /\ ~IsValid(Closed(m))
         /\ Closed(m).disk = m.disk /\ Closed(m).handles = Restrict(m.handles, DOMAIN others)
         /\ Closed(m).file = [m.file EXCEPT !.handle = None, !.info = NoInfo]
<1> DEFINE r == Closed(m)
           u == Restrict(m.handles, DOMAIN m.handles \ {m.file.handle})
<1>1. m \in Machines /\ m.handles \in Tables /\ m.file \in FileRecords
  BY DEF Sound, Machines
<1>2. DOMAIN m.handles \ {m.file.handle} = DOMAIN others
  <2>1. None \notin DOMAIN m.handles
    BY <1>1, TableTypes, Constants
  <2>. QED
    BY <2>1 DEF Sound, Held, IsValid
<1>3. /\ u = Restrict(m.handles, DOMAIN others)
      /\ u \in Tables /\ DOMAIN u = DOMAIN others
      /\ \A h \in DOMAIN others : u[h] = others[h]
  <2>1. DOMAIN others \in SUBSET DOMAIN m.handles
    BY <1>2
  <2>2. /\ Restrict(m.handles, DOMAIN others) \in Tables
        /\ DOMAIN Restrict(m.handles, DOMAIN others) = DOMAIN others
        /\ \A h \in DOMAIN others :
             Restrict(m.handles, DOMAIN others)[h] = m.handles[h]
    BY <1>1, <2>1, TableRestrict
  <2>. QED
    BY <1>2, <2>2 DEF Sound
<1>4. r = [[m EXCEPT !.handles = u] EXCEPT !.file.handle = None, !.file.info = NoInfo]
  BY DEF CloseHandle, Closed
<1>. HIDE DEF u, r
<1>5. NoInfo \in [size : Nat, directory : BOOLEAN]
  BY DEF NoInfo
<1>6. /\ r \in Machines /\ r.handles = u /\ r.disk = m.disk
      /\ r.file = [m.file EXCEPT !.handle = None, !.info = NoInfo]
  BY <1>1, <1>3, <1>4, <1>5 DEF Machines, FileRecords
<1>7. r.file.handle = None /\ ~IsValid(r) /\ Held(r) = {}
  BY <1>1, <1>6 DEF FileRecords, IsValid, Held
<1>8. None \notin DOMAIN others
  BY <1>1, <1>2, TableTypes, Constants
<1>9. Sound(r, others)
  BY <1>3, <1>6, <1>7, <1>8 DEF Sound
<1>. QED
  BY <1>3, <1>6, <1>7, <1>9 DEF r

\* Close closes, whatever it reports, and says so when it fails.
LEMMA CloseSound ==
  ASSUME NEW others, NEW m, Sound(m, others), NEW r \in Close(m)
  PROVE  /\ Sound(r, others) /\ ~IsValid(r) /\ r.disk = m.disk
         /\ r.handles = Restrict(m.handles, DOMAIN others)
         /\ r.file = [m.file EXCEPT !.handle = None, !.info = NoInfo]
         /\ ~r.ok => r.status = "Error" /\ IsValid(m)
<1>1. \/ r = Succeeded(Closed(m))
      \/ IsValid(m) /\ r = Failed(Closed(m))
  BY DEF Close, Closed
<1>2. /\ Sound(Closed(m), others) /\ ~IsValid(Closed(m))
      /\ Closed(m).disk = m.disk /\ Closed(m).handles = Restrict(m.handles, DOMAIN others)
      /\ Closed(m).file = [m.file EXCEPT !.handle = None, !.info = NoInfo]
  BY ClosedSound
<1>4. CASE r = Succeeded(Closed(m))
  <2>1. Sound(r, others) /\ r.handles = Closed(m).handles /\ r.file = Closed(m).file
        /\ r.disk = Closed(m).disk /\ r.ok = TRUE
    BY <1>2, <1>4, SucceededSound
  <2>. QED
    BY <1>2, <2>1 DEF IsValid
<1>5. CASE IsValid(m) /\ r = Failed(Closed(m))
  <2>1. Sound(r, others) /\ r.handles = Closed(m).handles /\ r.file = Closed(m).file
        /\ r.disk = Closed(m).disk /\ r.status = "Error"
    BY <1>2, <1>5, FailedSound
  <2>. QED
    BY <1>2, <1>5, <2>1 DEF IsValid
<1>. QED
  BY <1>1, <1>4, <1>5

-----------------------------------------------------------------------------
(* Opening.                                                                *)

LEMMA OpenHandleFacts ==
  ASSUME NEW m \in Machines, NEW volume \in ToSet(Volumes),
         NEW node \in {"file", "directory"}, NEW mode \in Modes, Fresh(m) \in Nat
  PROVE  LET r == OpenHandle(m, volume, node, mode)
         IN  /\ r \in Machines
             /\ DOMAIN r.handles = DOMAIN m.handles \cup {Fresh(m)}
             /\ r.handles[Fresh(m)].volume = volume
             /\ r.handles[Fresh(m)].node = node
             /\ \A k \in DOMAIN m.handles \ {Fresh(m)} : r.handles[k] = m.handles[k]
             /\ r.file = m.file /\ r.ok = m.ok /\ r.status = m.status
             /\ r.disk[volume] = IF node = "file" /\ m.disk[volume] = None
                                 THEN <<>> ELSE m.disk[volume]
             /\ \A w \in ToSet(Volumes) \ {volume} : r.disk[w] = m.disk[w]
<1> DEFINE r == OpenHandle(m, volume, node, mode)
           h == Fresh(m)
           x == [volume |-> volume, node |-> node, position |-> 0,
                 writable |-> mode # "Read"]
           u == [k \in DOMAIN m.handles \cup {h} |->
                   IF k # h THEN m.handles[k] ELSE x]
           d == [m.disk EXCEPT ![volume] =
                   IF node = "file" /\ @ = None THEN <<>> ELSE @]
<1>1. m.handles \in Tables /\ m.disk \in Disks /\ h \in Nat
  BY DEF Machines
<1>2. x \in Handles /\ x.volume = volume /\ x.node = node
  BY DEF Handles
<1>3. <<>> \in Contents
  BY DEF Contents
<1>4. /\ d \in Disks
      /\ d[volume] = IF node = "file" /\ m.disk[volume] = None
                     THEN <<>> ELSE m.disk[volume]
      /\ \A w \in ToSet(Volumes) \ {volume} : d[w] = m.disk[w]
  BY <1>1, <1>3 DEF Disks
<1>5. r = [m EXCEPT !.handles = u, !.disk = d]
  BY <1>1 DEF OpenHandle, Machines
<1>. HIDE DEF x, h
<1>6. /\ u \in Tables /\ DOMAIN u = DOMAIN m.handles \cup {h}
      /\ u[h] = x /\ \A k \in DOMAIN m.handles \ {h} : u[k] = m.handles[k]
  BY <1>1, <1>2, TableExtended
<1>. HIDE DEF u, d, r
<1>7. /\ r \in Machines /\ r.handles = u /\ r.disk = d /\ r.file = m.file
      /\ r.ok = m.ok /\ r.status = m.status
  BY <1>4, <1>5, <1>6 DEF Machines
<1>. QED
  BY <1>2, <1>4, <1>6, <1>7 DEF r, h

LEMMA CloseHandleFacts ==
  ASSUME NEW m \in Machines, NEW h
  PROVE  LET r == CloseHandle(m, h)
         IN  /\ r \in Machines
             /\ DOMAIN r.handles = DOMAIN m.handles \ {h}
             /\ \A k \in DOMAIN m.handles \ {h} : r.handles[k] = m.handles[k]
             /\ r.file = m.file /\ r.ok = m.ok /\ r.status = m.status
             /\ r.disk = m.disk
<1> DEFINE u == Restrict(m.handles, DOMAIN m.handles \ {h})
           r == CloseHandle(m, h)
<1>1. m.handles \in Tables
  BY DEF Machines
<1>2. /\ u \in Tables /\ DOMAIN u = DOMAIN m.handles \ {h}
      /\ \A k \in DOMAIN m.handles \ {h} : u[k] = m.handles[k]
  BY <1>1, TableRestrict
<1>3. r = [m EXCEPT !.handles = u]
  BY DEF CloseHandle
<1>. HIDE DEF u, r
<1>4. /\ r \in Machines /\ r.handles = u /\ r.disk = m.disk /\ r.file = m.file
      /\ r.ok = m.ok /\ r.status = m.status
  BY <1>2, <1>3 DEF Machines
<1>. QED
  BY <1>2, <1>4 DEF r

\* There are handles for the root and for the file.
LEMMA TwoHandles ==
  ASSUME NEW others, Others(others), NEW m, Sound(m, others), ~IsValid(m),
         NEW volume \in ToSet(Volumes)
  PROVE  LET rooted == OpenHandle(m, volume, "directory", "Read")
         IN  /\ Fresh(m) \in Nat /\ Fresh(m) \notin DOMAIN others
             /\ Fresh(rooted) \in Nat /\ Fresh(rooted) \notin DOMAIN others
             /\ Fresh(rooted) # Fresh(m)
             /\ rooted \in Machines /\ rooted.file = m.file /\ rooted.disk = m.disk
             /\ DOMAIN rooted.handles = DOMAIN others \cup {Fresh(m)}
             /\ \A k \in DOMAIN others : rooted.handles[k] = others[k]
<1> DEFINE rooted == OpenHandle(m, volume, "directory", "Read")
<1>1. m \in Machines /\ m.disk \in Disks /\ m.handles \in Tables
  BY DEF Sound, Machines
<1>2. DOMAIN m.handles = DOMAIN others
  BY DEF Sound, Held
<1>3. IsFiniteSet(DOMAIN others) /\ Cardinality(DOMAIN others) \in Nat
      /\ Cardinality(DOMAIN others) + 1 <= Cardinality(Files)
      /\ Cardinality(DOMAIN others) <= Cardinality(Files)
  <2>1. Cardinality(DOMAIN others) \in Nat
    BY FS_CardinalityType DEF Others
  <2>. QED
    BY <2>1, Constants DEF Others
<1>4. Fresh(m) \in Nat /\ Fresh(m) \notin DOMAIN others
  BY <1>2, <1>3, FreshHandle
<1>5. "Read" \in Modes /\ "directory" \in {"file", "directory"} /\ "directory" # "file"
  BY DEF Modes
<1>6. /\ rooted \in Machines /\ rooted.file = m.file
      /\ DOMAIN rooted.handles = DOMAIN others \cup {Fresh(m)}
      /\ \A k \in DOMAIN others : rooted.handles[k] = m.handles[k]
      /\ rooted.disk[volume] = m.disk[volume]
      /\ \A w \in ToSet(Volumes) \ {volume} : rooted.disk[w] = m.disk[w]
  BY <1>1, <1>2, <1>4, <1>5, OpenHandleFacts
<1>7. rooted.disk = m.disk
  <2>1. rooted.disk \in Disks
    BY <1>6 DEF Machines
  <2>. QED
    BY <1>1, <1>6, <2>1 DEF Disks
<1>8. IsFiniteSet(DOMAIN rooted.handles)
      /\ Cardinality(DOMAIN rooted.handles) <= Cardinality(Files)
  BY <1>3, <1>4, <1>6, FS_AddElement
<1>9. Fresh(rooted) \in Nat /\ Fresh(rooted) \notin DOMAIN rooted.handles
  BY <1>8, FreshHandle
<1>10. \A k \in DOMAIN others : rooted.handles[k] = others[k]
  BY <1>6 DEF Sound
<1>. HIDE DEF rooted
<1>11. Fresh(rooted) \notin DOMAIN others /\ Fresh(rooted) # Fresh(m)
  BY <1>6, <1>9
<1>. QED
  BY <1>4, <1>6, <1>7, <1>9, <1>10, <1>11 DEF rooted

LEMMA UnheldSound ==
  ASSUME NEW others, Others(others), NEW r \in Machines, ~IsValid(r),
         DOMAIN r.handles = DOMAIN others,
         \A k \in DOMAIN others : r.handles[k] = others[k]
  PROVE  Sound(r, others)
<1>1. None \notin DOMAIN others
  BY TableTypes, Constants DEF Others
<1>. QED
  BY <1>1 DEF Sound, Held, IsValid

\* Open leaves a File closed where it fails; where it succeeds the File has a
\* handle of its own for what was asked for, and knows its size.
OpenedFor(r, others, text) ==
  /\ Sound(r, others) /\ Opened(r)
  /\ r.ok => IsValid(r) /\ Own(r).node = NodeOf[text] /\ NodeOf[text] # None
  /\ ~r.ok => ~IsValid(r) /\ r.status = "Error"

LEMMA FailedToOpen ==
  ASSUME NEW others, NEW m, Sound(m, others), ~IsValid(m), NEW text
  PROVE  OpenedFor(Failed(m), others, text)
BY FailedSound DEF OpenedFor, Opened, IsValid

LEMMA OpenClosedSound ==
  ASSUME NEW others, Others(others), NEW m, Sound(m, others), ~IsValid(m),
         NEW text \in Texts, NEW volume \in ToSet(Volumes) \cup {None},
         NEW mode \in Modes, NEW r \in OpenClosed(m, text, volume, mode)
  PROVE  OpenedFor(r, others, text)
<1> DEFINE root   == Fresh(m)
           rooted == OpenHandle(m, volume, "directory", "Read")
           node   == NodeOf[text]
           h      == Fresh(rooted)
           both   == OpenHandle(rooted, volume, node, mode)
           opened == CloseHandle(both, root)
           owner  == [opened EXCEPT !.file.handle = h, !.file.volume = volume]
           there  == node # None /\ (node = "file" => m.disk[volume] # None
                                                     \/ mode = "CreateReadWrite")
<1>0. CASE text = <<>> \/ volume = None
  BY <1>0, FailedToOpen DEF OpenClosed
<1>1. CASE ~(text = <<>> \/ volume = None)
  <2>1. \/ r = Failed(m)
        \/ r = Failed(CloseHandle(rooted, root))
        \/ there /\ r = Failed(CloseHandle(opened, h))
        \/ there /\ r = Succeeded(Informed(owner))
    BY <1>1 DEF OpenClosed
  <2>2. /\ root \in Nat /\ root \notin DOMAIN others
        /\ h \in Nat /\ h \notin DOMAIN others /\ h # root
        /\ rooted \in Machines /\ rooted.file = m.file /\ rooted.disk = m.disk
        /\ DOMAIN rooted.handles = DOMAIN others \cup {root}
        /\ \A k \in DOMAIN others : rooted.handles[k] = others[k]
    BY <1>1, TwoHandles
  <2>. HIDE DEF root, rooted, h
  <2>3. CASE r = Failed(m)
    BY <2>3, FailedToOpen
  <2>4. CASE r = Failed(CloseHandle(rooted, root))
    <3> DEFINE c == CloseHandle(rooted, root)
    <3>1. /\ c \in Machines /\ DOMAIN c.handles = DOMAIN rooted.handles \ {root}
          /\ \A k \in DOMAIN rooted.handles \ {root} : c.handles[k] = rooted.handles[k]
          /\ c.file = rooted.file
      BY <2>2, CloseHandleFacts
    <3>. HIDE DEF c
    <3>2. /\ DOMAIN c.handles = DOMAIN others /\ ~IsValid(c)
          /\ \A k \in DOMAIN others : c.handles[k] = others[k]
      BY <2>2, <3>1 DEF IsValid
    <3>3. Sound(c, others)
      BY <3>1, <3>2, UnheldSound
    <3>. QED
      BY <2>4, <3>2, <3>3, FailedToOpen DEF c
  <2>5. ASSUME there
        PROVE  /\ opened \in Machines /\ opened.file = m.file
               /\ DOMAIN opened.handles = DOMAIN others \cup {h}
               /\ \A k \in DOMAIN others : opened.handles[k] = others[k]
               /\ opened.handles[h].volume = volume
               /\ opened.handles[h].node = node /\ node \in {"file", "directory"}
               /\ node = "file" => opened.disk[volume] # None
    <3>1. node \in {"file", "directory"}
      BY <2>5 DEF NodeOf, Node
    <3>. HIDE DEF node
    <3>2. volume \in ToSet(Volumes)
      BY <1>1
    <3>3. /\ both \in Machines
          /\ DOMAIN both.handles = DOMAIN rooted.handles \cup {h}
          /\ both.handles[h].volume = volume /\ both.handles[h].node = node
          /\ \A k \in DOMAIN rooted.handles \ {h} : both.handles[k] = rooted.handles[k]
          /\ both.file = rooted.file
          /\ both.disk[volume] = IF node = "file" /\ rooted.disk[volume] = None
                                 THEN <<>> ELSE rooted.disk[volume]
      BY <2>2, <3>1, <3>2, OpenHandleFacts DEF h
    <3>. HIDE DEF both
    <3>4. /\ opened \in Machines
          /\ DOMAIN opened.handles = DOMAIN both.handles \ {root}
          /\ \A k \in DOMAIN both.handles \ {root} : opened.handles[k] = both.handles[k]
          /\ opened.file = both.file /\ opened.disk = both.disk
      BY <3>3, CloseHandleFacts
    <3>. HIDE DEF opened
    <3>5. <<>> # None
      <4>1. <<>> \in Seq(Bytes)
        OBVIOUS
      <4>. QED
        BY <4>1, Constants
    <3>. QED
      BY <2>2, <3>1, <3>3, <3>4, <3>5
  <2>6. CASE there /\ r = Failed(CloseHandle(opened, h))
    <3> DEFINE c == CloseHandle(opened, h)
    <3>. HIDE DEF there, opened, node
    <3>1. /\ c \in Machines /\ DOMAIN c.handles = DOMAIN opened.handles \ {h}
          /\ \A k \in DOMAIN opened.handles \ {h} : c.handles[k] = opened.handles[k]
          /\ c.file = opened.file
      BY <2>5, <2>6, CloseHandleFacts
    <3>. HIDE DEF c
    <3>2. /\ DOMAIN c.handles = DOMAIN others /\ ~IsValid(c)
          /\ \A k \in DOMAIN others : c.handles[k] = others[k]
      BY <2>2, <2>5, <2>6, <3>1 DEF IsValid
    <3>3. Sound(c, others)
      BY <3>1, <3>2, UnheldSound
    <3>. QED
      BY <2>6, <3>2, <3>3, FailedToOpen DEF c
  <2>7. CASE there /\ r = Succeeded(Informed(owner))
    <3>. HIDE DEF there, opened
    <3>0. volume \in ToSet(Volumes) /\ h # None
      BY <1>1, <2>2, Constants
    <3>1. /\ owner \in Machines /\ owner.handles = opened.handles
          /\ owner.disk = opened.disk
          /\ owner.file.handle = h /\ owner.file.volume = volume
      <4>1. opened \in Machines /\ opened.file \in FileRecords
        BY <2>5, <2>7 DEF Machines
      <4>. QED
        BY <2>2, <3>0, <4>1 DEF Machines, FileRecords
    <3>. HIDE DEF owner
    <3>2. /\ IsValid(owner) /\ Held(owner) = {h}
          /\ Own(owner) = opened.handles[h]
          /\ Content(owner) = opened.disk[volume]
      BY <2>5, <2>7, <3>0, <3>1 DEF IsValid, Held, Own, Content
    <3>3. /\ DOMAIN owner.handles = DOMAIN others \cup Held(owner)
          /\ owner.file.handle \notin DOMAIN others
          /\ \A k \in DOMAIN others : owner.handles[k] = others[k]
          /\ owner.file.volume = Own(owner).volume
          /\ IsFile(owner) => Content(owner) # None
      BY <2>2, <2>5, <2>7, <3>1, <3>2 DEF IsFile
    <3> DEFINE q == Informed(owner)
    <3>4. /\ Sound(q, others) /\ Matching(q)
          /\ q.file.handle = h /\ Own(q) = Own(owner)
      BY <3>1, <3>2, <3>3, InformedSound
    <3>. HIDE DEF q
    <3>5. /\ Sound(r, others) /\ r.handles = q.handles /\ r.file = q.file
          /\ r.ok /\ Own(r) = Own(q) /\ Content(r) = Content(q)
      BY <2>7, <3>4, SucceededSound DEF q
    <3>6. IsValid(r) /\ Own(r).node = NodeOf[text] /\ Matching(r)
      BY <2>5, <2>7, <3>0, <3>2, <3>4, <3>5 DEF IsValid, Matching
    <3>7. NodeOf[text] # None
      BY <2>7 DEF there, node
    <3>. QED
      BY <3>5, <3>6, <3>7 DEF OpenedFor, Opened
  <2>. QED
    BY <2>1, <2>3, <2>4, <2>6, <2>7
<1>. QED
  BY <1>0, <1>1

LEMMA OpenSound ==
  ASSUME NEW others, Others(others), NEW m, Sound(m, others),
         NEW text \in Texts, NEW volume \in ToSet(Volumes) \cup {None},
         NEW mode \in Modes, NEW r \in Open(m, text, volume, mode)
  PROVE  OpenedFor(r, others, text)
<1>1. PICK c \in Close(m) :
        r \in IF c.ok THEN OpenClosed(c, text, volume, mode) ELSE {c}
  BY DEF Open
<1>2. Sound(c, others) /\ ~IsValid(c) /\ (~c.ok => c.status = "Error")
  BY CloseSound
<1>3. CASE c.ok
  BY <1>1, <1>2, <1>3, OpenClosedSound
<1>4. CASE ~c.ok
  BY <1>1, <1>2, <1>4 DEF OpenedFor, Opened
<1>. QED
  BY <1>3, <1>4

\* The volumes are tried one after the other, until the file is open.
LEMMA OpenElsewhereSound ==
  ASSUME NEW others, Others(others), NEW text \in Texts, NEW mode \in Modes,
         NEW current, NEW t, OpenedFor(t, others, text),
         NEW r \in OpenElsewhere(t, text, current, mode)
  PROVE  OpenedFor(r, others, text)
<1> DEFINE TryNext(tried, volume) ==
             UNION {IF m.ok \/ volume = current THEN {m}
                    ELSE Open(m, text, volume, mode) : m \in tried}
           N == Len(Volumes)
           Tries(g, n) ==
             g = [s \in SUBSET (1 .. n) |->
                    IF s = {} THEN {t}
                    ELSE TryNext(g[s \ {Max(s)}], Volumes[Max(s)])]
           Good(tried) == \A q \in tried : OpenedFor(q, others, text)
<1>0. N \in Nat /\ DOMAIN Volumes = 1 .. N
      /\ \A i \in 1 .. N : Volumes[i] \in ToSet(Volumes)
  BY Constants, LenProperties DEF ToSet
<1>1. OpenElsewhere(t, text, current, mode) = (CHOOSE g : Tries(g, N))[1 .. N]
  BY <1>0 DEF OpenElsewhere, FoldLeft, MapThenFoldSet
<1>2. ASSUME NEW tried, Good(tried), NEW volume \in ToSet(Volumes)
      PROVE  Good(TryNext(tried, volume))
  <2>. SUFFICES ASSUME NEW q \in TryNext(tried, volume)
                PROVE  OpenedFor(q, others, text)
    OBVIOUS
  <2>1. PICK m \in tried : q \in IF m.ok \/ volume = current THEN {m}
                                 ELSE Open(m, text, volume, mode)
    OBVIOUS
  <2>2. OpenedFor(m, others, text)
    BY <1>2
  <2>3. CASE q = m
    BY <2>2, <2>3
  <2>4. CASE q \in Open(m, text, volume, mode)
    BY <2>2, <2>4, OpenSound DEF OpenedFor
  <2>. QED
    BY <2>1, <2>3, <2>4
<1>3. Good({t})
  OBVIOUS
<1>. HIDE DEF TryNext, Good
<1>4. \A n \in Nat : \E g : Tries(g, n)
  <2> DEFINE T == {n \in Nat : ~ \E g : Tries(g, n)}
  <2>. SUFFICES ASSUME T # {} PROVE FALSE
    OBVIOUS
  <2>1. PICK n \in T : \A k \in T : n <= k
    BY LeastNatural
  <2>2. n # 0
    <3> DEFINE g == [s \in SUBSET (1 .. 0) |-> {t}]
    <3>1. \A s \in SUBSET (1 .. 0) : s = {}
      OBVIOUS
    <3>2. Tries(g, 0)
      BY <3>1
    <3>. QED
      BY <2>1, <3>2
  <2>3. n \in Nat /\ n - 1 \in Nat /\ n - 1 \notin T
    <3>1. n \in Nat
      BY <2>1
    <3>. HIDE DEF T
    <3>2. n - 1 \in Nat /\ ~(n <= n - 1)
      BY <2>2, <3>1
    <3>. QED
      BY <2>1, <3>1, <3>2
  <2>4. PICK f : Tries(f, n - 1)
    BY <2>3
  <2> DEFINE g == [s \in SUBSET (1 .. n) |->
                     IF n \in s THEN TryNext(f[s \ {n}], Volumes[n]) ELSE f[s]]
  <2>5. \A s \in SUBSET (1 .. n) :
          /\ n \in s => s \ {n} \in SUBSET (1 .. n - 1) /\ s \ {n} \in SUBSET (1 .. n)
                        /\ Max(s) = n
          /\ n \notin s => s \in SUBSET (1 .. n - 1)
    BY <2>2, <2>3, IntervalFront
  <2>6. ASSUME NEW s \in SUBSET (1 .. n)
        PROVE  g[s] = IF s = {} THEN {t}
                      ELSE TryNext(g[s \ {Max(s)}], Volumes[Max(s)])
    <3>1. CASE n \in s
      <4>1. g[s] = TryNext(f[s \ {n}], Volumes[n])
        BY <3>1
      <4>2. g[s \ {n}] = f[s \ {n}]
        BY <2>5, <3>1
      <4>. QED
        BY <2>5, <3>1, <4>1, <4>2
    <3>2. CASE n \notin s
      <4>1. g[s] = f[s] /\ s \in SUBSET (1 .. n - 1)
        BY <2>5, <3>2
      <4>2. f[s] = IF s = {} THEN {t}
                   ELSE TryNext(f[s \ {Max(s)}], Volumes[Max(s)])
        BY <2>4, <4>1
      <4>3. g[s \ {Max(s)}] = f[s \ {Max(s)}]
        <5>1. s \ {Max(s)} \in SUBSET (1 .. n) /\ n \notin s \ {Max(s)}
          BY <3>2
        <5>. QED
          BY <5>1
      <4>. QED
        BY <4>1, <4>2, <4>3
    <3>. QED
      BY <3>1, <3>2
  <2>7. Tries(g, n)
    BY <2>6
  <2>. QED
    BY <2>1, <2>7
<1> DEFINE g == CHOOSE g : Tries(g, N)
<1>5. Tries(g, N)
  BY <1>0, <1>4
<1>. HIDE DEF g
<1>6. \A k \in 0 .. N : Good(g[1 .. k])
  <2> DEFINE T == {k \in 0 .. N : ~Good(g[1 .. k])}
  <2>. SUFFICES ASSUME T # {} PROVE FALSE
    OBVIOUS
  <2>1. PICK k \in T : \A i \in T : k <= i
    <3>1. T \in SUBSET Nat
      BY <1>0
    <3>. HIDE DEF T
    <3>. QED
      BY <3>1, LeastNatural
  <2>2. k # 0
    <3>1. 1 .. 0 = {} /\ 1 .. 0 \in SUBSET (1 .. N)
      OBVIOUS
    <3>2. g[1 .. 0] = {t}
      BY <1>5, <3>1
    <3>. QED
      BY <1>3, <2>1, <3>2
  <2>3. k \in Nat /\ k \in 1 .. N /\ k - 1 \in 0 .. N /\ k - 1 \notin T
    BY <1>0, <2>1, <2>2
  <2>4. Good(g[1 .. k - 1])
    BY <2>3
  <2>5. /\ 1 .. k \in SUBSET (1 .. N) /\ 1 .. k # {} /\ Max(1 .. k) = k
        /\ (1 .. k) \ {k} = 1 .. k - 1
    <3>1. 1 .. k \in SUBSET (1 .. N) /\ 1 .. k \in SUBSET (1 .. k)
      BY <1>0, <2>3
    <3>2. /\ (1 .. k) \ {k} = 1 .. k - 1 /\ k \in 1 .. k
          /\ \A s \in SUBSET (1 .. k) : k \in s => Max(s) = k
      BY <2>2, <2>3, IntervalFront
    <3>. QED
      BY <3>1, <3>2
  <2>6. g[1 .. k] = TryNext(g[1 .. k - 1], Volumes[k])
    BY <1>5, <2>5
  <2>7. Good(TryNext(g[1 .. k - 1], Volumes[k]))
    BY <1>0, <1>2, <2>3, <2>4
  <2>. QED
    BY <2>1, <2>6, <2>7
<1>7. Good(OpenElsewhere(t, text, current, mode))
  <2>1. OpenElsewhere(t, text, current, mode) = g[1 .. N]
    BY <1>1 DEF g
  <2>2. N \in 0 .. N
    BY <1>0
  <2>. HIDE DEF N
  <2>3. Good(g[1 .. N])
    BY <1>6, <2>2
  <2>. QED
    BY <2>1, <2>3
<1>. QED
  BY <1>7 DEF Good, TryNext

LEMMA CurrentTypes == CurrentVolumes \subseteq ToSet(Volumes) \cup {None}
<1>1. Volumes[1] \in ToSet(Volumes)
  BY Constants, EmptySeq, LenProperties DEF ToSet
<1>. QED
  BY <1>1 DEF CurrentVolumes

LEMMA OpenCurrentSound ==
  ASSUME NEW others, Others(others), NEW m, Sound(m, others),
         NEW text \in Texts, NEW mode \in Modes, NEW r \in OpenCurrent(m, text, mode)
  PROVE  OpenedFor(r, others, text)
<1>1. PICK v \in CurrentVolumes : r \in Open(m, text, v, mode)
  BY DEF OpenCurrent
<1>. QED
  BY <1>1, CurrentTypes, OpenSound

LEMMA OpenAnySound ==
  ASSUME NEW others, Others(others), NEW m, Sound(m, others),
         NEW text \in Texts, NEW mode \in Modes, NEW r \in OpenAny(m, text, mode)
  PROVE  /\ Sound(r, others) /\ Opened(r)
         /\ r.ok => IsValid(r) /\ Own(r).node = NodeOf[text] /\ NodeOf[text] # None
<1>1. PICK c \in Close(m) :
        \/ ~c.ok /\ r = c
        \/ c.ok /\ r = [c EXCEPT !.ok = FALSE]
        \/ \E v \in CurrentVolumes : \E t \in Open(c, text, v, mode) :
             r = t \/ r \in OpenElsewhere(t, text, v, mode)
  BY DEF OpenAny
<1>2. Sound(c, others) /\ ~IsValid(c)
  BY CloseSound
<1>3. CASE ~c.ok /\ r = c
  BY <1>2, <1>3 DEF Opened
<1>4. CASE c.ok /\ r = [c EXCEPT !.ok = FALSE]
  <2>1. Sound(r, others) /\ r.file = c.file /\ r.ok = FALSE
    BY <1>2, <1>4, OkSound
  <2>. QED
    BY <1>2, <2>1 DEF Opened, IsValid
<1>5. CASE \E v \in CurrentVolumes : \E t \in Open(c, text, v, mode) :
             r = t \/ r \in OpenElsewhere(t, text, v, mode)
  <2>0. PICK v \in CurrentVolumes : \E t \in Open(c, text, v, mode) :
               r = t \/ r \in OpenElsewhere(t, text, v, mode)
    BY <1>5
  <2>1. PICK t \in Open(c, text, v, mode) :
               r = t \/ r \in OpenElsewhere(t, text, v, mode)
    BY <2>0
  <2>2. OpenedFor(t, others, text)
    BY <1>2, CurrentTypes, OpenSound
  <2>3. OpenedFor(r, others, text)
    BY <2>1, <2>2, OpenElsewhereSound
  <2>. QED
    BY <2>3 DEF OpenedFor
<1>. QED
  BY <1>1, <1>3, <1>4, <1>5

-----------------------------------------------------------------------------
(* Resizing, reading and writing.                                          *)

LEMMA SizedSound ==
  ASSUME NEW others, NEW m, Sound(m, others), IsValid(m), IsFile(m),
         Content(m) # None, NEW size \in Nat
  PROVE  LET r == Sized(m, size)
         IN  /\ Sound(r, others) /\ r.handles = m.handles /\ r.file = m.file
             /\ r.ok = m.ok /\ r.status = m.status
             /\ Own(r) = Own(m) /\ Content(r) \in Seq(Bytes) /\ Len(Content(r)) = size
             /\ \A i \in 1 .. size : i <= Len(Content(m)) => Content(r)[i] = Content(m)[i]
<1> DEFINE v == Own(m).volume
           c == [i \in 1 .. size |-> IF i <= Len(m.disk[v]) THEN m.disk[v][i] ELSE Zero]
           r == [m EXCEPT !.disk[v] = c]
<1>1. v \in ToSet(Volumes) /\ m.disk[v] = Content(m) /\ m.disk[v] \in Seq(Bytes)
      /\ m.disk \in Disks /\ m \in Machines
  BY OwnHandle DEF Sound
<1>2. c \in Seq(Bytes) /\ Len(c) = size
      /\ \A i \in 1 .. size : i <= Len(m.disk[v]) => c[i] = m.disk[v][i]
  <2>1. \A i \in 1 .. size : i <= Len(m.disk[v]) => m.disk[v][i] \in Bytes
    BY <1>1, ElementOfSeq, LenProperties
  <2>2. \A i \in 1 .. size : c[i] \in Bytes
    BY <2>1, Constants
  <2>. HIDE DEF v
  <2>. QED
    BY <2>2
<1>3. Sized(m, size) = r
  BY <1>1 DEF Sized, Machines, Disks
<1>. HIDE DEF c, v
<1>4. /\ Sound(r, others) /\ r.handles = m.handles /\ r.file = m.file
      /\ r.ok = m.ok /\ r.status = m.status /\ Own(r) = Own(m) /\ r.disk[v] = c
  BY <1>1, <1>2, DiskSound DEF Contents
<1>. HIDE DEF r
<1>5. Content(r) = c
  BY <1>4 DEF Content, v
<1>. QED
  BY <1>1, <1>2, <1>3, <1>4, <1>5

LEMMA WroteSound ==
  ASSUME NEW others, NEW m, Sound(m, others), IsValid(m), IsFile(m),
         Content(m) # None, NEW bytes \in Seq(Bytes)
  PROVE  LET r == Wrote(m, bytes)
         IN  /\ Sound(r, others) /\ r.file = m.file /\ r.ok = m.ok
             /\ r.status = m.status
             /\ Own(r).node = Own(m).node /\ Own(r).volume = Own(m).volume
             /\ Content(r) # None
<1> DEFINE v == Own(m).volume
           p == Own(m).position
           c == IF bytes = <<>> THEN m.disk[v] ELSE Overwritten(m.disk[v], p, bytes)
           q == [m EXCEPT !.disk[v] = c]
<1>1. v \in ToSet(Volumes) /\ m.disk[v] = Content(m) /\ m.disk[v] \in Seq(Bytes)
      /\ m.disk \in Disks /\ m \in Machines /\ p \in Nat
  BY OwnHandle DEF Sound, Handles
<1>2. Len(bytes) \in Nat /\ Len(m.disk[v]) \in Nat
  BY <1>1, LenProperties
<1>3. c \in Seq(Bytes)
  <2>. SUFFICES ASSUME bytes # <<>> PROVE Overwritten(m.disk[v], p, bytes) \in Seq(Bytes)
    BY <1>1
  <2> DEFINE n == Max({Len(m.disk[v]), p + Len(bytes)})
             o == [i \in 1 .. n |->
                     CASE i \in p + 1 .. p + Len(bytes) -> bytes[i - p]
                       [] i \notin p + 1 .. p + Len(bytes) /\ i <= Len(m.disk[v])
                            -> m.disk[v][i]
                       [] OTHER -> Zero]
  <2>1. n \in Nat
    BY <1>1, <1>2, MaxOfTwo
  <2>. HIDE DEF n
  <2>2. \A i \in 1 .. n : o[i] \in Bytes
    <3>. TAKE i \in 1 .. n
    <3>1. CASE i \in p + 1 .. p + Len(bytes)
      <4>1. i - p \in 1 .. Len(bytes)
        BY <1>1, <1>2, <3>1
      <4>2. bytes[i - p] \in Bytes
        BY <4>1, ElementOfSeq
      <4>. QED
        BY <3>1, <4>2
    <3>2. CASE i \notin p + 1 .. p + Len(bytes) /\ i <= Len(m.disk[v])
      <4>1. m.disk[v][i] \in Bytes
        BY <1>1, <1>2, <3>2, ElementOfSeq
      <4>. QED
        BY <3>2, <4>1
    <3>3. CASE i \notin p + 1 .. p + Len(bytes) /\ ~(i <= Len(m.disk[v]))
      BY <3>3, Constants
    <3>. QED
      BY <3>1, <3>2, <3>3
  <2>3. o \in Seq(Bytes)
    BY <2>1, <2>2
  <2>. QED
    BY <2>3 DEF Overwritten, n
<1>4. Wrote(m, bytes) = Moved(q, p + Len(bytes))
  BY <1>1 DEF Wrote, Machines, Disks
<1>. HIDE DEF c, v, p
<1>5. /\ Sound(q, others) /\ q.handles = m.handles /\ q.file = m.file
      /\ q.ok = m.ok /\ q.status = m.status /\ Own(q) = Own(m) /\ q.disk[v] = c
  BY <1>1, <1>3, DiskSound DEF Contents
<1>. HIDE DEF q
<1>6. IsValid(q) /\ Content(q) = c /\ c # None /\ p + Len(bytes) \in Nat
  BY <1>1, <1>2, <1>3, <1>5, Constants DEF IsValid, Content, v
<1> DEFINE r == Moved(q, p + Len(bytes))
<1>7. /\ Sound(r, others) /\ r.file = q.file /\ r.ok = q.ok /\ r.status = q.status
      /\ Own(r).node = Own(q).node /\ Own(r).volume = Own(q).volume
      /\ Content(r) = Content(q)
  BY <1>5, <1>6, MovedSound
<1>. HIDE DEF r
<1>. QED
  BY <1>4, <1>5, <1>6, <1>7 DEF r

LEMMA Usable ==
  ASSUME NEW others, NEW m, Sound(m, others), ~Unusable(m), Answers(m)
  PROVE  IsValid(m) /\ IsFile(m) /\ Content(m) # None /\ Content(m) \in Seq(Bytes)
<1>1. IsValid(m) /\ Own(m).node # "directory"
  BY DEF Unusable, Sound, Described
<1>2. IsFile(m)
  BY <1>1, OwnHandle DEF Handles, IsFile
<1>. QED
  BY <1>1, <1>2, OwnHandle DEF Answers, IsFile

LEMMA InformedAgain ==
  ASSUME NEW others, NEW m, Sound(m, others), IsValid(m),
         IsFile(m) => Content(m) # None
  PROVE  LET r == Informed(m)
         IN  /\ Sound(r, others) /\ Matching(r)
             /\ r.file.handle = m.file.handle /\ r.file.volume = m.file.volume
             /\ r.disk = m.disk /\ r.handles = m.handles /\ Own(r) = Own(m)
             /\ Content(r) = Content(m)
BY InformedSound DEF Sound, Described

\* A call that changes neither the disk nor the File.
LEMMA QuietIsSettled ==
  ASSUME NEW m, NEW r, r.file = m.file, r.disk = m.disk,
         IsValid(m) => Own(r).node = Own(m).node
  PROVE  Settled(m, r)
BY DEF Settled, SameHandle

\* A call that fails and has not asked for the size again.
LEMMA FailureIsSettled ==
  ASSUME NEW m, NEW r, r.file = m.file, ~r.ok,
         IsValid(m) => Own(r).node = Own(m).node
  PROVE  Settled(m, r)
BY DEF Settled, SameHandle

LEMMA FailedIsSettled ==
  ASSUME NEW others, NEW m, Sound(m, others), NEW r, r = Failed(m)
  PROVE  Sound(r, others) /\ Settled(m, r) /\ ~r.ok /\ r.status = "Error"
<1>1. /\ Sound(r, others) /\ r.file = m.file /\ r.disk = m.disk /\ r.ok = FALSE
      /\ r.status = "Error" /\ Own(r) = Own(m)
  BY FailedSound
<1>. QED
  BY <1>1, QuietIsSettled

\* The position is where it was, or at the new end, and what fits is kept.
Resized(m, r, size) ==
  /\ Own(r).position = Min({Own(m).position, size})
  /\ Len(Content(r)) = size
  /\ \A i \in 1 .. Min({size, Len(Content(m))}) : Content(r)[i] = Content(m)[i]

LEMMA ResizeSound ==
  ASSUME NEW others, NEW m, Sound(m, others), NEW size \in Nat,
         NEW r \in Resize(m, size)
  PROVE  /\ Sound(r, others) /\ Settled(m, r)
         /\ ~r.ok => r.status = "Error"
         /\ r.ok => Resized(m, r, size)
<1>1. CASE r = Failed(m)
  BY <1>1, FailedIsSettled
<1>2. CASE ~(Unusable(m) \/ ~Answers(m))
  <2> DEFINE sized    == Sized(m, size)
             informed == Informed(sized)
             p        == Min({Own(m).position, size})
             moved    == Moved(informed, p)
  <2>1. /\ IsValid(m) /\ IsFile(m) /\ Content(m) # None /\ Content(m) \in Seq(Bytes)
        /\ Own(m).position \in Nat
    BY <1>2, Usable, OwnHandle DEF Handles
  <2>2. p \in Nat
    BY <2>1, MinOfTwo
  <2>3. /\ Sound(sized, others) /\ sized.handles = m.handles /\ sized.file = m.file
        /\ Own(sized) = Own(m) /\ Content(sized) \in Seq(Bytes)
        /\ Len(Content(sized)) = size
        /\ \A i \in 1 .. size :
             i <= Len(Content(m)) => Content(sized)[i] = Content(m)[i]
    BY <2>1, SizedSound
  <2>4. \/ r = Failed(m) \/ r = Failed(sized) \/ r = Failed(informed)
        \/ r = Succeeded(moved)
    BY <1>2 DEF Resize
  <2>. HIDE DEF sized, p
  <2>5. IsValid(sized) /\ IsFile(sized) /\ Content(sized) # None
    BY <2>1, <2>3, Constants DEF IsValid, IsFile
  <2>6. /\ Sound(informed, others) /\ Matching(informed)
        /\ informed.file.handle = sized.file.handle
        /\ Own(informed) = Own(sized) /\ Content(informed) = Content(sized)
    BY <2>3, <2>5, InformedAgain
  <2>. HIDE DEF informed
  <2>7. IsValid(informed) /\ IsFile(informed)
    BY <2>5, <2>6 DEF IsValid, IsFile
  <2>8. /\ Sound(moved, others) /\ moved.file = informed.file
        /\ Own(moved).node = Own(informed).node /\ Own(moved).position = p
        /\ Content(moved) = Content(informed)
    BY <2>2, <2>5, <2>6, <2>7, MovedSound
  <2>. HIDE DEF moved
  <2>9. CASE r = Failed(sized)
    <3>1. /\ Sound(r, others) /\ r.file = sized.file /\ r.ok = FALSE
          /\ r.status = "Error" /\ Own(r) = Own(sized)
      BY <2>3, <2>9, FailedSound
    <3>. QED
      BY <2>3, <3>1, FailureIsSettled
  <2>10. CASE r = Failed(informed)
    <3>1. /\ Sound(r, others) /\ r.file = informed.file /\ r.ok = FALSE
          /\ r.status = "Error" /\ Own(r) = Own(informed)
          /\ Content(r) = Content(informed)
      BY <2>6, <2>10, FailedSound
    <3>. QED
      BY <2>6, <3>1 DEF Settled, Opened, Matching
  <2>11. CASE r = Succeeded(moved)
    <3>1. /\ Sound(r, others) /\ r.file = moved.file /\ r.ok = TRUE
          /\ Own(r) = Own(moved) /\ Content(r) = Content(moved)
      BY <2>8, <2>11, SucceededSound
    <3>2. Settled(m, r)
      BY <2>6, <2>8, <3>1 DEF Settled, Opened, Matching
    <3>3. Own(r).position = Min({Own(m).position, size}) /\ Len(Content(r)) = size
      BY <2>3, <2>6, <2>8, <3>1 DEF p
    <3>4. \A i \in 1 .. Min({size, Len(Content(m))}) : Content(r)[i] = Content(m)[i]
      <4> DEFINE l == Min({size, Len(Content(m))})
      <4>1. Len(Content(m)) \in Nat
        BY <2>1, LenProperties
      <4>2. l \in Nat /\ l <= size /\ l <= Len(Content(m))
        BY <4>1, MinOfTwo
      <4>. HIDE DEF l
      <4>3. \A i \in 1 .. l : i \in 1 .. size /\ i <= Len(Content(m))
        BY <4>1, <4>2
      <4>4. \A i \in 1 .. l : Content(r)[i] = Content(m)[i]
        BY <2>3, <2>6, <2>8, <3>1, <4>3
      <4>. QED
        BY <4>4 DEF l
    <3>. QED
      BY <3>1, <3>2, <3>3, <3>4 DEF Resized
  <2>. QED
    BY <1>1, <2>4, <2>9, <2>10, <2>11
<1>. QED
  BY <1>1, <1>2 DEF Resize

LEMMA SubSeqType ==
  ASSUME NEW s \in Seq(Bytes), NEW a \in Nat \ {0}, NEW b \in Nat, b <= Len(s)
  PROVE  SubSeq(s, a, b) \in Seq(Bytes)
<1>1. Len(s) \in Nat
  BY LenProperties
<1>2. \A i \in a .. b : s[i] \in Bytes
  BY <1>1, ElementOfSeq
<1>. QED
  BY <1>1, <1>2

LEMMA AheadType ==
  ASSUME NEW others, NEW m, Sound(m, others), IsValid(m),
         IsFile(m) => Content(m) # None, NEW count \in Nat
  PROVE  Ahead(m, count) \in Seq(Bytes)
<1>1. Own(m).position \in Nat
  BY OwnHandle DEF Handles
<1>2. CASE Own(m).node # "file"
  BY <1>2 DEF Ahead
<1>3. CASE Own(m).node = "file"
  <2>1. Content(m) \in Seq(Bytes) /\ Len(Content(m)) \in Nat
    BY <1>3, OwnHandle, LenProperties DEF IsFile
  <2> DEFINE b == Min({Own(m).position + count, Len(Content(m))})
  <2>2. b \in Nat /\ b <= Len(Content(m))
    BY <1>1, <2>1, MinOfTwo
  <2>. HIDE DEF b
  <2>3. SubSeq(Content(m), Own(m).position + 1, b) \in Seq(Bytes)
    BY <1>1, <2>1, <2>2, SubSeqType
  <2>. QED
    BY <1>3, <2>3 DEF Ahead, b
<1>. QED
  BY <1>2, <1>3

\* A read keeps the disk and what the File knows; where the size the File
\* knows is the size of the file, it has read the whole file.
ReadOutcome(m, r, others) ==
  /\ Sound(r, others) /\ Settled(m, r)
  /\ r.ok /\ Matching(m) => r.data = Content(r)

LEMMA ReadAllSound ==
  ASSUME NEW others, NEW m, Sound(m, others), m.data = <<>>, ~Unusable(m),
         NEW r \in ReadAll(m)
  PROVE  ReadOutcome(m, r, others)
<1>0. m.file.info.size \in Nat
  BY DEF Sound, Machines, FileRecords
<1>1. IsValid(m) /\ IsFile(m) /\ Content(m) \in Contents
  <2>1. IsValid(m) /\ Own(m).node # "directory"
    BY DEF Unusable, Sound, Described
  <2>. QED
    BY <2>1, OwnHandle DEF Handles, IsFile
<1>2. CASE r = Failed(m)
  BY <1>2, FailedIsSettled DEF ReadOutcome
<1>3. CASE m.file.info.size = 0
  <2> DEFINE ok == TRUE
             q == [m EXCEPT !.ok = ok]
  <2>1. ok \in BOOLEAN
    OBVIOUS
  <2>2. r = q
    BY <1>3 DEF ReadAll
  <2>3. q.data = m.data
    BY DEF Sound, Machines
  <2>. HIDE DEF ok
  <2>4. /\ Sound(q, others) /\ q.file = m.file /\ q.disk = m.disk
        /\ Own(q) = Own(m) /\ Content(q) = Content(m)
    BY <2>1, OkSound
  <2>. HIDE DEF q
  <2>5. Matching(m) => Content(m) = <<>>
    <3>1. Matching(m) => Content(m) \in Seq(Bytes) /\ Len(Content(m)) = 0
      BY <1>1, <1>3 DEF Matching, IsFile, Contents
    <3>. QED
      BY <3>1, EmptySeq
  <2>6. Settled(m, q)
    BY <2>4, QuietIsSettled
  <2>. QED
    BY <2>2, <2>3, <2>4, <2>5, <2>6 DEF ReadOutcome
<1>4. CASE m.file.info.size # 0 /\ Answers(m)
  <2> DEFINE start == Moved(m, 0)
             bytes == Ahead(start, m.file.info.size)
             read  == Moved(m, Len(bytes))
             whole == Succeeded(read)
             full  == [whole EXCEPT !.data = bytes]
             part  == Returns(read, FALSE, "Success")
  <2>1. Content(m) # None /\ Content(m) \in Seq(Bytes)
    BY <1>4, Usable
  <2>2. \/ r = Failed(m) \/ r = Failed(start)
        \/ Len(bytes) # m.file.info.size /\ r = part
        \/ Len(bytes) = m.file.info.size /\ r = full
    BY <1>4 DEF ReadAll
  <2>3. /\ Sound(start, others) /\ start.file = m.file /\ start.disk = m.disk
        /\ Own(start).node = Own(m).node /\ Own(start).position = 0
        /\ Content(start) = Content(m)
    BY <1>1, <2>1, MovedSound
  <2>. HIDE DEF start
  <2>4. bytes \in Seq(Bytes) /\ Len(bytes) \in Nat
    <3>1. IsValid(start) /\ Content(start) # None
      BY <1>1, <2>1, <2>3 DEF IsValid
    <3>2. bytes \in Seq(Bytes)
      BY <1>0, <2>3, <3>1, AheadType
    <3>. QED
      BY <3>2, LenProperties
  <2>5. Matching(m) => bytes = Content(m)
    <3>. SUFFICES ASSUME Matching(m) PROVE bytes = Content(m)
      OBVIOUS
    <3> DEFINE l == Len(Content(m))
    <3>1. l = m.file.info.size /\ l \in Nat /\ Content(m) \in Seq(Bytes)
      BY <1>1, <2>1, LenProperties DEF Matching, IsFile
    <3>2. bytes = SubSeq(Content(m), 0 + 1, Min({0 + l, l}))
      BY <1>1, <2>3, <3>1 DEF Ahead, IsFile
    <3>3. Min({0 + l, l}) = l /\ 0 + 1 = 1
      BY <3>1, MinOfTwo
    <3>. HIDE DEF bytes
    <3>4. bytes = SubSeq(Content(m), 1, l)
      BY <3>2, <3>3
    <3>. QED
      BY <3>1, <3>4
  <2>. HIDE DEF bytes
  <2>6. /\ Sound(read, others) /\ read.file = m.file /\ read.disk = m.disk
        /\ Own(read).node = Own(m).node /\ Content(read) = Content(m)
    BY <1>1, <2>1, <2>4, MovedSound
  <2>. HIDE DEF read
  <2>7. CASE r = Failed(start)
    <3>1. /\ Sound(r, others) /\ r.file = start.file /\ r.disk = start.disk
          /\ r.ok = FALSE /\ Own(r) = Own(start)
      BY <2>3, <2>7, FailedSound
    <3>. QED
      BY <2>3, <3>1, QuietIsSettled DEF ReadOutcome
  <2>8. CASE r = part
    <3>1. /\ Sound(r, others) /\ r.file = read.file /\ r.disk = read.disk
          /\ r.ok = FALSE /\ Own(r) = Own(read)
      BY <2>6, <2>8, ShortSound
    <3>. QED
      BY <2>6, <3>1, QuietIsSettled DEF ReadOutcome
  <2>9. CASE r = full
    <3>1. /\ Sound(whole, others) /\ whole.file = read.file
          /\ whole.disk = read.disk /\ Own(whole) = Own(read)
          /\ Content(whole) = Content(read)
      BY <2>6, SucceededSound
    <3>. HIDE DEF whole
    <3>2. /\ Sound(full, others) /\ full.file = whole.file /\ full.disk = whole.disk
          /\ full.data = bytes /\ Own(full) = Own(whole)
          /\ Content(full) = Content(whole)
      BY <2>4, <3>1, DataSound
    <3>. HIDE DEF full
    <3>3. Settled(m, full)
      BY <2>6, <3>1, <3>2, QuietIsSettled
    <3>. QED
      BY <2>5, <2>6, <2>9, <3>1, <3>2, <3>3 DEF ReadOutcome
  <2>. QED
    BY <1>2, <2>2, <2>7, <2>8, <2>9
<1>. QED
  BY <1>2, <1>3, <1>4 DEF ReadAll

LEMMA ReadSound ==
  ASSUME NEW others, NEW m, Sound(m, others), m.data = <<>>,
         NEW r \in ReadVector(m) \cup ReadBuffer(m)
  PROVE  ReadOutcome(m, r, others)
<1>1. CASE Unusable(m) /\ r = Failed(m)
  BY <1>1, FailedIsSettled DEF ReadOutcome
<1>2. CASE Unusable(m) /\ r = [m EXCEPT !.ok = FALSE]
  <2>1. /\ Sound(r, others) /\ r.file = m.file /\ r.disk = m.disk
        /\ r.ok = FALSE /\ Own(r) = Own(m)
    BY <1>2, OkSound
  <2>. QED
    BY <2>1, QuietIsSettled DEF ReadOutcome
<1>3. CASE ~Unusable(m) /\ r \in ReadAll(m)
  BY <1>3, ReadAllSound
<1>. QED
  BY <1>1, <1>2, <1>3 DEF ReadVector, ReadBuffer

LEMMA FlushSound ==
  ASSUME NEW others, NEW m, Sound(m, others), NEW r \in Flush(m)
  PROVE  Sound(r, others) /\ Settled(m, r)
<1>1. CASE r = Failed(m)
  BY <1>1, FailedIsSettled
<1>2. CASE r = Succeeded(m)
  <2>1. /\ Sound(r, others) /\ r.file = m.file /\ r.disk = m.disk
        /\ Own(r) = Own(m)
    BY <1>2, SucceededSound
  <2>. QED
    BY <2>1, QuietIsSettled
<1>. QED
  BY <1>1, <1>2 DEF Flush

\* A file that is deleted is closed whatever becomes of it.
LEMMA DeleteSound ==
  ASSUME NEW others, NEW m, Sound(m, others), NEW r \in Delete(m)
  PROVE  Sound(r, others) /\ Settled(m, r)
<1>1. CASE r = Failed(m)
  BY <1>1, FailedIsSettled
<1>2. CASE IsValid(m)
  <2> DEFINE closed  == Closed(m)
             v       == Own(m).volume
             removed == [closed EXCEPT !.disk[v] = None]
  <2>1. \/ r = Failed(closed) \/ r = Returns(closed, TRUE, "Warning")
        \/ r = Succeeded(removed)
    BY <1>2 DEF Delete, Closed
  <2>2. Sound(closed, others) /\ ~IsValid(closed)
    BY ClosedSound
  <2>3. v \in ToSet(Volumes) /\ None \in Contents
    BY <1>2, OwnHandle DEF Contents
  <2>. HIDE DEF closed, v
  <2>4. Sound(removed, others) /\ removed.file = closed.file
    BY <2>2, <2>3, DiskSound
  <2>. HIDE DEF removed
  <2>5. Sound(r, others) /\ r.file = closed.file
    <3>1. CASE r = Failed(closed)
      BY <2>2, <3>1, FailedSound
    <3>2. CASE r = Returns(closed, TRUE, "Warning")
      BY <2>2, <3>2, WarnedSound
    <3>3. CASE r = Succeeded(removed)
      BY <2>4, <3>3, SucceededSound
    <3>. QED
      BY <2>1, <3>1, <3>2, <3>3
  <2>. QED
    BY <2>2, <2>5 DEF Settled, Opened, IsValid
<1>. QED
  BY <1>1, <1>2 DEF Delete

\* What the firmware has written when a write ends, early or not.
LEMMA WroteSomeSound ==
  ASSUME NEW others, NEW m, Sound(m, others), IsValid(m), Answers(m),
         NEW bytes \in Seq(Bytes), NEW w \in WroteSome(m, bytes)
  PROVE  /\ Sound(w, others) /\ w.file = m.file
         /\ Own(w).node = Own(m).node
<1>1. CASE w = m
  BY <1>1
<1>2. CASE Writable(m) /\ \E n \in 0 .. Len(bytes) : w = Wrote(m, SubSeq(bytes, 1, n))
  <2>1. PICK n \in 0 .. Len(bytes) : w = Wrote(m, SubSeq(bytes, 1, n))
    BY <1>2
  <2>2. Len(bytes) \in Nat
    BY LenProperties
  <2>3. n \in Nat /\ n <= Len(bytes)
    BY <2>2
  <2>4. SubSeq(bytes, 1, n) \in Seq(Bytes)
    BY <2>3, SubSeqType
  <2>5. IsFile(m) /\ Content(m) # None
    BY <1>2 DEF Writable, Answers, IsFile
  <2>. QED
    BY <2>1, <2>4, <2>5, WroteSound
<1>. QED
  BY <1>1, <1>2 DEF WroteSome


LEMMA WriteSound ==
  ASSUME NEW others, NEW m, Sound(m, others), NEW place \in Nat \cup {End},
         NEW bytes \in Seq(Bytes), NEW r \in Write(m, place, bytes)
  PROVE  Sound(r, others) /\ Settled(m, r)
<1>1. CASE r = Failed(m)
  BY <1>1, FailedIsSettled
<1>2. CASE ~(Unusable(m) \/ ~Answers(m))
  <2> DEFINE start == Moved(m, place)
             whole == Wrote(start, bytes)
             informed == Informed(whole)
  <2>1. /\ IsValid(m) /\ IsFile(m) /\ Content(m) # None /\ Content(m) \in Seq(Bytes)
    BY <1>2, Usable
  <2>2. \/ r = Failed(m)
        \/ r = Succeeded(start)
        \/ \E w \in WroteSome(start, bytes) :
             r = Failed(w) \/ r = Returns(w, FALSE, "Success")
        \/ r = Succeeded(informed)
    BY <1>2 DEF Write
  <2>3. /\ Sound(start, others) /\ start.file = m.file /\ start.disk = m.disk
        /\ Own(start).node = Own(m).node /\ Content(start) = Content(m)
    BY <2>1, MovedSound
  <2>. HIDE DEF start
  <2>4. IsValid(start) /\ IsFile(start) /\ Answers(start) /\ Content(start) # None
    BY <2>1, <2>3 DEF IsValid, IsFile, Answers
  <2>5. /\ Sound(whole, others) /\ whole.file = m.file
        /\ Own(whole).node = Own(m).node /\ Content(whole) # None
    BY <2>3, <2>4, WroteSound
  <2>. HIDE DEF whole
  <2>6. /\ Sound(informed, others) /\ Matching(informed)
        /\ Own(informed) = Own(whole) /\ Content(informed) = Content(whole)
    <3>1. IsValid(whole)
      BY <2>1, <2>5 DEF IsValid
    <3>. QED
      BY <2>5, <3>1, InformedAgain
  <2>. HIDE DEF informed
  <2>7. CASE r = Succeeded(start)
    <3>1. /\ Sound(r, others) /\ r.file = start.file /\ r.disk = start.disk
          /\ Own(r) = Own(start)
      BY <2>3, <2>7, SucceededSound
    <3>. QED
      BY <2>3, <3>1, QuietIsSettled
  <2>8. CASE \E w \in WroteSome(start, bytes) :
               r = Failed(w) \/ r = Returns(w, FALSE, "Success")
    <3>1. PICK w \in WroteSome(start, bytes) :
                 r = Failed(w) \/ r = Returns(w, FALSE, "Success")
      BY <2>8
    <3>2. Sound(w, others) /\ w.file = m.file /\ Own(w).node = Own(m).node
      BY <2>3, <2>4, WroteSomeSound
    <3>3. Sound(r, others) /\ r.file = w.file /\ r.ok = FALSE /\ Own(r) = Own(w)
      <4>1. CASE r = Failed(w)
        BY <3>2, <4>1, FailedSound
      <4>2. CASE r = Returns(w, FALSE, "Success")
        BY <3>2, <4>2, ShortSound
      <4>. QED
        BY <3>1, <4>1, <4>2
    <3>. QED
      BY <3>2, <3>3, FailureIsSettled
  <2>9. CASE r = Succeeded(informed)
    <3>1. /\ Sound(r, others) /\ r.file = informed.file
          /\ Own(r) = Own(informed) /\ Content(r) = Content(informed)
      BY <2>6, <2>9, SucceededSound
    <3>. QED
      BY <2>6, <3>1 DEF Settled, Opened, Matching
  <2>. QED
    BY <1>1, <2>2, <2>7, <2>8, <2>9
<1>. QED
  BY <1>1, <1>2 DEF Write

-----------------------------------------------------------------------------
(* The transports.                                                         *)

\* The flags of a transport are nothing to its File.
LEMMA OpenFlagSound ==
  ASSUME NEW others, NEW m, Sound(m, others), NEW flag \in BOOLEAN
  PROVE  LET r == [m EXCEPT !.file.open = flag]
         IN  /\ Sound(r, others) /\ r.disk = m.disk /\ r.ok = m.ok
             /\ r.status = m.status
             /\ r.file.handle = m.file.handle /\ r.file.volume = m.file.volume
             /\ r.file.info = m.file.info
             /\ Own(r) = Own(m) /\ Content(r) = Content(m)
<1> DEFINE r == [m EXCEPT !.file.open = flag]
<1>1. m \in Machines /\ m.file \in FileRecords
  BY DEF Sound, Machines
<1>2. /\ r \in Machines /\ r.handles = m.handles /\ r.disk = m.disk
      /\ r.ok = m.ok /\ r.status = m.status
      /\ r.file.handle = m.file.handle /\ r.file.volume = m.file.volume
      /\ r.file.info = m.file.info
  BY <1>1 DEF Machines, FileRecords
<1>. HIDE DEF r
<1>3. Sound(r, others) /\ Own(r) = Own(m) /\ Content(r) = Content(m)
  BY <1>2 DEF Sound, Described, Own, Held, IsValid, Content
<1>. QED
  BY <1>2, <1>3 DEF r

LEMMA AppendFlagSound ==
  ASSUME NEW others, NEW m, Sound(m, others), NEW flag \in BOOLEAN
  PROVE  LET r == [m EXCEPT !.file.append = flag]
         IN  /\ Sound(r, others) /\ r.disk = m.disk /\ r.ok = m.ok
             /\ r.status = m.status
             /\ r.file.handle = m.file.handle /\ r.file.volume = m.file.volume
             /\ r.file.info = m.file.info
             /\ Own(r) = Own(m) /\ Content(r) = Content(m)
<1> DEFINE r == [m EXCEPT !.file.append = flag]
<1>1. m \in Machines /\ m.file \in FileRecords
  BY DEF Sound, Machines
<1>2. /\ r \in Machines /\ r.handles = m.handles /\ r.disk = m.disk
      /\ r.ok = m.ok /\ r.status = m.status
      /\ r.file.handle = m.file.handle /\ r.file.volume = m.file.volume
      /\ r.file.info = m.file.info
  BY <1>1 DEF Machines, FileRecords
<1>. HIDE DEF r
<1>3. Sound(r, others) /\ Own(r) = Own(m) /\ Content(r) = Content(m)
  BY <1>2 DEF Sound, Described, Own, Held, IsValid, Content
<1>. QED
  BY <1>2, <1>3 DEF r

\* A transport that refuses a call has not touched its File.
LEMMA RefusedSound ==
  ASSUME NEW others, NEW m, Sound(m, others)
  PROVE  LET r == Refused(m)
         IN  /\ Sound(r, others) /\ Settled(m, r)
             /\ r.file = m.file /\ r.disk = m.disk /\ r.ok = FALSE
             /\ Own(r) = Own(m) /\ Content(r) = Content(m)
<1> DEFINE ok == FALSE
           r == [m EXCEPT !.ok = ok]
<1>1. ok \in BOOLEAN
  OBVIOUS
<1>. HIDE DEF ok
<1>2. /\ Sound(r, others) /\ r.file = m.file /\ r.disk = m.disk /\ r.ok = ok
      /\ Own(r) = Own(m) /\ Content(r) = Content(m)
  BY <1>1, OkSound
<1>. HIDE DEF r
<1>3. Settled(m, r)
  BY <1>2, QuietIsSettled
<1>4. Refused(m) = r
  BY DEF Refused, r, ok
<1>. QED
  BY <1>2, <1>3, <1>4 DEF ok

LEMMA GrantedSound ==
  ASSUME NEW others, NEW m, Sound(m, others)
  PROVE  LET r == [m EXCEPT !.ok = TRUE]
         IN  /\ Sound(r, others) /\ Settled(m, r)
             /\ r.file = m.file /\ r.disk = m.disk /\ r.ok = TRUE
             /\ Own(r) = Own(m) /\ Content(r) = Content(m)
<1> DEFINE ok == TRUE
           r == [m EXCEPT !.ok = ok]
<1>1. ok \in BOOLEAN
  OBVIOUS
<1>. HIDE DEF ok
<1>2. /\ Sound(r, others) /\ r.file = m.file /\ r.disk = m.disk /\ r.ok = ok
      /\ Own(r) = Own(m) /\ Content(r) = Content(m)
  BY <1>1, OkSound
<1>. HIDE DEF r
<1>3. Settled(m, r)
  BY <1>2, QuietIsSettled
<1>4. [m EXCEPT !.ok = TRUE] = r
  BY DEF r, ok
<1>. QED
  BY <1>2, <1>3, <1>4 DEF ok

LEMMA AskHandleSound ==
  ASSUME NEW others, NEW m, Sound(m, others), NEW r \in AskHandle(m)
  PROVE  Sound(r, others) /\ Settled(m, r)
<1>1. CASE r = Refused(m)
  BY <1>1, RefusedSound
<1>2. CASE r = [m EXCEPT !.ok = TRUE]
  BY <1>2, GrantedSound
<1>. QED
  BY <1>1, <1>2 DEF AskHandle

LEMMA CloseTransportSound ==
  ASSUME NEW others, NEW m, Sound(m, others), NEW r \in CloseTransport(m)
  PROVE  /\ Sound(r, others) /\ ~IsValid(r) /\ Opened(r)
         /\ ~r.ok => r.status = "Error"
<1>1. CASE ~IsValid(m) /\ r = [m EXCEPT !.ok = TRUE]
  BY <1>1, GrantedSound DEF IsValid, Opened
<1>2. CASE r \in Close([m EXCEPT !.file.open = FALSE])
  <2> DEFINE flag == FALSE
             q == [m EXCEPT !.file.open = flag]
  <2>1. flag \in BOOLEAN
    OBVIOUS
  <2>2. r \in Close(q)
    BY <1>2
  <2>. HIDE DEF flag
  <2>3. Sound(q, others)
    BY <2>1, OpenFlagSound
  <2>. HIDE DEF q
  <2>. QED
    BY <2>2, <2>3, CloseSound DEF Opened
<1>. QED
  BY <1>1, <1>2 DEF CloseTransport

LEMMA SeekSound ==
  ASSUME NEW others, NEW m, Sound(m, others), NEW position \in Nat,
         NEW r \in SeekHandle(m, position)
  PROVE  /\ Sound(r, others) /\ r.file = m.file /\ r.disk = m.disk
         /\ IsValid(m) => Own(r).node = Own(m).node /\ Content(r) = Content(m)
         /\ r.ok => IsOpen(m) /\ Answers(m)
<1>1. CASE r = Refused(m)
  BY <1>1, RefusedSound
<1>2. CASE IsOpen(m) /\ Answers(m) /\ r = [Moved(m, position) EXCEPT !.ok = TRUE]
  <2> DEFINE q == Moved(m, position)
  <2>1. IsValid(m) /\ (IsFile(m) => Content(m) # None)
    BY <1>2 DEF IsOpen, Answers, IsFile
  <2>2. /\ Sound(q, others) /\ q.file = m.file /\ q.disk = m.disk
        /\ Own(q).node = Own(m).node /\ Content(q) = Content(m)
    BY <2>1, MovedSound
  <2>. HIDE DEF q
  <2>3. r = [q EXCEPT !.ok = TRUE]
    BY <1>2 DEF q
  <2>. QED
    BY <1>2, <2>2, <2>3, GrantedSound
<1>. QED
  BY <1>1, <1>2 DEF SeekHandle

LEMMA OpenTransportSound ==
  ASSUME NEW others, Others(others), NEW m, Sound(m, others),
         NEW text \in Texts, NEW mode \in Modes, NEW r \in OpenTransport(m, text, mode)
  PROVE  Sound(r, others) /\ Opened(r) /\ (~r.ok => r.status = "Error")
<1>1. PICK c \in CloseTransport(m) :
        \/ ~c.ok /\ r = c
        \/ \E o \in OpenCurrent(c, text, mode) : r = [o EXCEPT !.file.open = @ \/ o.ok]
  BY DEF OpenTransport
<1>2. Sound(c, others) /\ Opened(c) /\ (~c.ok => c.status = "Error")
  BY CloseTransportSound
<1>3. CASE ~c.ok /\ r = c
  BY <1>2, <1>3
<1>4. CASE \E o \in OpenCurrent(c, text, mode) : r = [o EXCEPT !.file.open = @ \/ o.ok]
  <2>1. PICK o \in OpenCurrent(c, text, mode) : r = [o EXCEPT !.file.open = @ \/ o.ok]
    BY <1>4
  <2>2. OpenedFor(o, others, text)
    BY <1>2, OpenCurrentSound
  <2> DEFINE flag == o.file.open \/ o.ok
             q == [o EXCEPT !.file.open = flag]
  <2>3. flag \in BOOLEAN
    OBVIOUS
  <2>4. r = q
    BY <2>1, <2>2 DEF OpenedFor, Sound, Machines, FileRecords
  <2>. HIDE DEF flag
  <2>5. /\ Sound(q, others) /\ q.ok = o.ok /\ q.status = o.status
        /\ q.file.handle = o.file.handle /\ q.file.info = o.file.info
        /\ Own(q) = Own(o) /\ Content(q) = Content(o)
    <3>1. Sound(o, others)
      BY <2>2 DEF OpenedFor
    <3>. QED
      BY <2>3, <3>1, OpenFlagSound
  <2>. HIDE DEF q
  <2>. QED
    BY <2>2, <2>4, <2>5 DEF OpenedFor, Opened, Matching, IsValid
<1>. QED
  BY <1>1, <1>3, <1>4

LEMMA OpenSourceSound ==
  ASSUME NEW others, Others(others), NEW m, Sound(m, others),
         NEW text \in Texts, NEW mode \in Modes, NEW r \in OpenSource(m, text, mode)
  PROVE  Sound(r, others) /\ Opened(r)
<1>1. PICK o \in OpenTransport(m, text, mode) : r \in SeekHandle(o, 0) \/ r = o
  BY DEF OpenSource
<1>2. Sound(o, others) /\ Opened(o)
  BY OpenTransportSound
<1>3. CASE r \in SeekHandle(o, 0)
  BY <1>2, <1>3, SeekSound DEF Opened, Matching, IsValid
<1>. QED
  BY <1>1, <1>2, <1>3

LEMMA OpenSinkSound ==
  ASSUME NEW others, Others(others), NEW m, Sound(m, others),
         NEW text \in Texts, NEW mode \in Modes, NEW append \in BOOLEAN,
         NEW r \in OpenSink(m, text, mode, append)
  PROVE  Sound(r, others) /\ Opened(r)
<1>1. PICK o \in OpenTransport(m, text, mode) :
        r = [o EXCEPT !.file.append = IF o.ok THEN append ELSE @]
  BY DEF OpenSink
<1>2. Sound(o, others) /\ Opened(o)
  BY OpenTransportSound
<1> DEFINE flag == IF o.ok THEN append ELSE o.file.append
           q == [o EXCEPT !.file.append = flag]
<1>3. flag \in BOOLEAN /\ r = q
  BY <1>1, <1>2 DEF Sound, Machines, FileRecords
<1>. HIDE DEF flag
<1>4. /\ Sound(q, others) /\ q.file.handle = o.file.handle
      /\ q.file.info = o.file.info /\ Own(q) = Own(o) /\ Content(q) = Content(o)
  BY <1>2, <1>3, AppendFlagSound
<1>. HIDE DEF q
<1>. QED
  BY <1>2, <1>3, <1>4 DEF Opened, Matching, IsValid

LEMMA ReadSomeSound ==
  ASSUME NEW others, NEW m, Sound(m, others), NEW count \in Nat,
         NEW r \in ReadSome(m, count)
  PROVE  Sound(r, others) /\ Settled(m, r)
<1>1. CASE r = Refused(m)
  BY <1>1, RefusedSound
<1>2. CASE r = [m EXCEPT !.ok = TRUE]
  BY <1>2, GrantedSound
<1>3. CASE /\ IsOpen(m) /\ Answers(m)
           /\ r = [Moved(m, Own(m).position + Len(Ahead(m, count)))
                     EXCEPT !.ok = TRUE, !.data = Ahead(m, count)]
  <2> DEFINE bytes == Ahead(m, count)
             p == Own(m).position + Len(bytes)
             q == Moved(m, p)
             g == [q EXCEPT !.ok = TRUE]
             d == [g EXCEPT !.data = bytes]
  <2>1. IsValid(m) /\ (IsFile(m) => Content(m) # None)
    BY <1>3 DEF IsOpen, Answers, IsFile
  <2>2. bytes \in Seq(Bytes)
    BY <2>1, AheadType
  <2>3. p \in Nat
    BY <2>1, <2>2, OwnHandle, LenProperties DEF Handles
  <2>. HIDE DEF bytes, p
  <2>4. /\ Sound(q, others) /\ q.file = m.file /\ q.disk = m.disk
        /\ Own(q).node = Own(m).node
    BY <2>1, <2>3, MovedSound
  <2>5. r = d
    <3>1. q \in Machines
      BY <2>4 DEF Sound
    <3>2. r = [q EXCEPT !.ok = TRUE, !.data = bytes]
      BY <1>3 DEF bytes, p
    <3>. HIDE DEF q
    <3>. QED
      BY <3>1, <3>2 DEF Machines
  <2>. HIDE DEF q
  <2>6. Sound(g, others) /\ g.file = q.file /\ g.disk = q.disk /\ Own(g) = Own(q)
    BY <2>4, GrantedSound
  <2>. HIDE DEF g
  <2>7. Sound(d, others) /\ d.file = g.file /\ d.disk = g.disk /\ Own(d) = Own(g)
    BY <2>2, <2>6, DataSound
  <2>. HIDE DEF d
  <2>. QED
    BY <2>4, <2>5, <2>6, <2>7, QuietIsSettled
<1>. QED
  BY <1>1, <1>2, <1>3 DEF ReadSome

\* A sink's write leaves the File with the handle and with what it knew.
LEMMA WriteSomeSound ==
  ASSUME NEW others, NEW m, Sound(m, others), NEW bytes \in Seq(Bytes),
         NEW r \in WriteSome(m, bytes)
  PROVE  Sound(r, others) /\ SameHandle(m, r)
<1>1. CASE r = Refused(m)
  BY <1>1, RefusedSound DEF SameHandle
<1>2. CASE r = [m EXCEPT !.ok = TRUE]
  BY <1>2, GrantedSound DEF SameHandle
<1>3. CASE /\ IsOpen(m) /\ Answers(m)
           /\ \E w \in WroteSome(IF m.file.append THEN Moved(m, End) ELSE m, bytes) :
                r = Refused(w) \/ r = [w EXCEPT !.ok = TRUE]
  <2> DEFINE start == IF m.file.append THEN Moved(m, End) ELSE m
  <2>1. IsValid(m) /\ (IsFile(m) => Content(m) # None)
    BY <1>3 DEF IsOpen, Answers, IsFile
  <2>2. /\ Sound(start, others) /\ start.file = m.file
        /\ Own(start).node = Own(m).node /\ Content(start) = Content(m)
    <3>1. CASE m.file.append
      <4>1. End \in Nat \cup {End}
        OBVIOUS
      <4>. QED
        BY <2>1, <3>1, <4>1, MovedSound
    <3>2. CASE ~m.file.append
      BY <3>2
    <3>. QED
      BY <3>1, <3>2
  <2>3. PICK w \in WroteSome(start, bytes) : r = Refused(w) \/ r = [w EXCEPT !.ok = TRUE]
    BY <1>3
  <2>. HIDE DEF start
  <2>4. IsValid(start) /\ Answers(start)
    BY <2>1, <2>2 DEF IsValid, Answers, IsFile
  <2>5. Sound(w, others) /\ w.file = start.file /\ Own(w).node = Own(start).node
    BY <2>2, <2>4, WroteSomeSound
  <2>6. Sound(r, others) /\ r.file = w.file /\ Own(r) = Own(w)
    <3>1. CASE r = Refused(w)
      BY <2>5, <3>1, RefusedSound
    <3>2. CASE r = [w EXCEPT !.ok = TRUE]
      BY <2>5, <3>2, GrantedSound
    <3>. QED
      BY <2>3, <3>1, <3>2
  <2>. QED
    BY <2>2, <2>5, <2>6 DEF SameHandle
<1>. QED
  BY <1>1, <1>2, <1>3 DEF WriteSome

LEMMA WriteAtSound ==
  ASSUME NEW others, NEW m, Sound(m, others), NEW position \in Nat,
         NEW bytes \in Seq(Bytes), NEW r \in WriteAt(m, position, bytes)
  PROVE  Sound(r, others) /\ SameHandle(m, r)
<1>1. PICK s \in SeekHandle(m, position) :
        \/ r = s
        \/ \E w \in WriteSome([s EXCEPT !.file.append = FALSE], bytes) :
             r = [w EXCEPT !.file.append = m.file.append]
  BY DEF WriteAt
<1>2. /\ Sound(s, others) /\ s.file = m.file
      /\ IsValid(m) => Own(s).node = Own(m).node
  BY SeekSound
<1>3. CASE r = s
  BY <1>2, <1>3 DEF SameHandle
<1>4. CASE \E w \in WriteSome([s EXCEPT !.file.append = FALSE], bytes) :
             r = [w EXCEPT !.file.append = m.file.append]
  <2> DEFINE no == FALSE
             yes == m.file.append
             q == [s EXCEPT !.file.append = no]
  <2>1. no \in BOOLEAN /\ yes \in BOOLEAN
    BY DEF Sound, Machines, FileRecords
  <2>2. PICK w \in WriteSome(q, bytes) : r = [w EXCEPT !.file.append = yes]
    BY <1>4
  <2>. HIDE DEF no, yes
  <2>3. /\ Sound(q, others) /\ q.file.handle = s.file.handle
        /\ q.file.volume = s.file.volume /\ q.file.info = s.file.info
        /\ Own(q) = Own(s)
    BY <1>2, <2>1, AppendFlagSound
  <2>. HIDE DEF q
  <2>4. Sound(w, others) /\ SameHandle(q, w)
    BY <2>3, WriteSomeSound
  <2> DEFINE e == [w EXCEPT !.file.append = yes]
  <2>5. /\ Sound(e, others) /\ e.file.handle = w.file.handle
        /\ e.file.volume = w.file.volume /\ e.file.info = w.file.info
        /\ Own(e) = Own(w)
    BY <2>1, <2>4, AppendFlagSound
  <2>6. r = e
    BY <2>2
  <2>. HIDE DEF e
  <2>. QED
    BY <1>2, <2>3, <2>4, <2>5, <2>6 DEF SameHandle, IsValid
<1>. QED
  BY <1>1, <1>3, <1>4

LEMMA TruncateSound ==
  ASSUME NEW others, NEW m, Sound(m, others), NEW size \in Nat,
         NEW r \in Truncate(m, size)
  PROVE  Sound(r, others) /\ Settled(m, r)
<1>1. CASE r = Refused(m)
  BY <1>1, RefusedSound
<1>2. CASE r \in Resize(m, size)
  BY <1>2, ResizeSound
<1>. QED
  BY <1>1, <1>2 DEF Truncate

-----------------------------------------------------------------------------
(* The Files.                                                              *)

\* What a File keeps of its handle is what the firmware says of it, and the
\* size is right unless it changed behind the back of the File.
Known(f) ==
  files[f].handle # None =>
    /\ files[f].volume = handles[files[f].handle].volume
    /\ files[f].info.directory = (handles[files[f].handle].node = "directory")
    /\ ~bypassed[f] /\ handles[files[f].handle].node = "file" =>
         /\ disk[files[f].volume] # None
         /\ Len(disk[files[f].volume]) = files[f].info.size

FileTypes ==
  /\ disk \in Disks
  /\ handles \in Tables
  /\ files \in [Files -> FileRecords]
  /\ bypassed \in [Files -> BOOLEAN]

FileInv == FileTypes /\ HandlesOwned /\ \A f \in Files : Known(f)

\* The handles of the Files other than f.
Apart(f) == Restrict(handles, DOMAIN handles \ {files[f].handle})

\* HandlesOwned, said of one File and the others.
LEMMA OwnedApart ==
  ASSUME FileInv, NEW f \in Files
  PROVE  /\ Apart(f) \in Tables
         /\ DOMAIN Apart(f) = DOMAIN handles \ {files[f].handle}
         /\ \A h \in DOMAIN Apart(f) : Apart(f)[h] = handles[h]
         /\ files[f].handle \notin DOMAIN Apart(f)
         /\ files[f].handle # None => files[f].handle \in DOMAIN handles
         /\ \A g \in Files \ {f} :
              files[g].handle # None => files[g].handle \in DOMAIN Apart(f)
         /\ \A h \in DOMAIN Apart(f) : \E g \in Files \ {f} : files[g].handle = h
         /\ None \notin DOMAIN handles /\ None \notin DOMAIN Apart(f)
<1>1. handles \in Tables
  BY DEF FileInv, FileTypes
<1>2. /\ Apart(f) \in Tables
      /\ DOMAIN Apart(f) = DOMAIN handles \ {files[f].handle}
      /\ \A h \in DOMAIN Apart(f) : Apart(f)[h] = handles[h]
  BY <1>1, TableRestrict DEF Apart
<1>3. /\ \A h \in DOMAIN handles : \E g \in Files : files[g].handle = h
      /\ \A g \in Files : files[g].handle # None => files[g].handle \in DOMAIN handles
      /\ \A g, k \in Files : files[g].handle # None /\ files[g].handle = files[k].handle
                               => g = k
  BY DEF FileInv, HandlesOwned
<1>4. None \notin DOMAIN handles
  BY <1>1, TableTypes, Constants
<1>. QED
  BY <1>2, <1>3, <1>4

LEMMA OthersApart ==
  ASSUME FileInv, NEW f \in Files
  PROVE  Others(Apart(f))
<1> DEFINE H == {g \in Files \ {f} : files[g].handle # None}
           F == [g \in H |-> files[g].handle]
           D == DOMAIN Apart(f)
<1>1. IsFiniteSet(Files \ {f}) /\ Cardinality(Files \ {f}) = Cardinality(Files) - 1
  BY Constants, FS_RemoveElement
<1>2. /\ IsFiniteSet(H) /\ Cardinality(H) <= Cardinality(Files) - 1
      /\ Cardinality(H) \in Nat
  <2>1. H \in SUBSET (Files \ {f})
    OBVIOUS
  <2>. HIDE DEF H
  <2>. QED
    BY <1>1, <2>1, FS_Subset, FS_CardinalityType
<1>3. /\ \A g \in H : files[g].handle \in D
      /\ \A h \in D : h # None /\ \E g \in Files \ {f} : files[g].handle = h
  <2>1. /\ \A g \in Files \ {f} : files[g].handle # None => files[g].handle \in D
        /\ \A h \in D : \E g \in Files \ {f} : files[g].handle = h
        /\ None \notin D
    BY OwnedApart
  <2>. QED
    BY <2>1
<1>4. F \in Surjection(H, D)
  <2>1. F \in [H -> D]
    BY <1>3
  <2>2. \A h \in D : \E g \in H : F[g] = h
    <3>. TAKE h \in D
    <3>1. PICK g \in Files \ {f} : files[g].handle = h /\ h # None
      BY <1>3
    <3>2. g \in H /\ F[g] = h
      BY <3>1
    <3>. QED
      BY <3>2
  <2>. QED
    BY <2>1, <2>2 DEF Surjection
<1>. HIDE DEF F, H, D
<1>5. IsFiniteSet(D) /\ Cardinality(D) <= Cardinality(H) /\ Cardinality(D) \in Nat
  BY <1>2, <1>4, FS_Surjection, FS_CardinalityType
<1>6. Cardinality(D) < Cardinality(Files)
  BY <1>2, <1>5, Constants
<1>. QED
  BY <1>5, <1>6, OwnedApart DEF Others, D

LEMMA MachineSound ==
  ASSUME FileInv, NEW f \in Files
  PROVE  /\ Sound(Machine(f), Apart(f)) /\ Machine(f).data = <<>>
         /\ Machine(f).disk = disk /\ Machine(f).file = files[f]
         /\ Own(Machine(f)) = handles[files[f].handle]
         /\ IsValid(Machine(f)) <=> files[f].handle # None
         /\ IsValid(Machine(f)) /\ ~bypassed[f] => Matching(Machine(f))
<1> DEFINE m == Machine(f)
<1>1. <<>> \in Seq(Bytes)
  OBVIOUS
<1>2. /\ m \in Machines /\ m.disk = disk /\ m.handles = handles
      /\ m.file = files[f] /\ m.data = <<>>
  BY <1>1 DEF FileInv, FileTypes, Machine, Machines
<1>. HIDE DEF m
<1>3. /\ IsValid(m) <=> files[f].handle # None
      /\ Own(m) = handles[files[f].handle]
      /\ Content(m) = disk[handles[files[f].handle].volume]
      /\ Held(m) = IF files[f].handle # None THEN {files[f].handle} ELSE {}
  BY <1>2 DEF IsValid, Own, Content, Held
<1>4. Known(f)
  BY DEF FileInv
<1>5. DOMAIN m.handles = DOMAIN Apart(f) \cup Held(m)
  <2>1. /\ DOMAIN Apart(f) = DOMAIN handles \ {files[f].handle}
        /\ files[f].handle # None => files[f].handle \in DOMAIN handles
        /\ None \notin DOMAIN handles
    BY OwnedApart
  <2>2. CASE files[f].handle = None
    BY <1>2, <1>3, <2>1, <2>2
  <2>3. CASE files[f].handle # None
    BY <1>2, <1>3, <2>1, <2>3
  <2>. QED
    BY <2>2, <2>3
<1>6. IsValid(m) => Described(m)
  BY <1>2, <1>3, <1>4 DEF Known, Described
<1>7. IsValid(m) /\ ~bypassed[f] => Matching(m)
  BY <1>2, <1>3, <1>4 DEF Known, Matching
<1>8. Sound(m, Apart(f))
  BY <1>2, <1>5, <1>6, OwnedApart DEF Sound
<1>. QED
  BY <1>2, <1>3, <1>7, <1>8 DEF m

LEMMA SameSize ==
  ASSUME NEW d \in Disks, NEW e \in Disks, NEW v \in ToSet(Volumes),
         SizeOn(e, v) = SizeOn(d, v), d[v] # None
  PROVE  e[v] # None /\ Len(e[v]) = Len(d[v])
<1>1. d[v] \in Seq(Bytes)
  BY DEF Disks, Contents
<1>2. Len(d[v]) \in Nat
  BY <1>1, LenProperties
<1>. QED
  BY <1>2, Constants DEF SizeOn

\* A call that returns r keeps the invariant.
LEMMA ReturnedKeeps ==
  ASSUME FileInv, NEW f \in Files, NEW call, NEW r, Sound(r, Apart(f)),
         Returned(f, call, r),
         \/ Opened(r)
         \/ /\ call # "Open" /\ SameHandle(Machine(f), r)
            /\ r.ok /\ call \notin Around => r.disk = disk
  PROVE  FileInv'
<1> DEFINE m == Machine(f)
<1>1. /\ r \in Machines /\ r.disk \in Disks /\ r.handles \in Tables
      /\ r.file \in FileRecords /\ r.ok \in BOOLEAN
  BY DEF Sound, Machines
<1>2. /\ disk \in Disks /\ files \in [Files -> FileRecords]
      /\ bypassed \in [Files -> BOOLEAN]
  BY DEF FileInv, FileTypes
<1>3. /\ disk' = r.disk /\ handles' = r.handles
      /\ files' = [files EXCEPT ![f] = r.file]
      /\ files' \in [Files -> FileRecords] /\ files'[f] = r.file
      /\ \A g \in Files \ {f} : files'[g] = files[g]
  BY <1>1, <1>2 DEF Returned
<1>4. \A g \in Files :
        bypassed'[g] = IF g = f /\ call = "Open" /\ r.ok THEN FALSE
          ELSE \/ bypassed[g]
               \/ /\ files'[g].handle # None
                  /\ SizeOn(r.disk, files'[g].volume) # SizeOn(disk, files'[g].volume)
                  /\ g # f \/ ~r.ok \/ call \in Around
  BY DEF Returned
<1>5. bypassed' \in [Files -> BOOLEAN]
  <2>1. \A g \in Files : bypassed[g] \in BOOLEAN
    BY <1>2
  <2>2. \A g \in Files : bypassed'[g] \in BOOLEAN
    BY <1>4, <2>1
  <2>3. bypassed' = [g \in Files |-> bypassed'[g]]
    BY DEF Returned
  <2>. QED
    BY <2>2, <2>3
<1>6. FileTypes'
  BY <1>1, <1>3, <1>5 DEF FileTypes
<1>7. /\ DOMAIN r.handles = DOMAIN Apart(f) \cup Held(r)
      /\ r.file.handle \notin DOMAIN Apart(f)
      /\ \A h \in DOMAIN Apart(f) : r.handles[h] = handles[h]
      /\ IsValid(r) => Described(r)
  BY OwnedApart DEF Sound
<1>11. None \notin DOMAIN Apart(f)
  BY OwnedApart
<1>8. HandlesOwned'
  <2> DEFINE held == {g \in Files : files'[g].handle # None}
  <2>1. \A g \in held : files'[g].handle \in DOMAIN handles'
    <3>. TAKE g \in held
    <3>1. CASE g = f
      BY <1>3, <1>7, <3>1 DEF Held, IsValid
    <3>2. CASE g # f
      <4>1. files'[g] = files[g] /\ files[g].handle # None
        BY <1>3, <3>2
      <4>2. files[g].handle \in DOMAIN Apart(f)
        BY <3>2, <4>1, OwnedApart
      <4>. QED
        BY <1>3, <1>7, <4>1, <4>2
    <3>. QED
      BY <3>1, <3>2
  <2>2. \A h \in DOMAIN handles' : \E g \in held : files'[g].handle = h
    <3>. TAKE h \in DOMAIN handles'
    <3>1. CASE h \in DOMAIN Apart(f)
      <4>0. h # None
        BY <3>1, <1>11
      <4>1. PICK g \in Files \ {f} : files[g].handle = h /\ h # None
        BY <3>1, <4>0, OwnedApart
      <4>. QED
        BY <1>3, <4>1
    <3>2. CASE h \in Held(r)
      BY <1>3, <3>2 DEF Held, IsValid
    <3>. QED
      BY <1>3, <1>7, <3>1, <3>2
  <2>3. \A g, k \in held : files'[g].handle = files'[k].handle => g = k
    <3>1. \A g \in held \ {f} : files'[g].handle \in DOMAIN Apart(f)
      BY <1>3, OwnedApart
    <3>2. \A g \in held \ {f} : files'[g].handle # files'[f].handle
      BY <1>3, <1>7, <3>1
    <3>3. \A g, k \in held \ {f} : files'[g].handle = files'[k].handle => g = k
      BY <1>3 DEF FileInv, HandlesOwned
    <3>. QED
      BY <3>2, <3>3
  <2>4. {files'[g].handle : g \in held} = DOMAIN handles'
    BY <2>1, <2>2
  <2>. QED
    BY <2>3, <2>4 DEF HandlesOwned
<1>9. ASSUME NEW g \in Files \ {f} PROVE Known(g)'
  <2>. SUFFICES ASSUME files[g].handle # None PROVE Known(g)'
    BY <1>3 DEF Known
  <2> DEFINE h == files[g].handle
             v == files[g].volume
  <2>1. files'[g] = files[g] /\ handles'[h] = handles[h]
    BY <1>3, <1>7, OwnedApart
  <2>2. Known(g) /\ handles[h] \in Handles
    BY OwnedApart, TableTypes DEF FileInv, FileTypes
  <2>3. v \in ToSet(Volumes)
    BY <2>2 DEF Known, Handles
  <2>4. ~bypassed'[g] => ~bypassed[g] /\ SizeOn(r.disk, v) = SizeOn(disk, v)
    BY <1>4, <2>1
  <2>5. ~bypassed'[g] /\ disk[v] # None
          => disk'[v] # None /\ Len(disk'[v]) = Len(disk[v])
    BY <1>1, <1>2, <1>3, <2>3, <2>4, SameSize
  <2>. QED
    BY <2>1, <2>2, <2>4, <2>5 DEF Known
<1>10. Known(f)'
  <2>. SUFFICES ASSUME IsValid(r) PROVE Known(f)'
    BY <1>3 DEF Known, IsValid
  <2> DEFINE h == r.file.handle
             v == r.file.volume
  <2>1. /\ files'[f] = r.file /\ handles'[h] = Own(r) /\ Described(r)
        /\ Own(r) \in Handles /\ v = Own(r).volume /\ v \in ToSet(Volumes)
        /\ Content(r) = disk'[v]
    BY <1>3, <1>7, OwnHandle DEF Own
  <2>2. CASE Opened(r)
    BY <2>1, <2>2 DEF Opened, Matching, Known, Described
  <2>3. CASE /\ call # "Open" /\ SameHandle(m, r)
             /\ r.ok /\ call \notin Around => r.disk = disk
    <3>1. /\ m.file = files[f]
          /\ IsValid(m) <=> files[f].handle # None
          /\ Own(m) = handles[files[f].handle]
      BY MachineSound
    <3>2. /\ h = files[f].handle /\ v = files[f].volume
          /\ r.file.info = files[f].info /\ Own(r).node = handles[h].node
          /\ files[f].handle # None
      <4>1. /\ r.file.handle = m.file.handle /\ r.file.volume = m.file.volume
            /\ r.file.info = m.file.info
            /\ IsValid(m) => Own(r).node = Own(m).node
        BY <2>3 DEF SameHandle
      <4>2. r.file.handle # None
        BY DEF IsValid
      <4>. HIDE DEF m
      <4>. QED
        BY <3>1, <4>1, <4>2
    <3>3. ~bypassed'[f] => ~bypassed[f] /\ (SizeOn(r.disk, v) = SizeOn(disk, v))
      <4>. SUFFICES ASSUME ~bypassed'[f]
                    PROVE  ~bypassed[f] /\ (SizeOn(r.disk, v) = SizeOn(disk, v))
        OBVIOUS
      <4>1. ~ \/ bypassed[f]
              \/ /\ r.file.handle # None
                 /\ SizeOn(r.disk, v) # SizeOn(disk, v)
                 /\ ~r.ok \/ call \in Around
        BY <1>3, <1>4, <2>3
      <4>2. CASE r.ok /\ call \notin Around
        BY <2>3, <4>1, <4>2
      <4>3. CASE ~(r.ok /\ call \notin Around)
        BY <4>1, <4>3, <3>2
      <4>. QED
        BY <4>2, <4>3
    <3>4. Known(f)
      BY DEF FileInv
    <3>5. ~bypassed'[f] /\ disk[v] # None
            => disk'[v] # None /\ Len(disk'[v]) = Len(disk[v])
      BY <1>1, <1>2, <1>3, <2>1, <3>3, SameSize
    <3>. QED
      BY <2>1, <3>2, <3>3, <3>4, <3>5 DEF Known, Described
  <2>. QED
    BY <2>2, <2>3
<1>. QED
  BY <1>6, <1>8, <1>9, <1>10 DEF FileInv

LEMMA InputTypes ==
  /\ Sizes \subseteq Nat
  /\ Data \subseteq Seq(Bytes)
<1>1. Sizes \subseteq Nat
  BY Constants DEF Sizes
<1>2. \A n \in 0 .. MaxSize : [1 .. n -> Bytes] \subseteq Seq(Bytes)
  BY Constants
<1>. QED
  BY <1>1, <1>2 DEF Data

\* One case for each kind of outcome.
LEMMA OpeningKeeps ==
  ASSUME FileInv, NEW f \in Files, NEW call, NEW outcomes, Call(f, call, outcomes),
         \A r \in outcomes : Sound(r, Apart(f)) /\ Opened(r)
  PROVE  FileInv'
<1>1. PICK r \in outcomes : Returned(f, call, r)
  BY DEF Call
<1>. QED
  BY <1>1, ReturnedKeeps

LEMMA SettledKeeps ==
  ASSUME FileInv, NEW f \in Files, NEW call, call # "Open", NEW outcomes,
         Call(f, call, outcomes),
         \A r \in outcomes : Sound(r, Apart(f)) /\ Settled(Machine(f), r)
  PROVE  FileInv'
<1>1. PICK r \in outcomes : Returned(f, call, r)
  BY DEF Call
<1>2. Machine(f).disk = disk
  BY MachineSound
<1>. QED
  BY <1>1, <1>2, ReturnedKeeps DEF Settled

LEMMA AroundKeeps ==
  ASSUME FileInv, NEW f \in Files, NEW call \in Around, NEW outcomes,
         Call(f, call, outcomes),
         \A r \in outcomes : Sound(r, Apart(f)) /\ SameHandle(Machine(f), r)
  PROVE  FileInv'
<1>1. PICK r \in outcomes : Returned(f, call, r)
  BY DEF Call
<1>2. call # "Open"
  BY DEF Around
<1>. QED
  BY <1>1, <1>2, ReturnedKeeps

LEMMA UseFileKeeps ==
  ASSUME FileInv, NEW f \in Files, UseFile(f)
  PROVE  FileInv'
<1> DEFINE m == Machine(f)
<1>1. Sound(m, Apart(f)) /\ m.data = <<>> /\ Others(Apart(f))
  BY MachineSound, OthersApart
<1>2. CASE OpenFile(f)
  <2>1. PICK t \in Texts, mode \in Modes :
          \/ \E v \in ToSet(Volumes) \cup {None} : Call(f, "Open", Open(m, t, v, mode))
          \/ Call(f, "Open", OpenAny(m, t, mode))
    BY <1>2 DEF OpenFile
  <2>. HIDE DEF m
  <2>2. ASSUME NEW v \in ToSet(Volumes) \cup {None}, Call(f, "Open", Open(m, t, v, mode))
        PROVE  FileInv'
    <3>1. \A r \in Open(m, t, v, mode) : Sound(r, Apart(f)) /\ Opened(r)
      BY <1>1, OpenSound DEF OpenedFor
    <3>. QED
      BY <2>2, <3>1, OpeningKeeps
  <2>3. CASE Call(f, "Open", OpenAny(m, t, mode))
    <3>1. \A r \in OpenAny(m, t, mode) : Sound(r, Apart(f)) /\ Opened(r)
      BY <1>1, OpenAnySound
    <3>. QED
      BY <2>3, <3>1, OpeningKeeps
  <2>. QED
    BY <2>1, <2>2, <2>3
<1>3. CASE CloseFile(f)
  <2>1. \A r \in Close(m) : Sound(r, Apart(f)) /\ Opened(r)
    BY <1>1, CloseSound DEF Opened
  <2>. QED
    BY <1>3, <2>1, OpeningKeeps DEF CloseFile
<1>4. CASE DeleteFile(f)
  <2>1. \A r \in Delete(m) : Sound(r, Apart(f)) /\ Settled(m, r)
    BY <1>1, DeleteSound
  <2>. QED
    BY <1>4, <2>1, SettledKeeps DEF DeleteFile
<1>5. CASE FlushFile(f) \/ TellFile(f)
  <2>1. \A r \in Flush(m) : Sound(r, Apart(f)) /\ Settled(m, r)
    BY <1>1, FlushSound
  <2>. QED
    BY <1>5, <2>1, SettledKeeps DEF FlushFile, TellFile, Position
<1>6. CASE ResizeFile(f)
  <2>1. PICK n \in Sizes : Call(f, "Resize", Resize(m, n))
    BY <1>6 DEF ResizeFile
  <2>2. \A r \in Resize(m, n) : Sound(r, Apart(f)) /\ Settled(m, r)
    BY <1>1, InputTypes, ResizeSound
  <2>. QED
    BY <2>1, <2>2, SettledKeeps
<1>7. CASE ReadFile(f)
  <2>1. \A r \in ReadVector(m) \cup ReadBuffer(m) :
          Sound(r, Apart(f)) /\ Settled(m, r)
    BY <1>1, ReadSound DEF ReadOutcome
  <2>. QED
    BY <1>7, <2>1, SettledKeeps DEF ReadFile
<1>8. CASE WriteFile(f)
  <2>1. PICK place \in Sizes \cup {End}, bytes \in Data :
               Call(f, "Write", Write(m, place, bytes))
    BY <1>8 DEF WriteFile
  <2>2. \A r \in Write(m, place, bytes) : Sound(r, Apart(f)) /\ Settled(m, r)
    BY <1>1, InputTypes, WriteSound
  <2>. QED
    BY <2>1, <2>2, SettledKeeps
<1>. QED
  BY <1>2, <1>3, <1>4, <1>5, <1>6, <1>7, <1>8 DEF UseFile

LEMMA UseSourceKeeps ==
  ASSUME FileInv, NEW f \in Files, UseSource(f)
  PROVE  FileInv'
<1> DEFINE m == Machine(f)
<1>1. Sound(m, Apart(f)) /\ Others(Apart(f))
  BY MachineSound, OthersApart
<1>2. ASSUME NEW t \in Texts, NEW mode \in Modes, Call(f, "Open", OpenSource(m, t, mode))
      PROVE  FileInv'
  <2>1. \A r \in OpenSource(m, t, mode) : Sound(r, Apart(f)) /\ Opened(r)
    BY <1>1, OpenSourceSound
  <2>. QED
    BY <1>2, <2>1, OpeningKeeps
<1>3. ASSUME NEW n \in Sizes, Call(f, "ReadSome", ReadSome(m, n))
      PROVE  FileInv'
  <2>1. \A r \in ReadSome(m, n) : Sound(r, Apart(f)) /\ Settled(m, r)
    BY <1>1, InputTypes, ReadSomeSound
  <2>. QED
    BY <1>3, <2>1, SettledKeeps
<1>. QED
  BY <1>2, <1>3 DEF UseSource

LEMMA UseSinkKeeps ==
  ASSUME FileInv, NEW f \in Files, UseSink(f)
  PROVE  FileInv'
<1> DEFINE m == Machine(f)
<1>1. Sound(m, Apart(f)) /\ Others(Apart(f))
  BY MachineSound, OthersApart
<1>2. ASSUME NEW t \in Texts, NEW mode \in Modes, NEW append \in BOOLEAN,
             Call(f, "Open", OpenSink(m, t, mode, append))
      PROVE  FileInv'
  <2>1. \A r \in OpenSink(m, t, mode, append) : Sound(r, Apart(f)) /\ Opened(r)
    BY <1>1, OpenSinkSound
  <2>. QED
    BY <1>2, <2>1, OpeningKeeps
<1>3. ASSUME NEW bytes \in Data, Call(f, "WriteSome", WriteSome(m, bytes))
      PROVE  FileInv'
  <2>1. \A r \in WriteSome(m, bytes) : Sound(r, Apart(f)) /\ SameHandle(m, r)
    BY <1>1, InputTypes, WriteSomeSound
  <2>. QED
    BY <1>3, <2>1, AroundKeeps DEF Around
<1>4. ASSUME NEW n \in Sizes, NEW bytes \in Data, Call(f, "WriteAt", WriteAt(m, n, bytes))
      PROVE  FileInv'
  <2>1. \A r \in WriteAt(m, n, bytes) : Sound(r, Apart(f)) /\ SameHandle(m, r)
    BY <1>1, InputTypes, WriteAtSound
  <2>. QED
    BY <1>4, <2>1, AroundKeeps DEF Around
<1>5. ASSUME NEW n \in Sizes, Call(f, "Truncate", Truncate(m, n))
      PROVE  FileInv'
  <2>1. \A r \in Truncate(m, n) : Sound(r, Apart(f)) /\ Settled(m, r)
    BY <1>1, InputTypes, TruncateSound
  <2>. QED
    BY <1>5, <2>1, SettledKeeps
<1>. QED
  BY <1>2, <1>3, <1>4, <1>5 DEF UseSink

LEMMA UseTransportKeeps ==
  ASSUME FileInv, NEW f \in Files, UseTransport(f)
  PROVE  FileInv'
<1> DEFINE m == Machine(f)
<1>1. Sound(m, Apart(f))
  BY MachineSound
<1>2. ASSUME NEW n \in Sizes, Call(f, "Seek", SeekHandle(m, n))
      PROVE  FileInv'
  <2>1. ASSUME NEW r \in SeekHandle(m, n)
        PROVE  Sound(r, Apart(f)) /\ Settled(m, r)
    <3>1. /\ Sound(r, Apart(f)) /\ r.file = m.file /\ r.disk = m.disk
          /\ IsValid(m) => Own(r).node = Own(m).node
      BY <1>1, InputTypes, SeekSound
    <3>. QED
      BY <3>1, QuietIsSettled
  <2>. QED
    BY <1>2, <2>1, SettledKeeps
<1>3. CASE Call(f, "Tell", AskHandle(m))
  <2>1. \A r \in AskHandle(m) : Sound(r, Apart(f)) /\ Settled(m, r)
    BY <1>1, AskHandleSound
  <2>. QED
    BY <1>3, <2>1, SettledKeeps
<1>4. CASE Call(f, "Close", CloseTransport(m))
  <2>1. \A r \in CloseTransport(m) : Sound(r, Apart(f)) /\ Opened(r)
    BY <1>1, CloseTransportSound
  <2>. QED
    BY <1>4, <2>1, OpeningKeeps
<1>. QED
  BY <1>2, <1>3, <1>4 DEF UseTransport

\* The File that is moved to has the other's handle, and the other has none.
LEMMA MoveKeeps ==
  ASSUME FileInv, NEW f \in Files, NEW g \in Files, f # g, MoveFile(f, g)
  PROVE  FileInv'
<1> DEFINE empty == [NewFile EXCEPT !.open = files[g].open, !.append = files[g].append]
<1>1. PICK c \in Close(Machine(f)) : handles' = c.handles
  BY DEF MoveFile
<1>2. /\ disk \in Disks /\ handles \in Tables /\ files \in [Files -> FileRecords]
      /\ bypassed \in [Files -> BOOLEAN]
  BY DEF FileInv, FileTypes
<1>3. handles' \in Tables /\ DOMAIN handles' = DOMAIN Apart(f)
      /\ \A h \in DOMAIN Apart(f) : handles'[h] = handles[h]
  <2>1. /\ Sound(c, Apart(f)) /\ ~IsValid(c)
    BY MachineSound, CloseSound
  <2>. QED
    BY <1>1, <2>1, OwnedApart DEF Sound, Machines, Held
<1>4. empty \in FileRecords /\ empty.handle = None
  <2>1. files[g].open \in BOOLEAN /\ files[g].append \in BOOLEAN
    BY <1>2 DEF FileRecords
  <2>. QED
    BY <2>1 DEF FileRecords, NewFile, NoInfo
<1>. HIDE DEF empty
<1>5. /\ files' \in [Files -> FileRecords]
      /\ files'[f] = files[g] /\ files'[g] = empty
      /\ \A k \in Files \ {f, g} : files'[k] = files[k]
  <2>1. files' = [files EXCEPT ![f] = files[g], ![g] = empty]
    BY DEF MoveFile, empty
  <2>. QED
    BY <1>2, <1>4, <2>1
<1>6. /\ bypassed' \in [Files -> BOOLEAN] /\ bypassed'[f] = bypassed[g]
      /\ \A k \in Files \ {f} : bypassed'[k] = bypassed[k]
      /\ disk' = disk
  BY <1>2 DEF MoveFile
<1>7. FileTypes'
  BY <1>2, <1>3, <1>5, <1>6 DEF FileTypes
<1>8. /\ \A k \in Files \ {f} :
           files[k].handle # None => files[k].handle \in DOMAIN Apart(f)
      /\ \A h \in DOMAIN Apart(f) : \E k \in Files \ {f} : files[k].handle = h
      /\ None \notin DOMAIN Apart(f)
  BY OwnedApart
<1> DEFINE From(k) == IF k = f THEN g ELSE k
<1>9. \A k \in Files : files'[k].handle # None
        => /\ k # g /\ From(k) \in Files \ {f}
           /\ files'[k] = files[From(k)] /\ bypassed'[k] = bypassed[From(k)]
  BY <1>4, <1>5, <1>6
<1>10. HandlesOwned'
  <2> DEFINE held == {k \in Files : files'[k].handle # None}
  <2>1. \A k \in held : files'[k].handle \in DOMAIN handles'
    BY <1>3, <1>8, <1>9
  <2>2. \A h \in DOMAIN handles' : \E k \in held : files'[k].handle = h
    <3>. TAKE h \in DOMAIN handles'
    <3>1. h # None /\ h \in DOMAIN Apart(f)
      BY <1>3, <1>8
    <3>2. PICK k \in Files \ {f} : files[k].handle = h
      BY <1>8, <3>1
    <3>3. CASE k = g
      BY <1>5, <3>1, <3>2, <3>3
    <3>4. CASE k # g
      BY <1>5, <3>1, <3>2, <3>4
    <3>. QED
      BY <3>3, <3>4
  <2>3. \A j, k \in held : files'[j].handle = files'[k].handle => j = k
    <3>1. \A j, k \in Files : files[j].handle # None /\ files[j].handle = files[k].handle
                                => j = k
      BY DEF FileInv, HandlesOwned
    <3>. QED
      BY <1>9, <3>1
  <2>4. {files'[k].handle : k \in held} = DOMAIN handles'
    BY <2>1, <2>2
  <2>. QED
    BY <2>3, <2>4 DEF HandlesOwned
<1>11. ASSUME NEW k \in Files PROVE Known(k)'
  <2>. SUFFICES ASSUME files'[k].handle # None PROVE Known(k)'
    BY DEF Known
  <2> DEFINE j == From(k)
  <2>1. j \in Files \ {f} /\ files'[k] = files[j] /\ bypassed'[k] = bypassed[j]
    BY <1>9
  <2>. HIDE DEF j, From
  <2>2. handles'[files[j].handle] = handles[files[j].handle]
    BY <1>3, <1>8, <2>1
  <2>3. Known(j)
    BY <2>1 DEF FileInv
  <2>. QED
    BY <1>6, <2>1, <2>2, <2>3 DEF Known
<1>. QED
  BY <1>7, <1>10, <1>11 DEF FileInv

LEMMA FileInitially == Init => FileInv
<1>. SUFFICES ASSUME Init PROVE FileInv
  OBVIOUS
<1>1. disk \in Disks
  <2>1. <<>> \in Seq(Bytes)
    OBVIOUS
  <2>. QED
    BY <2>1 DEF Init, Disks, Contents
<1>2. handles \in Tables /\ DOMAIN handles = {}
  <2>1. DOMAIN <<>> = {}
    OBVIOUS
  <2>2. <<>> \in [{} -> Handles]
    BY <2>1
  <2>. QED
    BY <2>1, <2>2 DEF Init, Tables
<1>3. NewFile \in FileRecords /\ NewFile.handle = None
  BY DEF FileRecords, NewFile, NoInfo
<1>4. files \in [Files -> FileRecords] /\ \A f \in Files : files[f].handle = None
  BY <1>3 DEF Init
<1>5. bypassed \in [Files -> BOOLEAN]
  BY DEF Init
<1>6. HandlesOwned
  BY <1>2, <1>4 DEF HandlesOwned
<1>. QED
  BY <1>1, <1>2, <1>4, <1>5, <1>6 DEF FileInv, FileTypes, Known

LEMMA FileStep == FileInv /\ [Next]_vars => FileInv'
<1>. SUFFICES ASSUME FileInv, [Next]_vars PROVE FileInv'
  OBVIOUS
<1>1. ASSUME NEW f \in Files, UseFile(f) PROVE FileInv'
  BY <1>1, UseFileKeeps
<1>2. ASSUME NEW f \in Files, NEW g \in Files, f # g, MoveFile(f, g) PROVE FileInv'
  BY <1>2, MoveKeeps
<1>3. ASSUME NEW f \in Files, UseSource(f) PROVE FileInv'
  BY <1>3, UseSourceKeeps
<1>4. ASSUME NEW f \in Files, UseSink(f) PROVE FileInv'
  BY <1>4, UseSinkKeeps
<1>5. ASSUME NEW f \in Files, UseTransport(f) PROVE FileInv'
  BY <1>5, UseTransportKeeps
<1>6. CASE UNCHANGED vars
  BY <1>6 DEF vars, FileInv, FileTypes, HandlesOwned, Known
<1>. QED
  BY <1>1, <1>2, <1>3, <1>4, <1>5, <1>6 DEF Next, Sources, Sinks

\* The inductive invariant: the types, who owns which handle, and that each
\* File knows its volume, its kind and, unless it was bypassed, its size.
THEOREM FileInvariance == Spec => []FileInv
BY FileInitially, FileStep, PTL DEF Spec

\* Whatever fails, and whatever is moved, the open handles of the firmware are
\* those of the Files, one each: none leaks, none is closed twice.
THEOREM HandlesOwnedCorrect == Spec => []HandlesOwned
<1>1. FileInv => HandlesOwned
  BY DEF FileInv
<1>. QED
  BY <1>1, FileInvariance, PTL

\* An Open that succeeds has a handle for the directory or file that the path
\* names, however the path is written, on the volume the File reports.
THEOREM OpensWhatItNamesCorrect == Spec => []OpensWhatItNames
<1>1. FileInv => OpensWhatItNames
  <2>. SUFFICES ASSUME FileInv, NEW f \in Files, NEW t \in Texts, NEW mode \in Modes,
                       NEW r \in OpenAny(Machine(f), t, mode), r.ok
                PROVE  Own(r).volume = r.file.volume /\ Own(r).node = NamedNode[t]
    BY DEF OpensWhatItNames
  <2>1. Others(Apart(f)) /\ Sound(Machine(f), Apart(f))
    BY MachineSound, OthersApart
  <2>2. /\ Sound(r, Apart(f)) /\ IsValid(r)
        /\ Own(r).node = NodeOf[t] /\ NodeOf[t] # None
    BY <2>1, OpenAnySound
  <2>. QED
    BY <2>2, NodeIsNamed DEF Sound, Described
<1>. QED
  BY <1>1, FileInvariance, PTL

\* A Read that succeeds has the whole file, unless its size was changed behind
\* the back of the File.
THEOREM ReadReturnsWholeCorrect == Spec => []ReadReturnsWhole
<1>1. FileInv => ReadReturnsWhole
  <2>. SUFFICES ASSUME FileInv, NEW f \in Files, ~bypassed[f],
                       NEW r \in ReadVector(Machine(f)), r.ok
                PROVE  r.data = Content(r)
    BY DEF ReadReturnsWhole
  <2>1. /\ Sound(Machine(f), Apart(f)) /\ Machine(f).data = <<>>
        /\ IsValid(Machine(f)) => Matching(Machine(f))
    BY MachineSound
  <2>2. ReadOutcome(Machine(f), r, Apart(f))
    BY <2>1, ReadSound
  <2>3. CASE IsValid(Machine(f))
    BY <2>1, <2>2, <2>3 DEF ReadOutcome
  <2>4. CASE ~IsValid(Machine(f))
    <3>1. r = Refused(Machine(f))
      BY <2>4 DEF ReadVector, Unusable, Refused
    <3>2. ~r.ok
      BY <2>1, <3>1, RefusedSound
    <3>. QED
      BY <3>2
  <2>. QED
    BY <2>3, <2>4
<1>. QED
  BY <1>1, FileInvariance, PTL

\* A resize that succeeds keeps the position, or brings it to the new end, and
\* keeps every byte that still fits.
THEOREM ResizeKeepsPositionCorrect == Spec => []ResizeKeepsPosition
<1>1. FileInv => ResizeKeepsPosition
  <2>. SUFFICES ASSUME FileInv, NEW f \in Files, NEW n \in Sizes,
                       NEW r \in Resize(Machine(f), n), r.ok
                PROVE  /\ Own(r).position = Min({Own(Machine(f)).position, n})
                       /\ Len(Content(r)) = n
                       /\ \A i \in 1 .. Min({n, Len(Content(Machine(f)))}) :
                            Content(r)[i] = Content(Machine(f))[i]
    BY DEF ResizeKeepsPosition
  <2> DEFINE m == Machine(f)
  <2>1. Sound(m, Apart(f)) /\ n \in Nat /\ r \in Resize(m, n)
    BY MachineSound, InputTypes
  <2>. HIDE DEF m
  <2>2. Resized(m, r, n)
    BY <2>1, ResizeSound
  <2>. QED
    BY <2>2 DEF m, Resized
<1>. QED
  BY <1>1, FileInvariance, PTL

\* Where a transport reports the status its File left, that is an error, set by
\* the call that failed.
THEOREM ErrorsNameTheirStatusCorrect == Spec => []ErrorsNameTheirStatus
<1>1. ASSUME FileInv, NEW f \in Files
      PROVE  /\ \A r \in CloseTransport(Machine(f)) : NamesItsStatus(r)
             /\ \A t \in Texts, mode \in Modes :
                  \A r \in OpenTransport(Machine(f), t, mode) : NamesItsStatus(r)
             /\ \A n \in Sizes : \A r \in Resize(Machine(f), n) : NamesItsStatus(r)
  <2> DEFINE m == Machine(f)
  <2>1. Sound(m, Apart(f)) /\ Others(Apart(f))
    BY <1>1, MachineSound, OthersApart
  <2>. HIDE DEF m
  <2>2. ASSUME NEW r \in CloseTransport(m)
        PROVE  NamesItsStatus(r)
    BY <2>1, <2>2, CloseTransportSound DEF NamesItsStatus
  <2>3. ASSUME NEW t \in Texts, NEW mode \in Modes, NEW r \in OpenTransport(m, t, mode)
        PROVE  NamesItsStatus(r)
    BY <2>1, <2>3, OpenTransportSound DEF NamesItsStatus
  <2>4. ASSUME NEW n \in Sizes, NEW r \in Resize(m, n)
        PROVE  NamesItsStatus(r)
    <3>1. n \in Nat
      BY InputTypes
    <3>. QED
      BY <2>1, <2>4, <3>1, ResizeSound DEF NamesItsStatus
  <2>. QED
    BY <2>2, <2>3, <2>4 DEF m
<1>2. FileInv => ErrorsNameTheirStatus
  BY <1>1 DEF ErrorsNameTheirStatus, Sources, Sinks
<1>. QED
  BY <1>2, FileInvariance, PTL
=============================================================================
