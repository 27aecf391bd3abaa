----------------------------- MODULE X64Proofs -----------------------------
(***************************************************************************)
(* Proofs about the assembler and the unwinder.                            *)
(*                                                                         *)
(* Assemble, for every program, every set of alignments and lengths, every *)
(* reach and any number of passes: one invariant says what the pass that   *)
(* changed nothing has left, lengths that are the encoder's answers for    *)
(* the very layout they make; another what every pass leaves of a program  *)
(* that contracts, one without padding and without a branch that gets      *)
(* longer when the code before it shrinks: lengths that the encoder can    *)
(* only shorten, and one short branch more than the pass before had.       *)
(*                                                                         *)
(* VirtualUnwind, for every image a compiler makes, any stack and any      *)
(* depth of calls: ThreadInv says of every active call, wherever it        *)
(* stands in its function, what its prologue has left in the stack and in  *)
(* the registers; the codes of an entry, taken back one after the other,   *)
(* keep what the unwinder has to know of that until nothing is left but    *)
(* the return address.                                                     *)
(***************************************************************************)
EXTENDS Assembler, Unwinder, FiniteSetTheorems, SequenceTheorems, WellFoundedInduction,
        TLAPS

\* The lengths are their own encoding, and no instruction is at fault.
FixedPoint ==
  phase = "Emission" =>
    /\ sizes = Encoded(Behind(sizes))
    /\ FaultsAt(Behind(sizes)) = {}
-----------------------------------------------------------------------------
\* What the encoder answers depends on the items and their places alone.
LEMMA SameEncoding ==
  ASSUME UNCHANGED Items
  PROVE  \A behind, i : /\ EncodedSize(behind, i)' = EncodedSize(behind, i)
                        /\ FaultOf(behind, i)' = FaultOf(behind, i)
<1>1. \A l : LabelPlaces(l)' = LabelPlaces(l)
  BY DEF LabelPlaces, Places
<1>2. \A behind, i : Target(behind, i)' = Target(behind, i)
  BY <1>1 DEF Target
<1>3. \A behind, i, size, reach : Fits(behind, i, size, reach)' = Fits(behind, i, size, reach)
  BY <1>2 DEF Fits
<1>4. \A behind, i : /\ MayBeShort(behind, i)' = MayBeShort(behind, i)
                     /\ MayBeNear(behind, i)' = MayBeNear(behind, i)
  BY <1>3 DEF MayBeShort, MayBeNear
<1>. QED
  BY <1>1, <1>4 DEF EncodedSize, FaultOf

\* The layout and the encoding depend on the program and the lengths alone.
LEMMA SameLayout ==
  ASSUME UNCHANGED program, UNCHANGED sizes
  PROVE  /\ Encoded(Behind(sizes))' = Encoded(Behind(sizes))
         /\ FaultsAt(Behind(sizes))' = FaultsAt(Behind(sizes))
<1>1. Items' = Items
  BY DEF Items, program
<1>2. Behind(sizes)' = Behind(sizes)
  BY <1>1 DEF Behind, AlignUp
<1>3. \A behind, i : /\ EncodedSize(behind, i)' = EncodedSize(behind, i)
                     /\ FaultOf(behind, i)' = FaultOf(behind, i)
  BY <1>1, SameEncoding
<1>. QED
  BY <1>1, <1>2, <1>3 DEF Encoded, FaultsAt

THEOREM FixedPointHolds == Spec => []FixedPoint
<1>1. Init => FixedPoint
  BY DEF Init, FixedPoint
<1>2. FixedPoint /\ [Next]_vars => FixedPoint'
  <2> SUFFICES ASSUME FixedPoint, [Next]_vars, phase' = "Emission"
               PROVE  FixedPoint'
    BY DEF FixedPoint
  <2>1. CASE Build
    BY <2>1 DEF Build
  <2>2. CASE Assemble
    BY <2>2 DEF Assemble, Return
  <2>3. CASE Pass
    <3>1. /\ FaultsAt(Behind(sizes)) = {}
          /\ sizes' = Encoded(Behind(sizes))
          /\ Settled(sizes, Encoded(Behind(sizes)))
          /\ UNCHANGED program
      BY <2>3 DEF Pass, Return
    <3>2. UNCHANGED sizes
      BY <3>1 DEF Settled
    <3>. QED
      BY <3>1, <3>2, SameLayout DEF FixedPoint
  <2>4. CASE Emit
    BY <2>4 DEF Emit, Return
  <2>5. CASE RunOutOfMemory
    BY <2>5 DEF RunOutOfMemory, Return
  <2>6. CASE UNCHANGED vars
    BY <2>6, SameLayout DEF vars, assembly, FixedPoint
  <2>. QED
    BY <2>1, <2>2, <2>3, <2>4, <2>5, <2>6 DEF Next
<1>. QED
  BY <1>1, <1>2, PTL DEF Spec
-----------------------------------------------------------------------------
\* In a fixed point every branch has the shortest length that its target and
\* its width allow.
LEMMA FixedPointIsShortest == FixedPoint => ConvergedIsStable
<1> SUFFICES ASSUME FixedPoint, phase = "Emission", NEW i \in Places("Branch")
             PROVE  LET behind == Behind(sizes)
                    IN IF sizes[i] = ShortSize THEN MayBeShort(behind, i)
                       ELSE ~ MayBeShort(behind, i) /\ MayBeNear(behind, i)
  BY DEF ConvergedIsStable
<1> DEFINE behind == Behind(sizes)
<1>1. i \in DOMAIN Items /\ Items[i].kind = "Branch"
  BY DEF Places
<1>2. FaultOf(behind, i) = "None"
  BY <1>1 DEF FixedPoint, FaultsAt
<1>3. sizes[i] = EncodedSize(behind, i)
  BY <1>1 DEF FixedPoint, Encoded
<1>4. NearSize(Items[i].mnemonic) # ShortSize
  BY DEF NearSize, ShortSize
<1> HIDE DEF behind
<1>5. MayBeShort(behind, i) \/ MayBeNear(behind, i)
  BY <1>1, <1>2 DEF FaultOf
<1>6. IF MayBeShort(behind, i)
      THEN sizes[i] = ShortSize ELSE sizes[i] = NearSize(Items[i].mnemonic)
  BY <1>1, <1>3 DEF EncodedSize
<1>. QED
  BY <1>4, <1>5, <1>6 DEF behind

\* When the passes end because no length changed, every branch reaches its
\* target with the length it was given, and no shorter one would do.
THEOREM ConvergedCorrect == Spec => []ConvergedIsStable
  BY FixedPointHolds, FixedPointIsShortest, PTL

\* The second encoding of the instructions, into the places the layout has
\* given them, never fails: Assemble does not return EncodingFailure once its
\* passes have ended.
EmissionSucceeds ==
  [][phase = "Emission" => result'.status # "EncodingFailure"]_vars

THEOREM EmissionCorrect == Spec => EmissionSucceeds
<1>1. FixedPoint /\ [Next]_vars
        => [phase = "Emission" => result'.status # "EncodingFailure"]_vars
  <2> SUFFICES ASSUME FixedPoint, Next, phase = "Emission"
               PROVE  result'.status # "EncodingFailure"
    OBVIOUS
  <2>1. CASE Build
    BY <2>1 DEF Build
  <2>2. CASE Assemble
    BY <2>2 DEF Assemble
  <2>3. CASE Pass
    BY <2>3 DEF Pass
  <2>4. CASE Emit
    BY <2>4 DEF Emit, Return, FixedPoint
  <2>5. CASE RunOutOfMemory
    BY <2>5 DEF RunOutOfMemory, Return, Answer
  <2>. QED
    BY <2>1, <2>2, <2>3, <2>4, <2>5 DEF Next
<1>. QED
  BY <1>1, FixedPointHolds, PTL DEF Spec, EmissionSucceeds
-----------------------------------------------------------------------------
(* Numbers and recursion.                                                  *)

LEMMA LeastNatural ==
  ASSUME NEW T \in SUBSET Nat, T # {}
  PROVE  \E m \in T : \A n \in T : m <= n
<1>1. PICK m \in T : \A n \in T : <<n, m>> \notin OpToRel(<, Nat)
  BY NatLessThanWellFounded, WFMin
<1>2. \A n \in T : n \in Nat /\ m \in Nat /\ ~(n < m)
  BY <1>1 DEF OpToRel
<1>3. \A n \in T : m <= n
  BY <1>2
<1>. QED
  BY <1>3

\* Every step from one value to the next has a function that takes n of them.
IsRun(g, F, b, n, S) ==
  g \in [0..n -> S] /\ g[0] = b /\ \A i \in 1..n : g[i] = F[i][g[i - 1]]

LEMMA Recursion ==
  ASSUME NEW S, NEW b \in S, NEW n \in Nat, NEW F \in [1..n -> [S -> S]]
  PROVE  \E g : IsRun(g, F, b, n, S)
<1>. SUFFICES \E g \in [0..n -> S] : g[0] = b /\ \A i \in 1..n : g[i] = F[i][g[i - 1]]
  BY DEF IsRun
<1> DEFINE Good(k, g) ==
      g \in [0..k -> S] /\ g[0] = b /\ \A i \in 1..k : g[i] = F[i][g[i - 1]]
<1> DEFINE T == {k \in 0..n : ~ \E g : Good(k, g)}
<1>1. SUFFICES ASSUME T # {} PROVE FALSE
  <2>1. n \in 0..n
    OBVIOUS
  <2>. QED
    BY <2>1
<1>2. PICK k \in T : \A i \in T : k <= i
  <2>1. T \in SUBSET Nat
    OBVIOUS
  <2>. HIDE DEF T
  <2>. QED
    BY <1>1, <2>1, LeastNatural
<1>3. k # 0
  <2> DEFINE g == [i \in 0..0 |-> b]
  <2>1. Good(0, g)
    OBVIOUS
  <2>2. 0 \in 0..n
    OBVIOUS
  <2>. HIDE DEF g, Good
  <2>3. 0 \notin T
    BY <2>1
  <2>. QED
    BY <1>2, <2>3
<1>4. k \in 1..n /\ k - 1 \in 0..n /\ k - 1 \notin T
  BY <1>2, <1>3
<1>5. PICK f : Good(k - 1, f)
  BY <1>4
<1> DEFINE g == [i \in 0..k |-> IF i = k THEN F[k][f[k - 1]] ELSE f[i]]
<1>6. f[k - 1] \in S /\ F[k] \in [S -> S]
  BY <1>4, <1>5
<1>7. g \in [0..k -> S] /\ g[0] = b
  BY <1>4, <1>5, <1>6
<1>8. ASSUME NEW i \in 1..k
      PROVE  g[i] = F[i][g[i - 1]]
  <2>1. i - 1 \in 0..k /\ i - 1 # k /\ g[i - 1] = f[i - 1]
    BY <1>4
  <2>2. CASE i = k
    BY <2>1, <2>2
  <2>3. CASE i # k
    <3>1. i \in 1..(k - 1)
      BY <1>4, <2>3
    <3>. QED
      BY <1>5, <2>1, <2>3, <3>1
  <2>. QED
    BY <2>2, <2>3
<1>9. Good(k, g)
  BY <1>7, <1>8
<1>. QED
  BY <1>2, <1>9

LEMMA NatSetInduction ==
  ASSUME NEW T, 0 \in T, \A n \in Nat : n \in T => n + 1 \in T
  PROVE  Nat \subseteq T
<1> DEFINE U == Nat \ T
<1>1. SUFFICES ASSUME U # {} PROVE FALSE
  OBVIOUS
<1>2. PICK m \in U : \A n \in U : m <= n
  <2>1. U \in SUBSET Nat
    OBVIOUS
  <2>. HIDE DEF U
  <2>. QED
    BY <1>1, <2>1, LeastNatural
<1>3. m \in Nat /\ m # 0
  BY <1>2
<1>4. m - 1 \in Nat /\ (m - 1) + 1 = m /\ ~(m <= m - 1)
  BY <1>3
<1>5. m - 1 \in T
  BY <1>2, <1>4
<1>. QED
  BY <1>2, <1>4, <1>5

\* The value at a number is made of the one at a lesser number.
IsTree(g, F, P, b, n, S) ==
  g \in [0..n -> S] /\ g[0] = b /\ \A i \in 1..n : g[i] = F[i][g[P[i]]]

LEMMA TreeRecursion ==
  ASSUME NEW S, NEW b \in S, NEW n \in Nat, NEW F \in [1..n -> [S -> S]],
         NEW P \in [1..n -> Nat], \A i \in 1..n : P[i] < i
  PROVE  \E g : IsTree(g, F, P, b, n, S)
<1>. SUFFICES \E g \in [0..n -> S] : g[0] = b /\ \A i \in 1..n : g[i] = F[i][g[P[i]]]
  BY DEF IsTree
<1> DEFINE Good(k, g) ==
      g \in [0..k -> S] /\ g[0] = b /\ \A i \in 1..k : g[i] = F[i][g[P[i]]]
<1> DEFINE T == {k \in 0..n : ~ \E g : Good(k, g)}
<1>1. SUFFICES ASSUME T # {} PROVE FALSE
  <2>1. n \in 0..n
    OBVIOUS
  <2>. QED
    BY <2>1
<1>2. PICK k \in T : \A i \in T : k <= i
  <2>1. T \in SUBSET Nat
    OBVIOUS
  <2>. HIDE DEF T
  <2>. QED
    BY <1>1, <2>1, LeastNatural
<1>3. k # 0
  <2> DEFINE g == [i \in 0..0 |-> b]
  <2>1. Good(0, g)
    OBVIOUS
  <2>2. 0 \in 0..n
    OBVIOUS
  <2>. HIDE DEF g, Good
  <2>3. 0 \notin T
    BY <2>1
  <2>. QED
    BY <1>2, <2>3
<1>4. k \in 1..n /\ k - 1 \in 0..n /\ k - 1 \notin T
  <2>. HIDE DEF Good
  <2>1. k \in 0..n
    BY <1>2
  <2>2. k \in Nat /\ k - 1 \in 0..n /\ ~(k <= k - 1) /\ k \in 1..n
    BY <1>3, <2>1
  <2>. HIDE DEF T
  <2>. QED
    BY <1>2, <2>2
<1>5. PICK f : Good(k - 1, f)
  BY <1>4
<1>6. \A i \in 1..k : P[i] \in 0..(k - 1) /\ P[i] # k /\ (i # k => i \in 1..(k - 1))
  BY <1>4
<1> DEFINE g == [i \in 0..k |-> IF i = k THEN F[k][f[P[k]]] ELSE f[i]]
<1>7. f[P[k]] \in S /\ F[k] \in [S -> S]
  BY <1>4, <1>5, <1>6
<1>8. g \in [0..k -> S] /\ g[0] = b
  BY <1>4, <1>5, <1>7
<1>9. ASSUME NEW i \in 1..k
      PROVE  g[i] = F[i][g[P[i]]]
  <2>1. g[P[i]] = f[P[i]]
    BY <1>6
  <2>2. CASE i = k
    BY <2>1, <2>2
  <2>3. CASE i # k
    BY <1>5, <1>6, <2>1, <2>3
  <2>. QED
    BY <2>2, <2>3
<1>10. Good(k, g)
  BY <1>8, <1>9
<1>. QED
  BY <1>2, <1>10

\* A function that takes one step after the other, from one set to the next.
IsPath(g, F, G, b, n) ==
  /\ g = [k \in 0 .. n |-> IF k = 0 THEN b ELSE F[k][g[k - 1]]]
  /\ \A k \in 0 .. n : g[k] \in G[k]

LEMMA StaysIn ==
  ASSUME NEW n \in Nat, NEW G, NEW r, r[0] \in G[0],
         \A k \in 1 .. n : r[k - 1] \in G[k - 1] => r[k] \in G[k]
  PROVE  \A k \in 0 .. n : r[k] \in G[k]
<1> DEFINE T == {k \in Nat : k <= n => r[k] \in G[k]}
<1>1. 0 \in T
  OBVIOUS
<1>2. ASSUME NEW k \in Nat, k \in T PROVE k + 1 \in T
  <2>1. SUFFICES ASSUME k + 1 <= n PROVE r[k + 1] \in G[k + 1]
    OBVIOUS
  <2>2. k + 1 \in 1 .. n /\ (k + 1) - 1 = k /\ k <= n
    BY <2>1
  <2>. QED
    BY <1>2, <2>2
<1>3. Nat \subseteq T
  <2>. HIDE DEF T
  <2>. QED
    BY <1>1, <1>2, NatSetInduction
<1>. QED
  BY <1>3

LEMMA Path ==
  ASSUME NEW n \in Nat, NEW G, NEW F, NEW b, b \in G[0],
         \A k \in 1 .. n : \A s \in G[k - 1] : F[k][s] \in G[k]
  PROVE  \E g : IsPath(g, F, G, b, n)
<1> DEFINE S == UNION {G[k] : k \in 0 .. n}
           E == [k \in 1 .. n |-> [s \in S |-> IF s \in G[k - 1] THEN F[k][s] ELSE s]]
<1>1. b \in S
  OBVIOUS
<1>2. ASSUME NEW k \in 1 .. n, NEW s \in S
      PROVE  (IF s \in G[k - 1] THEN F[k][s] ELSE s) \in S
  BY <1>2
<1>3. E \in [1 .. n -> [S -> S]]
  <2>. HIDE DEF S
  <2>. QED
    BY <1>2
<1>4. PICK g : IsRun(g, E, b, n, S)
  <2>. HIDE DEF E, S
  <2>. QED
    BY <1>1, <1>3, Recursion
<1>5. g \in [0 .. n -> S] /\ g[0] = b /\ \A k \in 1 .. n : g[k] = E[k][g[k - 1]]
  <2>. HIDE DEF E, S
  <2>. QED
    BY <1>4 DEF IsRun
<1>6. \A k \in 1 .. n : g[k - 1] \in G[k - 1] => g[k] = F[k][g[k - 1]]
  <2>1. ASSUME NEW k \in 1 .. n, g[k - 1] \in G[k - 1] PROVE g[k] = F[k][g[k - 1]]
    <3>1. k - 1 \in 0 .. n /\ g[k - 1] \in S
      <4>. HIDE DEF S, E
      <4>. QED
        BY <1>5
    <3>2. g[k] = E[k][g[k - 1]]
      BY <1>5
    <3>. HIDE DEF S
    <3>. QED
      BY <2>1, <3>1, <3>2
  <2>. QED
    BY <2>1
<1>. HIDE DEF E, S
<1>7. \A k \in 0 .. n : g[k] \in G[k]
  <2>1. \A k \in 1 .. n : g[k - 1] \in G[k - 1] => g[k] \in G[k]
    BY <1>6
  <2>2. g[0] \in G[0]
    BY <1>5
  <2>. QED
    BY <2>1, <2>2, StaysIn
<1>8. \A k \in 1 .. n : g[k] = F[k][g[k - 1]]
  <2>1. \A k \in 1 .. n : k - 1 \in 0 .. n
    OBVIOUS
  <2>. QED
    BY <1>6, <1>7, <2>1
<1>9. g = [k \in 0 .. n |-> IF k = 0 THEN b ELSE F[k][g[k - 1]]]
  <2>1. \A k \in 0 .. n : k # 0 => k \in 1 .. n
    OBVIOUS
  <2>. QED
    BY <1>5, <1>8, <2>1
<1>. QED
  BY <1>7, <1>9 DEF IsPath

-----------------------------------------------------------------------------
(* The program and its items.                                              *)

Nodes ==
  [kind : {"Label"}, label : Nat]
  \cup [kind : {"Branch"}, mnemonic : {"Jmp", "Jcc"},
        width : {"Automatic", "Width8", "Width32"}, label : Nat, address : Nat]
  \cup [kind : {"Plain"}, size : 1..MaximumLength]
  \cup [kind : {"Data"}, size : Nat]
  \cup [kind : {"Align"}, alignment : Nat \ {0}]

Marks == [kind : {"Section"}, alignment : Nat \ {0}]

SectionSet == [alignment : Nat \ {0}, nodes : Seq(Nodes)]

ProgramOK ==
  /\ sections \in Seq(SectionSet)
  /\ current \in 0..Len(sections)
  /\ labels \in Seq(BOOLEAN)

LEMMA ConstantFacts ==
  /\ Alignments \subseteq Nat \ {0} /\ DataSizes \subseteq Nat \ {0}
  /\ Addresses \subseteq Nat /\ BaseAddress \in Nat
  /\ Reach \in Nat /\ MaximumLength \in Nat /\ 6 <= MaximumLength
  /\ MaximumPasses \in Nat \ {0}
  /\ Mnemonics \subseteq {"Jmp", "Jcc"}
  /\ Widths \subseteq {"Automatic", "Width8", "Width32"}
BY AssemblerAssumption DEF NearSize

LEMMA AppendedNode ==
  ASSUME ProgramOK, NEW node \in Nodes, AppendNode(node)
  PROVE  /\ sections' \in Seq(SectionSet)
         /\ Len(sections') = Len(sections)
<1>0. sections \in Seq(SectionSet) /\ Len(sections) \in Nat /\ DOMAIN sections = 1..Len(sections)
  BY DEF ProgramOK
<1>1. current \in 1..Len(sections) /\ sections' = [sections EXCEPT ![current].nodes = Append(@, node)]
  <2>1. current \in 0..Len(sections)
    BY DEF ProgramOK
  <2>2. current # 0 /\ sections' = [sections EXCEPT ![current].nodes = Append(@, node)]
    BY DEF AppendNode
  <2>. QED
    BY <1>0, <2>1, <2>2
<1>2. sections[current] \in SectionSet
  BY <1>0, <1>1
<1>3. Append(sections[current].nodes, node) \in Seq(Nodes)
  BY <1>2 DEF SectionSet
<1> DEFINE s == [sections[current] EXCEPT !.nodes = Append(@, node)]
<1>4. s \in SectionSet
  BY <1>2, <1>3 DEF SectionSet
<1>5. sections' = [sections EXCEPT ![current] = s]
  BY <1>1
<1>. HIDE DEF s
<1>6. /\ [sections EXCEPT ![current] = s] \in Seq(SectionSet)
      /\ Len([sections EXCEPT ![current] = s]) = Len(sections)
  <2>1. sections \in Seq(SectionSet) /\ current \in 1..Len(sections)
    BY <1>0, <1>1
  <2>. QED
    BY <1>4, <2>1, ExceptSeq
<1>. QED
  BY <1>5, <1>6

LEMMA NodesAppended ==
  ASSUME ProgramOK
  PROVE  /\ \A l \in DOMAIN labels : LabelNode(l) \in Nodes
         /\ BranchNodes \cup PlainNodes \cup AlignNodes \subseteq Nodes
<1>1. DOMAIN labels \subseteq Nat
  BY DEF ProgramOK
<1>2. \A l \in DOMAIN labels : LabelNode(l) \in Nodes
  BY <1>1 DEF LabelNode, Nodes
<1>3. BranchNodes \subseteq Nodes
  <2> DEFINE Branches(targets, places) ==
               [kind : {"Branch"}, mnemonic : Mnemonics, width : Widths,
                label : targets, address : places]
  <2>1. ASSUME NEW targets \in SUBSET Nat, NEW places \in SUBSET Nat
        PROVE  Branches(targets, places) \subseteq Nodes
    BY ConstantFacts DEF Nodes
  <2>2. BranchNodes = Branches(DOMAIN labels, {0}) \cup Branches({Anywhere}, Addresses)
    BY DEF BranchNodes
  <2>3. {0} \in SUBSET Nat /\ {Anywhere} \in SUBSET Nat /\ Addresses \in SUBSET Nat
    BY ConstantFacts DEF Anywhere
  <2>. HIDE DEF Branches
  <2>. QED
    BY <1>1, <2>1, <2>2, <2>3
<1>4. PlainNodes \subseteq Nodes
  <2>1. DataSizes \subseteq Nat /\ {n \in DataSizes : n <= MaximumLength} \subseteq 1..MaximumLength
    <3>1. DataSizes \subseteq Nat \ {0}
      BY ConstantFacts
    <3>2. ASSUME NEW n \in DataSizes, n <= MaximumLength PROVE n \in 1..MaximumLength
      BY <3>1, <3>2, ConstantFacts
    <3>. QED
      BY <3>1, <3>2
  <2>. QED
    BY <2>1 DEF PlainNodes, Nodes
<1>5. AlignNodes \subseteq Nodes
  BY ConstantFacts DEF AlignNodes, Nodes
<1>. QED
  BY <1>2, <1>3, <1>4, <1>5

LEMMA ProgramStep == ProgramOK /\ [Next]_vars => ProgramOK'
<1> SUFFICES ASSUME ProgramOK, [Next]_vars PROVE ProgramOK'
  OBVIOUS
<1>1. ASSUME UNCHANGED program PROVE ProgramOK'
  BY <1>1 DEF program, ProgramOK
<1>2. CASE Build
  <2>1. CASE CreateSection
    <3>1. PICK a \in Alignments : sections' = Append(sections, [alignment |-> a, nodes |-> <<>>])
      BY <2>1 DEF CreateSection
    <3>2. [alignment |-> a, nodes |-> <<>>] \in SectionSet
      BY ConstantFacts DEF SectionSet
    <3>. QED
      BY <2>1, <3>1, <3>2 DEF CreateSection, ProgramOK
  <2>2. CASE SwitchSection
    BY <2>2 DEF SwitchSection, ProgramOK
  <2>3. CASE CreateLabel
    BY <2>3 DEF CreateLabel, ProgramOK
  <2>4. CASE Bind
    <3>1. PICK l \in DOMAIN labels : AppendNode(LabelNode(l)) /\ labels' = [labels EXCEPT ![l] = TRUE]
      BY <2>4 DEF Bind
    <3>2. labels' \in Seq(BOOLEAN)
      BY <3>1 DEF ProgramOK
    <3>. QED
      BY <2>4, <3>1, <3>2, AppendedNode, NodesAppended DEF Bind, ProgramOK
  <2>5. CASE AppendOther
    <3>1. PICK node \in BranchNodes \cup PlainNodes \cup AlignNodes : AppendNode(node)
      BY <2>5 DEF AppendOther
    <3>2. node \in Nodes
      BY NodesAppended
    <3>. QED
      BY <2>5, <3>1, <3>2, AppendedNode DEF AppendOther, ProgramOK
  <2>. QED
    BY <1>2, <2>1, <2>2, <2>3, <2>4, <2>5 DEF Build
<1>. QED
  BY <1>1, <1>2 DEF Next, Assemble, Pass, Emit, RunOutOfMemory, vars

LEMMA ItemsAre ==
  ASSUME ProgramOK
  PROVE  Items \in Seq(Nodes \cup Marks)
<1> DEFINE S == Seq(Nodes \cup Marks)
           parts == [s \in DOMAIN sections |->
                       <<[kind |-> "Section", alignment |-> sections[s].alignment]>>
                         \o sections[s].nodes]
           n == Len(sections)
<1>1. n \in Nat /\ DOMAIN sections = 1..n
  BY DEF ProgramOK
<1>2. ASSUME NEW s \in 1..n
      PROVE  parts[s] \in S
  <2>0. sections[s] \in SectionSet
    BY <1>1 DEF ProgramOK
  <2>1. sections[s].alignment \in Nat \ {0} /\ sections[s].nodes \in Seq(Nodes)
    BY <2>0 DEF SectionSet
  <2>2. <<[kind |-> "Section", alignment |-> sections[s].alignment]>> \in S
    BY <2>1 DEF Marks
  <2>3. sections[s].nodes \in S
    BY <2>1
  <2>4. parts[s] = <<[kind |-> "Section", alignment |-> sections[s].alignment]>>
                     \o sections[s].nodes
    BY <1>1
  <2>5. \A x, y : x \in S /\ y \in S => x \o y \in S
    OBVIOUS
  <2>. HIDE DEF S, parts
  <2>. QED
    BY <2>2, <2>3, <2>4, <2>5
<1>3. Items = FlattenSeq(parts)
  BY DEF Items
<1>4. parts = [s \in 1..n |-> parts[s]] /\ parts \in Seq(S) /\ Len(parts) = n
  BY <1>1, <1>2
<1>. HIDE DEF parts, n
<1>5. CASE n = 0
  <2>1. FlattenSeq(parts) = parts
    BY <1>4, <1>5 DEF FlattenSeq
  <2>2. parts = <<>>
    BY <1>4, <1>5
  <2>. QED
    BY <1>3, <2>1, <2>2
<1>6. CASE n # 0
  <2> DEFINE Flattens(h) == h = [i \in 1..n |-> IF i = 1 THEN parts[i] ELSE h[i - 1] \o parts[i]]
  <2>1. FlattenSeq(parts) = (CHOOSE h : Flattens(h))[n]
    BY <1>4, <1>6 DEF FlattenSeq
  <2>2. \E h : Flattens(h) /\ h[n] \in S
    <3> DEFINE F == [i \in 1..n |-> [x \in S |-> x \o parts[i]]]
    <3>1. F \in [1..n -> [S -> S]] /\ <<>> \in S
      BY <1>2
    <3>. HIDE DEF F, S
    <3>0. PICK g : IsRun(g, F, <<>>, n, S)
      BY <1>1, <3>1, Recursion
    <3>2. g \in [0..n -> S] /\ g[0] = <<>> /\ \A i \in 1..n : g[i] = F[i][g[i - 1]]
      BY <3>0 DEF IsRun
    <3> DEFINE h == [i \in 1..n |-> g[i]]
    <3>3. ASSUME NEW i \in 1..n
          PROVE  h[i] = IF i = 1 THEN parts[i] ELSE h[i - 1] \o parts[i]
      <4>0. i - 1 \in 0..n
        BY <1>1
      <4>1. g[i - 1] \in S /\ i - 1 \in 0..n
        BY <3>2, <4>0
      <4>2. g[i] = g[i - 1] \o parts[i]
        BY <3>2, <4>1 DEF F
      <4>3. CASE i = 1
        <5>0. i - 1 = 0
          BY <4>3
        <5>1. g[i] = <<>> \o parts[i]
          BY <3>2, <4>2, <5>0
        <5>2. <<>> \o parts[i] = parts[i]
          BY <1>2 DEF S
        <5>. QED
          BY <4>3, <5>1, <5>2
      <4>4. CASE i # 1
        <5>1. i - 1 \in 1..n
          BY <1>1, <4>4
        <5>. QED
          BY <4>2, <4>4, <5>1
      <4>. QED
        BY <4>3, <4>4
    <3>4. n \in 1..n /\ n \in 0..n
      BY <1>1, <1>6
    <3>5. Flattens(h)
      BY <3>3
    <3>6. h[n] \in S
      BY <3>2, <3>4
    <3>. QED
      BY <3>5, <3>6
  <2>3. PICK h : Flattens(h) /\ h[n] \in S
    BY <2>2
  <2> DEFINE c == CHOOSE h1 : Flattens(h1)
  <2>4. Flattens(c)
    BY <2>3
  <2>5. c[n] \in S
    <3>1. \A k \in 1..n : c[k] \in S
      <4> DEFINE T == {k \in 1..n : c[k] \notin S}
      <4>. SUFFICES ASSUME T # {} PROVE FALSE
        OBVIOUS
      <4>. HIDE DEF c, S
      <4>1. PICK k \in T : \A i \in T : k <= i
        <5>1. T \in SUBSET Nat
          OBVIOUS
        <5>. HIDE DEF T
        <5>. QED
          BY <5>1, LeastNatural
      <4>2. k \in 1..n /\ c[k] = IF k = 1 THEN parts[k] ELSE c[k - 1] \o parts[k]
        BY <2>4
      <4>3. k # 1 => k - 1 \in 1..n /\ k - 1 \notin T
        BY <1>1, <4>1
      <4>4. k # 1 => c[k - 1] \in S
        BY <4>3
      <4>5. parts[k] \in S
        BY <1>2, <4>2
      <4>6. \A x, y : x \in S /\ y \in S => x \o y \in S
        BY DEF S
      <4>7. c[k] \in S
        BY <4>2, <4>4, <4>5, <4>6
      <4>. QED
        BY <4>1, <4>7
    <3>2. n \in 1..n
      BY <1>1, <1>6
    <3>. QED
      BY <3>1, <3>2
  <2>. QED
    BY <1>3, <2>1, <2>5
<1>. QED
  BY <1>5, <1>6

LEMMA ItemFacts ==
  ASSUME ProgramOK
  PROVE  /\ Len(Items) \in Nat /\ DOMAIN Items = 1..Len(Items)
         /\ \A i \in DOMAIN Items :
              /\ Items[i].kind \in {"Section", "Label", "Branch", "Plain", "Data", "Align"}
              /\ Items[i].kind = "Section" => Items[i].alignment \in Nat \ {0}
              /\ Items[i].kind = "Plain" => Items[i].size \in 1..MaximumLength
              /\ Items[i].kind = "Data" => Items[i].size \in Nat
              /\ Items[i].kind = "Branch" =>
                   /\ Items[i].address \in Nat
                   /\ Items[i].width \in {"Automatic", "Width8", "Width32"}
<1>1. Items \in Seq(Nodes \cup Marks)
  BY ItemsAre
<1>2. \A x \in Nodes \cup Marks :
        /\ x.kind \in {"Section", "Label", "Branch", "Plain", "Data", "Align"}
        /\ x.kind = "Section" => x.alignment \in Nat \ {0}
        /\ x.kind = "Plain" => x.size \in 1..MaximumLength
        /\ x.kind = "Data" => x.size \in Nat
        /\ x.kind = "Branch" =>
             x.address \in Nat /\ x.width \in {"Automatic", "Width8", "Width32"}
  BY DEF Nodes, Marks
<1>3. Len(Items) \in Nat /\ DOMAIN Items = 1..Len(Items)
      /\ \A i \in 1..Len(Items) : Items[i] \in Nodes \cup Marks
  BY <1>1
<1>. QED
  BY <1>2, <1>3

\* The items that take no place of their own.
Weightless == {"Section", "Align", "Label"}

\* The lengths of the nodes while Assemble runs.
Sizing(z) ==
  /\ z \in [DOMAIN Items -> Nat]
  /\ \A i \in DOMAIN Items :
       /\ Items[i].kind \in Weightless => z[i] = 0
       /\ Items[i].kind = "Branch" => ShortSize <= z[i]

\* Where the item behind i begins, if i begins at x.
Moved(z, i, x) ==
  IF Items[i].kind \in {"Section", "Align"} THEN AlignUp(x, Items[i].alignment)
  ELSE x + z[i]

LEMMA AlignUpFacts ==
  /\ \A x \in Nat : AlignUp(x, 1) = x
  /\ \A a \in Nat \ {0} : AlignUp(0, a) = 0
<1>1. \A x \in Nat : AlignUp(x, 1) = x
  BY DEF AlignUp
<1>2. ASSUME NEW a \in Nat \ {0} PROVE AlignUp(0, a) = 0
  <2>1. (0 + a - 1) \div a = 0
    OBVIOUS
  <2>2. 0 * a = 0
    OBVIOUS
  <2>. QED
    BY <2>1, <2>2 DEF AlignUp
<1>. QED
  BY <1>1, <1>2

LEMMA MovedUnpadded ==
  ASSUME ProgramOK, Unpadded, NEW z, Sizing(z), NEW i \in DOMAIN Items,
         NEW x \in Nat, i = 1 => x = 0
  PROVE  Moved(z, i, x) = x + z[i]
<1>1. z[i] \in Nat /\ (Items[i].kind \in {"Section", "Align"} => z[i] = 0)
  BY DEF Sizing, Weightless
<1>2. CASE Items[i].kind = "Align"
  <2>1. Items[i].alignment = 1
    BY <1>2 DEF Unpadded, Places
  <2>. QED
    BY <1>1, <1>2, <2>1, AlignUpFacts DEF Moved
<1>3. CASE Items[i].kind = "Section" /\ i # 1
  <2>1. Items[i].alignment = 1
    BY <1>3 DEF Unpadded, Places
  <2>. QED
    BY <1>1, <1>3, <2>1, AlignUpFacts DEF Moved
<1>4. CASE Items[i].kind = "Section" /\ i = 1
  <2>1. Items[i].alignment \in Nat \ {0}
    BY <1>4, ItemFacts
  <2>. QED
    BY <1>1, <1>4, <2>1, AlignUpFacts DEF Moved
<1>5. CASE Items[i].kind \notin {"Section", "Align"}
  BY <1>5 DEF Moved
<1>. QED
  BY <1>2, <1>3, <1>4, <1>5

\* Without padding every item begins behind the lengths of those before it.
LEMMA BehindSums ==
  ASSUME ProgramOK, Unpadded, NEW z, Sizing(z)
  PROVE  /\ Behind(z) \in [0..Len(Items) -> Nat] /\ Behind(z)[0] = 0
         /\ \A i \in 1..Len(Items) : Behind(z)[i] = Behind(z)[i - 1] + z[i]
<1> DEFINE n == Len(Items)
           Rec(h) == h = [i \in 0..n |-> IF i = 0 THEN 0 ELSE Moved(z, i, h[i - 1])]
           F == [i \in 1..n |-> [x \in Nat |-> x + z[i]]]
<1>1. n \in Nat /\ DOMAIN Items = 1..n /\ \A i \in 1..n : z[i] \in Nat
  BY ItemFacts DEF Sizing
<1>2. Behind(z) = CHOOSE h : Rec(h)
  BY <1>1 DEF Behind, Moved
<1>3. F \in [1..n -> [Nat -> Nat]]
  BY <1>1
<1>. HIDE DEF F
<1>4. PICK g : IsRun(g, F, 0, n, Nat)
  BY <1>1, <1>3, Recursion
<1>5. g \in [0..n -> Nat] /\ g[0] = 0 /\ \A i \in 1..n : g[i] = F[i][g[i - 1]]
  BY <1>4 DEF IsRun
<1>6. ASSUME NEW i \in 1..n
      PROVE  /\ i - 1 \in 0..n /\ g[i - 1] \in Nat /\ g[i] = g[i - 1] + z[i]
             /\ Moved(z, i, g[i - 1]) = g[i]
  <2>1. i - 1 \in 0..n /\ (i = 1 => i - 1 = 0)
    BY <1>1
  <2>2. g[i - 1] \in Nat /\ (i = 1 => g[i - 1] = 0)
    BY <1>5, <2>1
  <2>3. g[i] = g[i - 1] + z[i]
    BY <1>5, <2>2 DEF F
  <2>4. i \in DOMAIN Items
    BY <1>1
  <2>5. Moved(z, i, g[i - 1]) = g[i - 1] + z[i]
    BY <2>2, <2>4, MovedUnpadded
  <2>. QED
    BY <2>1, <2>2, <2>3, <2>5
<1>7. Rec(g)
  BY <1>5, <1>6
<1> DEFINE c == CHOOSE h : Rec(h)
<1>8. Rec(c)
  BY <1>7
<1>. HIDE DEF c
<1>9. \A k \in 0..n : c[k] = g[k]
  <2> DEFINE T == {k \in 0..n : c[k] # g[k]}
  <2>. SUFFICES ASSUME T # {} PROVE FALSE
    OBVIOUS
  <2>1. PICK k \in T : \A i \in T : k <= i
    <3>1. T \in SUBSET Nat
      OBVIOUS
    <3>. HIDE DEF T
    <3>. QED
      BY <3>1, LeastNatural
  <2>2. k # 0
    <3>1. 0 \in 0..n
      BY <1>1
    <3>. QED
      BY <1>5, <1>8, <2>1, <3>1
  <2>3. k \in 1..n /\ k - 1 \in 0..n /\ k - 1 \notin T
    BY <1>1, <2>1, <2>2
  <2>4. c[k - 1] = g[k - 1]
    BY <2>3
  <2>5. c[k] = Moved(z, k, c[k - 1])
    BY <1>8, <2>2, <2>3
  <2>. QED
    BY <1>6, <2>1, <2>3, <2>4, <2>5
<1>10. c = g
  <2>1. c = [i \in 0..n |-> c[i]]
    BY <1>8
  <2>2. g = [i \in 0..n |-> g[i]]
    BY <1>5
  <2>. QED
    BY <1>9, <2>1, <2>2
<1>. QED
  BY <1>2, <1>5, <1>6, <1>10 DEF c

\* The distance of two places is no greater where no item is longer.
LEMMA Distances ==
  ASSUME ProgramOK, Unpadded, NEW a, NEW b, Sizing(a), Sizing(b),
         \A i \in DOMAIN Items : b[i] <= a[i]
  PROVE  \A j, k \in 0..Len(Items) : j <= k =>
           /\ 0 <= Behind(b)[k] - Behind(b)[j]
           /\ Behind(b)[k] - Behind(b)[j] <= Behind(a)[k] - Behind(a)[j]
<1> DEFINE n == Len(Items)
           A == Behind(a)
           B == Behind(b)
<1>1. n \in Nat /\ DOMAIN Items = 1..n
      /\ \A i \in 1..n : a[i] \in Nat /\ b[i] \in Nat /\ b[i] <= a[i]
  BY ItemFacts DEF Sizing
<1>2. A \in [0..n -> Nat] /\ \A i \in 1..n : A[i] = A[i - 1] + a[i]
  BY BehindSums
<1>3. B \in [0..n -> Nat] /\ \A i \in 1..n : B[i] = B[i - 1] + b[i]
  BY BehindSums
<1>. HIDE DEF n, A, B
<1>. SUFFICES ASSUME NEW j \in 0..n
              PROVE  \A k \in 0..n : j <= k => 0 <= B[k] - B[j] /\ B[k] - B[j] <= A[k] - A[j]
  BY DEF n, A, B
<1> DEFINE T == {k \in 0..n : j <= k /\ ~(0 <= B[k] - B[j] /\ B[k] - B[j] <= A[k] - A[j])}
<1>. SUFFICES ASSUME T # {} PROVE FALSE
  OBVIOUS
<1>4. PICK k \in T : \A i \in T : k <= i
  <2>1. T \in SUBSET Nat
    OBVIOUS
  <2>. HIDE DEF T
  <2>. QED
    BY <2>1, LeastNatural
<1>5. A[j] \in Nat /\ B[j] \in Nat /\ A[k] \in Nat /\ B[k] \in Nat
  BY <1>2, <1>3, <1>4
<1>6. k # j
  BY <1>4, <1>5
<1>7. k \in 1..n /\ k - 1 \in 0..n /\ k - 1 \notin T /\ j <= k - 1
  BY <1>1, <1>4, <1>6
<1>8. 0 <= B[k - 1] - B[j] /\ B[k - 1] - B[j] <= A[k - 1] - A[j]
  BY <1>7
<1>9. A[k - 1] \in Nat /\ B[k - 1] \in Nat /\ A[k] = A[k - 1] + a[k] /\ B[k] = B[k - 1] + b[k]
      /\ a[k] \in Nat /\ b[k] \in Nat /\ b[k] <= a[k]
  BY <1>1, <1>2, <1>3, <1>7
<1>10. 0 <= B[k] - B[j] /\ B[k] - B[j] <= A[k] - A[j]
  BY <1>5, <1>8, <1>9
<1>. QED
  BY <1>4, <1>10

\* Of finitely many places one is the last.
LEMMA LastPlace ==
  ASSUME ProgramOK, NEW P \in SUBSET (DOMAIN Items), P # {}
  PROVE  Max(P) \in P
<1>1. Len(Items) \in Nat /\ DOMAIN Items = 1..Len(Items)
  BY ItemFacts
<1> DEFINE T == {m \in Nat : \A y \in P : y <= m}
<1>2. T # {} /\ T \in SUBSET Nat
  BY <1>1
<1>. HIDE DEF T
<1>3. PICK m \in T : \A k \in T : m <= k
  BY <1>2, LeastNatural
<1>4. m \in Nat /\ \A y \in P : y <= m
  BY <1>3 DEF T
<1>5. m \in P
  <2>. SUFFICES ASSUME m \notin P PROVE FALSE
    OBVIOUS
  <2>1. \A y \in P : y \in Nat /\ y >= 1 /\ y <= m - 1
    BY <1>1, <1>4
  <2>2. m - 1 \in Nat
    BY <1>4, <2>1
  <2>3. m - 1 \in T
    BY <2>1, <2>2 DEF T
  <2>. QED
    BY <1>3, <1>4, <2>3
<1>6. \E x \in P : \A y \in P : x >= y
  BY <1>1, <1>4, <1>5
<1>. QED
  BY <1>6 DEF Max

\* A branch that reaches its label still does where no item is longer: ahead
\* of it the label comes nearer, but not nearer than the branch is long.
LEMMA LabelStays ==
  ASSUME ProgramOK, Unpadded, NEW a, NEW b, Sizing(a), Sizing(b),
         \A i \in DOMAIN Items : b[i] <= a[i],
         NEW i \in Places("Branch"), Items[i].label # Anywhere,
         LabelPlaces(Items[i].label) # {},
         Fits(Behind(a), i, ShortSize, Reach)
  PROVE  Fits(Behind(b), i, ShortSize, Reach)
<1> DEFINE n == Len(Items)
           m == Max(LabelPlaces(Items[i].label))
           A == Behind(a)
           B == Behind(b)
<1>1. n \in Nat /\ DOMAIN Items = 1..n /\ Reach \in Nat
  BY ItemFacts, ConstantFacts
<1>2. i \in 1..n /\ Items[i].kind = "Branch"
  BY <1>1 DEF Places
<1>3. m \in 1..n /\ Items[m].kind = "Label"
  <2>1. LabelPlaces(Items[i].label) \in SUBSET (DOMAIN Items)
    BY DEF LabelPlaces, Places
  <2>2. m \in LabelPlaces(Items[i].label)
    BY <2>1, LastPlace
  <2>. QED
    BY <1>1, <2>2 DEF LabelPlaces, Places
<1>4. m # i
  BY <1>2, <1>3
<1>5. /\ A \in [0..n -> Nat] /\ B \in [0..n -> Nat]
      /\ B[i] = B[i - 1] + b[i] /\ A[i] = A[i - 1] + a[i]
  BY <1>2, BehindSums
<1>6. b[i] \in Nat /\ a[i] \in Nat /\ 2 <= b[i] /\ b[i] <= a[i]
  BY <1>1, <1>2 DEF Sizing, ShortSize
<1>7. \A j, k \in 0..n : j <= k => 0 <= B[k] - B[j] /\ B[k] - B[j] <= A[k] - A[j]
  BY Distances
<1>8. A[m] - (A[i - 1] + 2) \in -Reach - 1 .. Reach
  BY DEF Fits, Target, ShortSize
<1>9. B[m] - (B[i - 1] + 2) \in -Reach - 1 .. Reach => Fits(B, i, ShortSize, Reach)
  BY DEF Fits, Target, ShortSize
<1>. HIDE DEF m, A, B, n
<1>10. /\ i - 1 \in 0..n /\ i \in 0..n /\ m \in 0..n
       /\ A[i - 1] \in Nat /\ B[i - 1] \in Nat /\ A[m] \in Nat /\ B[m] \in Nat
       /\ A[i] \in Nat /\ B[i] \in Nat
  <2>1. i - 1 \in 0..n /\ i \in 0..n /\ m \in 0..n
    BY <1>1, <1>2, <1>3
  <2>. QED
    BY <1>5, <2>1
<1> DEFINE dA == A[m] - (A[i - 1] + 2)
           dB == B[m] - (B[i - 1] + 2)
<1>13. dA \in Int /\ dB \in Int /\ dA \in -Reach - 1 .. Reach
  BY <1>8, <1>10
<1>11. ASSUME i < m PROVE dB \in -Reach - 1 .. Reach
  <2>1. /\ B[m] - B[i - 1] <= A[m] - A[i - 1]
        /\ 0 <= B[m] - B[i]
    BY <1>2, <1>3, <1>7, <1>10, <1>11
  <2>2. 0 <= dB
    <3>1. 2 <= B[i] - B[i - 1]
      <4> DEFINE x == B[i]
                 y == B[i - 1]
                 z == b[i]
      <4>1. x = y + z /\ 2 <= z /\ y \in Nat /\ z \in Nat
        BY <1>5, <1>6, <1>10
      <4>. SUFFICES 2 <= x - y
        OBVIOUS
      <4>. HIDE DEF x, y, z
      <4>. QED
        BY <4>1
    <3>2. 2 <= B[m] - B[i - 1]
      BY <1>10, <2>1, <3>1
    <3>. QED
      BY <1>10, <3>2
  <2>3. dB <= dA
    BY <1>10, <2>1
  <2>. HIDE DEF dA, dB
  <2>. QED
    BY <1>1, <1>13, <2>2, <2>3
<1>12. ASSUME m < i PROVE dB \in -Reach - 1 .. Reach
  <2>1. /\ B[i - 1] - B[m] <= A[i - 1] - A[m]
        /\ 0 <= B[i - 1] - B[m]
    BY <1>2, <1>3, <1>7, <1>10, <1>12
  <2>2. dA <= dB /\ dB <= 0
    BY <1>10, <2>1
  <2>. HIDE DEF dA, dB
  <2>. QED
    BY <1>1, <1>13, <2>2
<1>15. dB \in -Reach - 1 .. Reach
  <2>1. i < m \/ m < i
    BY <1>1, <1>2, <1>3, <1>4
  <2>. QED
    BY <1>11, <1>12, <2>1
<1>. QED
  BY <1>9, <1>15 DEF B

\* No item is longer than it is at first.
Begun(z) == \A i \in DOMAIN Items : z[i] <= FirstSizes[i]

\* A branch that reaches its address still does where no item is longer, unless
\* it stretches: the address gets no nearer than it is, and no farther than from
\* the front of the code.
LEMMA AddressStays ==
  ASSUME ProgramOK, Unpadded, NEW a, NEW b, Sizing(a), Sizing(b), Sizing(FirstSizes),
         \A i \in DOMAIN Items : b[i] <= a[i], Begun(a),
         NEW i \in Places("Branch"), Items[i].label = Anywhere,
         Items[i].width = "Automatic", ~ Stretches(i),
         Fits(Behind(a), i, ShortSize, Reach)
  PROVE  Fits(Behind(b), i, ShortSize, Reach)
<1> DEFINE n == Len(Items)
           t == Items[i].address - BaseAddress
           A == Behind(a)
           B == Behind(b)
           F == Behind(FirstSizes)
<1>1. n \in Nat /\ DOMAIN Items = 1..n /\ Reach \in Nat /\ BaseAddress \in Nat
  BY ItemFacts, ConstantFacts
<1>2. i \in 1..n /\ Items[i].kind = "Branch"
  BY <1>1 DEF Places
<1>3. t \in Int
  BY <1>1, <1>2, ItemFacts
<1>4. /\ A \in [0..n -> Nat] /\ B \in [0..n -> Nat] /\ F \in [0..n -> Nat]
      /\ A[0] = 0 /\ B[0] = 0 /\ F[0] = 0
  BY BehindSums
<1>5. \A j, k \in 0..n : j <= k => B[k] - B[j] <= A[k] - A[j]
  BY Distances
<1>6. \A j, k \in 0..n : j <= k => A[k] - A[j] <= F[k] - F[j]
  <2>1. \A k \in DOMAIN Items : a[k] <= FirstSizes[k]
    BY DEF Begun
  <2>. QED
    BY <2>1, Distances
<1>7. t - (A[i - 1] + 2) \in -Reach - 1 .. Reach
  BY DEF Fits, Target, ShortSize
<1>8. t - (B[i - 1] + 2) \in -Reach - 1 .. Reach => Fits(B, i, ShortSize, Reach)
  BY DEF Fits, Target, ShortSize
<1>9. t - 2 \notin Reach + 1 .. Reach + F[i - 1]
  BY DEF Stretches, ShortSize
<1>. HIDE DEF n, t, A, B, F
<1>10. 0 \in 0..n /\ i - 1 \in 0..n /\ 0 <= i - 1
  BY <1>1, <1>2
<1> DEFINE x == A[i - 1]
           y == B[i - 1]
           f == F[i - 1]
<1>11. x \in Nat /\ y \in Nat /\ f \in Nat
  BY <1>4, <1>10
<1>12. y <= x /\ x <= f
  <2>1. y - 0 <= x - 0 /\ x - 0 <= f - 0
    BY <1>4, <1>5, <1>6, <1>10
  <2>. QED
    BY <1>11, <2>1
<1>13. t - (y + 2) \in -Reach - 1 .. Reach
  <2>1. t - (x + 2) \in -Reach - 1 .. Reach /\ t - 2 \notin Reach + 1 .. Reach + f
    BY <1>7, <1>9
  <2>. HIDE DEF x, y, f
  <2>. QED
    BY <1>1, <1>3, <1>11, <1>12, <2>1
<1>. QED
  BY <1>8, <1>13 DEF B

\* A branch that is short in one layout, and still has a form in another with no
\* longer item, is short there too.
LEMMA StaysShort ==
  ASSUME ProgramOK, Contracting, NEW a, NEW b, Sizing(a), Sizing(b), Sizing(FirstSizes),
         \A i \in DOMAIN Items : b[i] <= a[i], Begun(a),
         NEW i \in Places("Branch"),
         FaultOf(Behind(b), i) = "None", MayBeShort(Behind(a), i)
  PROVE  MayBeShort(Behind(b), i)
<1>1. /\ Items[i].kind = "Branch" /\ i \in DOMAIN Items
      /\ Items[i].width \in {"Automatic", "Width8", "Width32"}
  BY ItemFacts DEF Places
<1>2. Items[i].width # "Width32" /\ Fits(Behind(a), i, ShortSize, Reach)
  BY DEF MayBeShort
<1>3. Unpadded /\ ~ Stretches(i)
  BY DEF Contracting
<1>4. CASE Items[i].label # Anywhere
  <2>1. LabelPlaces(Items[i].label) # {}
    BY <1>1, <1>4 DEF FaultOf
  <2>. QED
    BY <1>2, <1>3, <1>4, <2>1, LabelStays DEF MayBeShort
<1>5. CASE Items[i].label = Anywhere /\ Items[i].width = "Automatic"
  BY <1>2, <1>3, <1>5, AddressStays DEF MayBeShort
<1>6. CASE Items[i].width = "Width8"
  BY <1>1, <1>6 DEF FaultOf, MayBeNear
<1>. QED
  BY <1>1, <1>2, <1>4, <1>5, <1>6

-----------------------------------------------------------------------------
(* The passes.                                                             *)

\* The encoder has no longer instruction for the layout of z than z has.
Shrinks(z) ==
  \A i \in DOMAIN Items :
    FaultOf(Behind(z), i) = "None" => EncodedSize(Behind(z), i) <= z[i]

\* What a pass leaves: a branch has one of its lengths, the others their own.
AfterPass(z) ==
  \A i \in DOMAIN Items :
    z[i] \in IF Items[i].kind = "Branch" THEN {ShortSize, NearSize(Items[i].mnemonic)}
             ELSE IF Items[i].kind \in {"Plain", "Data"} THEN {Items[i].size} ELSE {0}

ShortBranches(z) == {i \in Places("Branch") : z[i] = ShortSize}

LayoutInv ==
  /\ phase \in {"Idle", "Passes", "Emission"}
  /\ passes \in Nat
  /\ phase = "Passes" =>
       /\ Sizing(sizes) /\ Begun(sizes)
       /\ Contracting => Shrinks(sizes)
       /\ passes > 0 => AfterPass(sizes)
       /\ passes > 0 /\ Contracting => passes <= Cardinality(ShortBranches(sizes)) + 1
  /\ ConvergesIfContracting

LEMMA EncodedLeaves ==
  ASSUME ProgramOK, NEW behind
  PROVE  Sizing(Encoded(behind)) /\ AfterPass(Encoded(behind))
<1>1. ASSUME NEW i \in DOMAIN Items
      PROVE  /\ EncodedSize(behind, i) \in Nat
             /\ Items[i].kind \in Weightless => EncodedSize(behind, i) = 0
             /\ Items[i].kind = "Branch" =>
                  /\ ShortSize <= EncodedSize(behind, i)
                  /\ EncodedSize(behind, i) \in {ShortSize, NearSize(Items[i].mnemonic)}
             /\ Items[i].kind \in {"Plain", "Data"} => EncodedSize(behind, i) = Items[i].size
  <2>1. NearSize(Items[i].mnemonic) \in Nat /\ ShortSize <= NearSize(Items[i].mnemonic)
        /\ ShortSize \in Nat
    BY DEF NearSize, ShortSize
  <2>2. CASE Items[i].kind = "Branch"
    <3>1. EncodedSize(behind, i) = IF MayBeShort(behind, i)
                                   THEN ShortSize ELSE NearSize(Items[i].mnemonic)
      BY <2>2 DEF EncodedSize
    <3>. QED
      BY <2>1, <2>2, <3>1 DEF Weightless, ShortSize
  <2>3. CASE Items[i].kind \in {"Plain", "Data"}
    <3>1. EncodedSize(behind, i) = Items[i].size
      BY <2>3 DEF EncodedSize
    <3>2. Items[i].size \in Nat
      BY <2>3, ItemFacts, ConstantFacts
    <3>. QED
      BY <2>3, <3>1, <3>2 DEF Weightless
  <2>4. CASE Items[i].kind \in Weightless
    <3>1. EncodedSize(behind, i) = 0
      BY <2>4 DEF EncodedSize, Weightless
    <3>. QED
      BY <2>4, <3>1 DEF Weightless
  <2>. QED
    BY <2>2, <2>3, <2>4, ItemFacts DEF Weightless
<1>2. DOMAIN Encoded(behind) = DOMAIN Items
      /\ Encoded(behind) = [i \in DOMAIN Items |-> EncodedSize(behind, i)]
      /\ \A i \in DOMAIN Items : Encoded(behind)[i] = EncodedSize(behind, i)
  BY DEF Encoded
<1>3. Sizing(Encoded(behind))
  BY <1>1, <1>2 DEF Sizing
<1>4. AfterPass(Encoded(behind))
  <2>. SUFFICES ASSUME NEW i \in DOMAIN Items
                PROVE  EncodedSize(behind, i) \in
                         IF Items[i].kind = "Branch" THEN {ShortSize, NearSize(Items[i].mnemonic)}
                         ELSE IF Items[i].kind \in {"Plain", "Data"} THEN {Items[i].size} ELSE {0}
    BY <1>2 DEF AfterPass
  <2>. QED
    BY <1>1, ItemFacts DEF Weightless
<1>. QED
  BY <1>3, <1>4

\* What Assemble gives the nodes first is as long as every node may become.
LEMMA FirstFits ==
  ASSUME ProgramOK
  PROVE  /\ Sizing(FirstSizes)
         /\ \A b : \A i \in DOMAIN Items : EncodedSize(b, i) <= FirstSizes[i]
<1> DEFINE z == FirstSizes
<1>1. z = [i \in DOMAIN Items |-> z[i]]
  BY DEF FirstSizes
<1>2. ASSUME NEW i \in DOMAIN Items
      PROVE  /\ Items[i].kind \in {"Branch", "Plain"} => z[i] = MaximumLength
             /\ Items[i].kind = "Data" => z[i] = Items[i].size
             /\ Items[i].kind \in Weightless => z[i] = 0
  BY DEF FirstSizes, FirstLength, Weightless
<1>. HIDE DEF z
<1>3. Sizing(z)
  <2>1. \A i \in DOMAIN Items :
          /\ z[i] \in Nat
          /\ Items[i].kind \in Weightless => z[i] = 0
          /\ Items[i].kind = "Branch" => ShortSize <= z[i]
    BY <1>2, ItemFacts, ConstantFacts DEF Weightless, ShortSize
  <2>. QED
    BY <1>1, <2>1 DEF Sizing
<1>4. ASSUME NEW b, NEW i \in DOMAIN Items
      PROVE  EncodedSize(b, i) <= z[i]
  <2>1. CASE Items[i].kind = "Branch"
    <3>1. EncodedSize(b, i) \in {ShortSize, NearSize(Items[i].mnemonic)}
      BY <2>1 DEF EncodedSize
    <3>. QED
      BY <1>2, <2>1, <3>1, ConstantFacts DEF ShortSize, NearSize
  <2>2. CASE Items[i].kind = "Plain"
    <3>1. EncodedSize(b, i) = Items[i].size
      BY <2>2 DEF EncodedSize
    <3>. QED
      BY <1>2, <2>2, <3>1, ItemFacts, ConstantFacts
  <2>3. CASE Items[i].kind = "Data"
    <3>1. EncodedSize(b, i) = Items[i].size
      BY <2>3 DEF EncodedSize
    <3>. QED
      BY <1>2, <2>3, <3>1, ItemFacts
  <2>4. CASE Items[i].kind \in Weightless
    <3>1. EncodedSize(b, i) = 0
      BY <2>4 DEF EncodedSize, Weightless
    <3>. QED
      BY <1>2, <2>4, <3>1
  <2>. QED
    BY <2>1, <2>2, <2>3, <2>4, ItemFacts DEF Weightless
<1>. QED
  BY <1>3, <1>4 DEF z

\* A pass shortens, and the next one can again only shorten.
LEMMA EncodedShrinks ==
  ASSUME ProgramOK, Contracting, NEW z, Sizing(z), Begun(z), Shrinks(z),
         FaultsAt(Behind(z)) = {}
  PROVE  /\ \A i \in DOMAIN Items : Encoded(Behind(z))[i] <= z[i]
         /\ Shrinks(Encoded(Behind(z)))
<1> DEFINE y == Encoded(Behind(z))
<1>1. \A i \in DOMAIN Items : y[i] = EncodedSize(Behind(z), i)
  BY DEF Encoded
<1>2. Sizing(y)
  BY EncodedLeaves
<1>. HIDE DEF y
<1>3. \A i \in DOMAIN Items : y[i] <= z[i]
  BY <1>1 DEF Shrinks, FaultsAt
<1>4. ASSUME NEW i \in DOMAIN Items, FaultOf(Behind(y), i) = "None"
      PROVE  EncodedSize(Behind(y), i) <= y[i]
  <2>0. NearSize(Items[i].mnemonic) \in Nat /\ ShortSize <= NearSize(Items[i].mnemonic)
        /\ ShortSize \in Nat
    BY DEF NearSize, ShortSize
  <2>1. CASE Items[i].kind = "Branch"
    <3>1. \A b : EncodedSize(b, i) = IF MayBeShort(b, i)
                                     THEN ShortSize ELSE NearSize(Items[i].mnemonic)
      BY <2>1 DEF EncodedSize
    <3>2. i \in Places("Branch")
      BY <2>1 DEF Places
    <3>3. MayBeShort(Behind(z), i) => MayBeShort(Behind(y), i)
      BY <1>2, <1>3, <1>4, <3>2, FirstFits, StaysShort
    <3>4. y[i] = EncodedSize(Behind(z), i)
      BY <1>1
    <3>. QED
      BY <2>0, <3>1, <3>3, <3>4 DEF ShortSize
  <2>2. CASE Items[i].kind # "Branch"
    <3>1. EncodedSize(Behind(y), i) = EncodedSize(Behind(z), i)
      BY <2>2 DEF EncodedSize
    <3>2. y[i] \in Nat
      BY <1>2 DEF Sizing
    <3>. QED
      BY <1>1, <3>1, <3>2
  <2>. QED
    BY <2>1, <2>2
<1>. QED
  BY <1>3, <1>4 DEF Shrinks, y

\* A pass that changes a length has made a branch short.
LEMMA ShortBranchesGrow ==
  ASSUME ProgramOK, NEW z, NEW y, Sizing(z), Sizing(y), AfterPass(z), AfterPass(y),
         \A i \in DOMAIN Items : y[i] <= z[i], y # z
  PROVE  Cardinality(ShortBranches(y)) >= Cardinality(ShortBranches(z)) + 1
<1>0. IsFiniteSet(Places("Branch"))
  <2>1. Len(Items) \in Nat /\ DOMAIN Items = 1..Len(Items)
    BY ItemFacts
  <2>2. IsFiniteSet(DOMAIN Items)
    BY <2>1, FS_Interval
  <2>. QED
    BY <2>2, FS_Subset DEF Places
<1>1. PICK i \in DOMAIN Items : y[i] # z[i]
  <2>1. z = [i \in DOMAIN Items |-> z[i]] /\ y = [i \in DOMAIN Items |-> y[i]]
    BY DEF Sizing
  <2>. QED
    BY <2>1
<1>2. Items[i].kind = "Branch"
  BY <1>1 DEF AfterPass
<1>3. y[i] = ShortSize /\ z[i] # ShortSize
  <2>1. /\ y[i] \in {ShortSize, NearSize(Items[i].mnemonic)}
        /\ z[i] \in {ShortSize, NearSize(Items[i].mnemonic)}
    BY <1>2 DEF AfterPass
  <2>2. y[i] <= z[i]
    OBVIOUS
  <2>. QED
    BY <1>1, <2>1, <2>2 DEF ShortSize, NearSize
<1>4. i \in ShortBranches(y) \ ShortBranches(z)
  BY <1>2, <1>3 DEF ShortBranches, Places
<1>5. ShortBranches(z) \subseteq ShortBranches(y)
  <2>. SUFFICES ASSUME NEW j \in ShortBranches(z) PROVE j \in ShortBranches(y)
    OBVIOUS
  <2>1. j \in DOMAIN Items /\ Items[j].kind = "Branch" /\ z[j] = ShortSize
        /\ j \in Places("Branch")
    BY DEF ShortBranches, Places
  <2>2. ShortSize <= y[j] /\ y[j] \in Nat
    BY <2>1 DEF Sizing
  <2>3. y[j] <= z[j]
    BY <2>1
  <2>. QED
    BY <2>1, <2>2, <2>3 DEF ShortBranches, ShortSize
<1>6. IsFiniteSet(ShortBranches(y)) /\ IsFiniteSet(ShortBranches(z))
  BY <1>0, FS_Subset DEF ShortBranches
<1>7. /\ Cardinality(ShortBranches(z)) <= Cardinality(ShortBranches(y))
      /\ Cardinality(ShortBranches(z)) # Cardinality(ShortBranches(y))
  <2>1. /\ Cardinality(ShortBranches(z)) <= Cardinality(ShortBranches(y))
        /\ Cardinality(ShortBranches(y)) = Cardinality(ShortBranches(z))
             => ShortBranches(y) = ShortBranches(z)
    BY <1>5, <1>6, FS_Subset
  <2>. QED
    BY <1>4, <2>1
<1>8. Cardinality(ShortBranches(z)) \in Nat /\ Cardinality(ShortBranches(y)) \in Nat
  BY <1>6, FS_CardinalityType
<1>. QED
  BY <1>7, <1>8

LEMMA ShortBranchesCounted ==
  ASSUME ProgramOK, NEW z
  PROVE  /\ Cardinality(ShortBranches(z)) \in Nat /\ Cardinality(Places("Branch")) \in Nat
         /\ Cardinality(ShortBranches(z)) <= Cardinality(Places("Branch"))
<1>1. Len(Items) \in Nat /\ DOMAIN Items = 1..Len(Items)
  BY ItemFacts
<1>2. IsFiniteSet(DOMAIN Items)
  BY <1>1, FS_Interval
<1>3. IsFiniteSet(Places("Branch"))
  BY <1>2, FS_Subset DEF Places
<1>4. ShortBranches(z) \subseteq Places("Branch")
  BY DEF ShortBranches
<1>. QED
  BY <1>3, <1>4, FS_Subset, FS_CardinalityType

\* What is said of lengths depends on the program alone.
LEMMA SameProgram ==
  ASSUME UNCHANGED program, NEW z, sizes' = z
  PROVE  /\ Items' = Items
         /\ Contracting' <=> Contracting
         /\ Places("Branch")' = Places("Branch")
         /\ Sizing(sizes)' <=> Sizing(z)
         /\ Begun(sizes)' <=> Begun(z)
         /\ Shrinks(sizes)' <=> Shrinks(z)
         /\ AfterPass(sizes)' <=> AfterPass(z)
         /\ ShortBranches(sizes)' = ShortBranches(z)
<1>1. Items' = Items
  BY DEF Items, program
<1>2. \A k : Places(k)' = Places(k)
  BY <1>1 DEF Places
<1>3. \A behind, i : /\ EncodedSize(behind, i)' = EncodedSize(behind, i)
                     /\ FaultOf(behind, i)' = FaultOf(behind, i)
  BY <1>1, SameEncoding
<1>4. FirstSizes' = FirstSizes
  BY <1>1 DEF FirstSizes
<1>5. Behind(sizes)' = Behind(z) /\ Behind(FirstSizes)' = Behind(FirstSizes)
  BY <1>1, <1>4 DEF Behind, AlignUp
<1>6. \A i : Stretches(i)' <=> Stretches(i)
  BY <1>1, <1>5 DEF Stretches
<1>7. Contracting' <=> Contracting
  BY <1>1, <1>2, <1>6 DEF Contracting, Unpadded
<1>8. Sizing(sizes)' <=> Sizing(z)
  BY <1>1 DEF Sizing
<1>9. Shrinks(sizes)' <=> Shrinks(z)
  BY <1>1, <1>3, <1>5 DEF Shrinks
<1>10. AfterPass(sizes)' <=> AfterPass(z)
  BY <1>1 DEF AfterPass
<1>11. ShortBranches(sizes)' = ShortBranches(z)
  BY <1>1 DEF ShortBranches, Places
<1>12. Begun(sizes)' <=> Begun(z)
  BY <1>1, <1>4 DEF Begun
<1>. QED
  BY <1>1, <1>2, <1>7, <1>8, <1>9, <1>10, <1>11, <1>12

LEMMA PassGoesOn ==
  ASSUME ProgramOK, LayoutInv, Pass, phase' # "Idle"
  PROVE  /\ UNCHANGED <<program, result>> /\ sizes' = Encoded(Behind(sizes))
         /\ passes' = passes + 1
         /\ phase' = IF Settled(sizes, sizes') THEN "Emission" ELSE "Passes"
         /\ phase = "Passes" /\ Sizing(sizes) /\ Begun(sizes)
         /\ FaultsAt(Behind(sizes)) = {}
<1>1. /\ UNCHANGED <<program, result>> /\ sizes' = Encoded(Behind(sizes))
      /\ passes' = passes + 1 /\ phase = "Passes"
      /\ phase' = IF Settled(sizes, Encoded(Behind(sizes))) THEN "Emission" ELSE "Passes"
      /\ FaultsAt(Behind(sizes)) = {}
  BY DEF Pass, Return
<1>. QED
  BY <1>1 DEF LayoutInv

LEMMA PassKeeps ==
  ASSUME ProgramOK, LayoutInv, Pass, phase' # "Idle"
  PROVE  LayoutInv'
<1>1. /\ UNCHANGED <<program, result>> /\ sizes' = Encoded(Behind(sizes))
      /\ passes' = passes + 1
      /\ phase' = IF Settled(sizes, sizes') THEN "Emission" ELSE "Passes"
      /\ phase = "Passes" /\ Sizing(sizes) /\ Begun(sizes)
      /\ FaultsAt(Behind(sizes)) = {}
  BY PassGoesOn
<1>2. passes \in Nat
  BY DEF LayoutInv
<1>3. PICK y : y = Encoded(Behind(sizes))
  OBVIOUS
<1>4. sizes' = y /\ Sizing(y) /\ AfterPass(y) /\ Begun(y)
  BY <1>1, <1>3, EncodedLeaves, FirstFits DEF Begun, Encoded
<1>5. Contracting => Shrinks(y) /\ \A i \in DOMAIN Items : y[i] <= sizes[i]
  <2>. SUFFICES ASSUME Contracting PROVE Shrinks(y) /\ \A i \in DOMAIN Items : y[i] <= sizes[i]
    OBVIOUS
  <2>1. Shrinks(sizes)
    BY <1>1 DEF LayoutInv
  <2>. QED
    BY <1>1, <1>3, <2>1, EncodedShrinks
<1>6. Contracting /\ phase' = "Passes" => passes' <= Cardinality(ShortBranches(y)) + 1
  <2>. SUFFICES ASSUME Contracting, phase' = "Passes"
                PROVE  passes + 1 <= Cardinality(ShortBranches(y)) + 1
    BY <1>1
  <2>1. y # sizes
    BY <1>1, <1>4 DEF Settled
  <2>2. CASE passes = 0
    <3>1. Cardinality(ShortBranches(y)) \in Nat
      BY ShortBranchesCounted
    <3>. QED
      BY <2>2, <3>1
  <2>3. CASE passes > 0
    <3>1. AfterPass(sizes) /\ passes <= Cardinality(ShortBranches(sizes)) + 1
      BY <1>1, <2>3 DEF LayoutInv
    <3>2. Cardinality(ShortBranches(y)) >= Cardinality(ShortBranches(sizes)) + 1
      BY <1>1, <1>4, <1>5, <2>1, <3>1, ShortBranchesGrow
    <3>3. Cardinality(ShortBranches(y)) \in Nat /\ Cardinality(ShortBranches(sizes)) \in Nat
      BY ShortBranchesCounted
    <3>. QED
      BY <1>2, <3>1, <3>2, <3>3
  <2>. QED
    BY <1>2, <2>2, <2>3
<1>7. /\ Contracting' <=> Contracting
      /\ Places("Branch")' = Places("Branch")
      /\ Sizing(sizes)' /\ Begun(sizes)' /\ AfterPass(sizes)' /\ (Shrinks(sizes)' <=> Shrinks(y))
      /\ ShortBranches(sizes)' = ShortBranches(y)
  BY <1>1, <1>4, SameProgram
<1>8. ConvergesIfContracting'
  <2>1. result' = result /\ ConvergesIfContracting
    BY <1>1 DEF LayoutInv
  <2>. QED
    BY <1>7, <2>1 DEF ConvergesIfContracting
<1>9. phase' \in {"Idle", "Passes", "Emission"} /\ passes' \in Nat
  BY <1>1, <1>2
<1>10. phase' = "Passes" =>
       /\ Sizing(sizes)' /\ Begun(sizes)'
       /\ Contracting' => Shrinks(sizes)'
       /\ passes' > 0 => AfterPass(sizes)'
       /\ passes' > 0 /\ Contracting' => passes' <= Cardinality(ShortBranches(sizes)') + 1
  BY <1>5, <1>6, <1>7
<1>. QED
  BY <1>8, <1>9, <1>10 DEF LayoutInv

LEMMA PassesUsedUp ==
  ASSUME ProgramOK, LayoutInv, Pass, UsedUp(passes)
  PROVE  LayoutInv'
<1>1. /\ phase = "Passes" /\ UNCHANGED program /\ phase' = "Idle" /\ passes' = 0
      /\ passes = MaximumPasses
  BY DEF Pass, UsedUp, Return
<1>2. passes > 0 /\ MaximumPasses \in Nat
  BY <1>1, ConstantFacts
<1>3. Contracting => MaximumPasses <= Cardinality(ShortBranches(sizes)) + 1
  BY <1>1, <1>2 DEF LayoutInv
<1>4. /\ Cardinality(ShortBranches(sizes)) \in Nat /\ Cardinality(Places("Branch")) \in Nat
      /\ Cardinality(ShortBranches(sizes)) <= Cardinality(Places("Branch"))
  BY ShortBranchesCounted
<1>5. Contracting => Cardinality(Places("Branch")) + 2 > MaximumPasses
  BY <1>2, <1>3, <1>4
<1>6. (Contracting' <=> Contracting) /\ Places("Branch")' = Places("Branch")
  BY <1>1, SameProgram
<1>7. ConvergesIfContracting'
  BY <1>5, <1>6 DEF ConvergesIfContracting
<1>. QED
  BY <1>1, <1>7 DEF LayoutInv

LEMMA ReturnsOtherwise ==
  ASSUME NEW answer, Return(answer), answer.status # "LayoutDidNotConverge"
  PROVE  LayoutInv'
BY DEF Return, LayoutInv, ConvergesIfContracting

LEMMA LayoutStep == ProgramOK /\ LayoutInv /\ [Next]_vars => LayoutInv'
<1> SUFFICES ASSUME ProgramOK, LayoutInv, [Next]_vars PROVE LayoutInv'
  OBVIOUS
<1>1. CASE Build
  <2>1. phase' = "Idle" /\ passes' = passes /\ result' = Answer("None")
    BY <1>1 DEF Build
  <2>. QED
    BY <2>1 DEF LayoutInv, ConvergesIfContracting, Answer
<1>2. CASE Assemble
  <2>1. CASE sections = <<>>
    <3>1. Return(Answer("InvalidSection"))
      BY <1>2, <2>1 DEF Assemble
    <3>. QED
      BY <3>1, ReturnsOtherwise DEF Answer
  <2>2. CASE sections # <<>>
    <3>1. /\ phase' = "Passes" /\ sizes' = FirstSizes /\ passes' = 0
          /\ result' = Answer("None") /\ UNCHANGED program
      BY <1>2, <2>2 DEF Assemble
    <3>2. Sizing(FirstSizes) /\ Begun(FirstSizes) /\ Shrinks(FirstSizes)
      BY FirstFits DEF Begun, Shrinks, Sizing
    <3>. HIDE DEF FirstSizes
    <3>3. Sizing(sizes)' /\ Begun(sizes)' /\ Shrinks(sizes)'
      BY <3>1, <3>2, SameProgram
    <3>4. ConvergesIfContracting'
      BY <3>1 DEF ConvergesIfContracting, Answer
    <3>. QED
      BY <3>1, <3>3, <3>4 DEF LayoutInv
  <2>. QED
    BY <2>1, <2>2
<1>3. CASE Pass
  <2>1. CASE phase' # "Idle"
    BY <1>3, <2>1, PassKeeps
  <2>2. CASE UsedUp(passes)
    BY <1>3, <2>2, PassesUsedUp
  <2>3. CASE phase' = "Idle" /\ ~UsedUp(passes)
    <3>1. FaultsAt(Behind(sizes)) # {} /\ Return(Answer(FaultOf(Behind(sizes), Min(FaultsAt(Behind(sizes))))))
      BY <1>3, <2>3 DEF Pass
    <3>2. \A b, i : FaultOf(b, i) # "LayoutDidNotConverge"
      BY DEF FaultOf
    <3>. QED
      BY <3>1, <3>2, ReturnsOtherwise DEF Answer
  <2>. QED
    BY <2>1, <2>2, <2>3
<1>4. CASE Emit
  <2>1. PICK a : Return(a) /\ a.status \in {"EncodingFailure", "Assembled"}
    <3>1. PICK layout, moves :
            Return(IF FaultsAt(Behind(sizes)) # {} \/ Encoded(Behind(sizes)) # sizes
                   THEN Answer("EncodingFailure")
                   ELSE [status |-> "Assembled", sizes |-> layout, relocations |-> moves])
      BY <1>4 DEF Emit
    <3>. QED
      BY <3>1 DEF Answer
  <2>. QED
    BY <2>1, ReturnsOtherwise
<1>5. CASE RunOutOfMemory
  <2>1. Return(Answer("AllocationFailure"))
    BY <1>5 DEF RunOutOfMemory
  <2>. QED
    BY <2>1, ReturnsOtherwise DEF Answer
<1>6. CASE UNCHANGED vars
  <2>1. UNCHANGED <<program, phase, sizes, passes, result>>
    BY <1>6 DEF vars, assembly
  <2>2. PICK z : z = sizes
    OBVIOUS
  <2>3. /\ Contracting' <=> Contracting
        /\ Places("Branch")' = Places("Branch")
        /\ Sizing(sizes)' <=> Sizing(sizes)
        /\ Begun(sizes)' <=> Begun(sizes)
        /\ Shrinks(sizes)' <=> Shrinks(sizes)
        /\ AfterPass(sizes)' <=> AfterPass(sizes)
        /\ ShortBranches(sizes)' = ShortBranches(sizes)
    BY <2>1, <2>2, SameProgram
  <2>. QED
    BY <2>1, <2>3 DEF LayoutInv, ConvergesIfContracting
<1>. QED
  BY <1>1, <1>2, <1>3, <1>4, <1>5, <1>6 DEF Next

AssemblerInv == ProgramOK /\ LayoutInv

\* The program is well formed, and while the passes go on every length fits its
\* node and, if the program contracts, can only get shorter, and the passes are
\* no more than the branches that have become short allow.
THEOREM AssemblerInvariance == Spec => []AssemblerInv
<1>1. Init => AssemblerInv
  <2>. SUFFICES ASSUME Init PROVE ProgramOK /\ LayoutInv
    BY DEF AssemblerInv
  <2>1. [alignment |-> 16, nodes |-> <<>>] \in SectionSet
    BY DEF SectionSet
  <2>2. ProgramOK
    <3>1. CASE sections = <<[alignment |-> 16, nodes |-> <<>>]>> /\ current = 1
      <4>1. sections \in Seq(SectionSet) /\ Len(sections) = 1
        BY <2>1, <3>1
      <4>2. labels \in Seq(BOOLEAN)
        BY DEF Init
      <4>. QED
        BY <3>1, <4>1, <4>2 DEF ProgramOK
    <3>2. CASE sections = <<>> /\ current = 0
      BY <3>2 DEF Init, ProgramOK
    <3>. QED
      BY <3>1, <3>2 DEF Init
  <2>3. LayoutInv
    BY DEF Init, LayoutInv, ConvergesIfContracting, Answer
  <2>. QED
    BY <2>2, <2>3
<1>2. AssemblerInv /\ [Next]_vars => AssemblerInv'
  BY ProgramStep, LayoutStep DEF AssemblerInv
<1>. QED
  BY <1>1, <1>2, PTL DEF Spec

\* Only a program with padding, with a branch to an address that stretches, or
\* with nearly as many branches as there are passes, is refused because its
\* layout does not settle.
THEOREM ConvergesCorrect == Spec => []ConvergesIfContracting
<1>1. AssemblerInv => ConvergesIfContracting
  BY DEF AssemblerInv, LayoutInv
<1>. QED
  BY <1>1, AssemblerInvariance, PTL

\* In a program that contracts no pass of Assemble makes an instruction longer.
THEOREM ShrinksCorrect == Spec => ShrinksIfContracting
<1>1. AssemblerInv /\ [Next]_vars
      => [phase = "Passes" /\ phase' # "Idle" /\ Contracting
            => \A i \in DOMAIN sizes : sizes'[i] <= sizes[i]]_vars
  <2>. SUFFICES ASSUME ProgramOK, LayoutInv, Next, phase = "Passes", phase' # "Idle", Contracting
                PROVE  \A i \in DOMAIN sizes : sizes'[i] <= sizes[i]
    BY DEF AssemblerInv
  <2>1. Pass
    BY DEF Next, Build, Assemble, Emit, RunOutOfMemory, Return
  <2>2. /\ sizes' = Encoded(Behind(sizes)) /\ Sizing(sizes)
        /\ Begun(sizes) /\ FaultsAt(Behind(sizes)) = {}
    BY <2>1, PassGoesOn
  <2>3. Shrinks(sizes)
    BY DEF LayoutInv
  <2>4. \A i \in DOMAIN Items : Encoded(Behind(sizes))[i] <= sizes[i]
    BY <2>2, <2>3, EncodedShrinks
  <2>5. DOMAIN sizes = DOMAIN Items
    BY <2>2 DEF Sizing
  <2>. QED
    BY <2>2, <2>4, <2>5
<1>. QED
  BY <1>1, AssemblerInvariance, PTL DEF Spec, ShrinksIfContracting

-----------------------------------------------------------------------------
(* Prologues.                                                              *)

LEMMA TakesNat == \A p \in Operations : Takes(p) \in Nat
BY DEF Takes, Operations

LEMMA HeldFacts ==
  ASSUME NEW Q \in Seq(Operations)
  PROVE  /\ Held(Q) \in [0 .. Len(Q) -> Nat] /\ Held(Q)[0] = 0
         /\ \A k \in 1 .. Len(Q) : Held(Q)[k] = Held(Q)[k - 1] + Takes(Q[k])
<1> DEFINE n == Len(Q)
           F == [i \in 1..n |-> [x \in Nat |-> x + Takes(Q[i])]]
           Holds(h) == h = [k \in 0 .. n |-> IF k = 0 THEN 0 ELSE h[k - 1] + Takes(Q[k])]
<1>1. n \in Nat /\ F \in [1..n -> [Nat -> Nat]]
  BY TakesNat
<1>2. PICK g : IsRun(g, F, 0, n, Nat)
  <2>. HIDE DEF n, F
  <2>. QED
    BY <1>1, Recursion
<1>3. g \in [0..n -> Nat] /\ g[0] = 0 /\ \A i \in 1..n : g[i] = F[i][g[i - 1]]
  BY <1>2 DEF IsRun
<1>4. ASSUME NEW k \in 0 .. n
      PROVE  g[k] = IF k = 0 THEN 0 ELSE g[k - 1] + Takes(Q[k])
  <2>1. CASE k = 0
    BY <1>3, <2>1
  <2>2. CASE k # 0
    <3>1. k \in 1..n /\ k - 1 \in 0..n
      BY <1>1, <2>2
    <3>2. g[k - 1] \in Nat
      BY <1>3, <3>1
    <3>. QED
      BY <1>3, <2>2, <3>1, <3>2
  <2>. QED
    BY <2>1, <2>2
<1>5. Holds(g)
  <2>. HIDE DEF n, F
  <2>. QED
    BY <1>3, <1>4
<1>6. Held(Q) = CHOOSE h : Holds(h)
  BY DEF Held
<1>7. Holds(Held(Q))
  <2>. HIDE DEF Holds
  <2>. QED
    BY <1>5, <1>6
<1>. HIDE DEF n, F
<1>8. \A k \in 1..n : k \in 0..n /\ k # 0 /\ k - 1 \in 0..n
  BY <1>1
<1> DEFINE h == Held(Q)
<1>9. h[0] = 0 /\ \A k \in 1..n : h[k] = h[k - 1] + Takes(Q[k])
  <2>1. 0 \in 0..n
    BY <1>1
  <2>. HIDE DEF h
  <2>2. h = [k \in 0 .. n |-> IF k = 0 THEN 0 ELSE h[k - 1] + Takes(Q[k])]
    BY <1>7 DEF h
  <2>. QED
    BY <1>8, <2>1, <2>2
<1> DEFINE T == {k \in Nat : k <= n => h[k] = g[k]}
<1>10. 0 \in T
  BY <1>3, <1>9
<1>11. ASSUME NEW k \in Nat, k \in T PROVE k + 1 \in T
  <2>1. CASE k + 1 <= n
    <3>1. k + 1 \in 1..n /\ k + 1 \in 0..n /\ (k + 1) - 1 = k /\ k <= n /\ k + 1 # 0
      BY <1>1, <2>1
    <3>2. h[k + 1] = h[k] + Takes(Q[k + 1])
      BY <1>9, <3>1
    <3>3. g[k + 1] = g[k] + Takes(Q[k + 1])
      BY <1>4, <3>1
    <3>. QED
      BY <1>11, <3>1, <3>2, <3>3
  <2>. QED
    BY <2>1
<1>. HIDE DEF T, h
<1>12. Nat \subseteq T
  BY <1>10, <1>11, NatSetInduction
<1>13. \A k \in 0..n : h[k] = g[k]
  BY <1>12 DEF T
<1>14. h \in [0..n -> Nat]
  <2>1. h = [k \in 0 .. n |-> h[k]]
    BY <1>7 DEF h
  <2>. QED
    BY <1>3, <1>13, <2>1
<1>. QED
  BY <1>9, <1>14 DEF h, n

LEMMA HeldGrows ==
  ASSUME NEW Q \in Seq(Operations), NEW k \in 0 .. Len(Q), NEW j \in 0 .. k
  PROVE  Held(Q)[j] <= Held(Q)[k]
<1> DEFINE h == Held(Q)
           T == {m \in Nat : j + m <= Len(Q) => h[j] <= h[j + m]}
<1>1. Len(Q) \in Nat /\ h \in [0 .. Len(Q) -> Nat]
      /\ \A i \in 1 .. Len(Q) : h[i] = h[i - 1] + Takes(Q[i])
  BY HeldFacts
<1>. HIDE DEF h
<1>2. 0 \in T
  <2>1. j \in 0 .. Len(Q) /\ j + 0 = j
    BY <1>1
  <2>. QED
    BY <1>1, <2>1
<1>3. ASSUME NEW m \in Nat, m \in T PROVE m + 1 \in T
  <2>1. SUFFICES ASSUME j + (m + 1) <= Len(Q) PROVE h[j] <= h[j + (m + 1)]
    OBVIOUS
  <2>2. /\ j + (m + 1) \in 1 .. Len(Q) /\ (j + (m + 1)) - 1 = j + m
        /\ j + m \in 0 .. Len(Q) /\ j \in 0 .. Len(Q) /\ j + m <= Len(Q)
    BY <1>1, <2>1
  <2>3. h[j + (m + 1)] = h[j + m] + Takes(Q[j + (m + 1)])
    BY <1>1, <2>2
  <2>4. Takes(Q[j + (m + 1)]) \in Nat /\ h[j] \in Nat /\ h[j + m] \in Nat
    <3>1. Q[j + (m + 1)] \in Operations
      BY <2>2
    <3>. QED
      BY <1>1, <2>2, <3>1, TakesNat
  <2>5. h[j] <= h[j + m]
    BY <1>3, <2>2
  <2>. QED
    BY <2>3, <2>4, <2>5
<1>. HIDE DEF T
<1>4. k - j \in T
  <2>1. k - j \in Nat
    BY <1>1
  <2>. QED
    BY <1>2, <1>3, <2>1, NatSetInduction
<1>5. k - j \in Nat /\ j + (k - j) = k /\ k <= Len(Q)
  BY <1>1
<1>. QED
  BY <1>4, <1>5 DEF T, h

\* A word that keeps a register is one of those that the prologue has taken.
LEMMA CellFacts ==
  ASSUME NEW Q \in Seq(Operations), WellFormed(Q), NEW k \in Saving(Q)
  PROVE  /\ k \in 1 .. Len(Q) /\ Cell(Q, k) \in Int
         /\ 1 <= Cell(Q, k) /\ Cell(Q, k) <= Held(Q)[k]
<1>1. /\ k \in 1 .. Len(Q) /\ Len(Q) \in Nat /\ Q[k] \in Operations
      /\ Q[k].op \in {"Push", "Save"} /\ k - 1 \in 0 .. Len(Q) /\ k \in 0 .. Len(Q)
  BY DEF Saving
<1>2. Held(Q)[k] \in Nat /\ Held(Q)[k - 1] \in Nat /\ Q[k].amount \in Nat
      /\ Held(Q)[k] = Held(Q)[k - 1] + Takes(Q[k])
  BY <1>1, HeldFacts DEF Operations
<1>3. CASE Q[k].op = "Push"
  BY <1>1, <1>2, <1>3 DEF Cell, Takes
<1>4. CASE Q[k].op = "Save"
  <2>1. Q[k].amount < Held(Q)[k]
    BY <1>1, <1>4 DEF WellFormed
  <2>. QED
    BY <1>1, <1>2, <1>4, <2>1 DEF Cell
<1>. QED
  BY <1>1, <1>3, <1>4

\* What a function does first, a part of it has done.
LEMMA HeldBefore ==
  ASSUME NEW Q \in Seq(Operations), NEW P \in Seq(Operations), NEW k \in 0 .. Len(Q)
  PROVE  Held(Q \o P)[k] = Held(Q)[k]
<1> DEFINE R == Q \o P
           g == Held(Q)
           h == Held(R)
           T == {m \in Nat : m <= Len(Q) => h[m] = g[m]}
<1>1. /\ Len(Q) \in Nat /\ R \in Seq(Operations) /\ Len(Q) <= Len(R) /\ Len(R) \in Nat
      /\ \A i \in 1 .. Len(Q) : R[i] = Q[i]
  BY ConcatProperties, LenProperties
<1>2. /\ g[0] = 0 /\ \A i \in 1 .. Len(Q) : g[i] = g[i - 1] + Takes(Q[i])
  BY HeldFacts
<1>3. /\ h[0] = 0 /\ \A i \in 1 .. Len(R) : h[i] = h[i - 1] + Takes(R[i])
  BY <1>1, HeldFacts
<1>. HIDE DEF R, g, h
<1>4. 0 \in T
  BY <1>2, <1>3
<1>5. ASSUME NEW m \in Nat, m \in T PROVE m + 1 \in T
  <2>1. SUFFICES ASSUME m + 1 <= Len(Q) PROVE h[m + 1] = g[m + 1]
    OBVIOUS
  <2>2. /\ m + 1 \in 1 .. Len(Q) /\ m + 1 \in 1 .. Len(R) /\ (m + 1) - 1 = m
        /\ m <= Len(Q)
    BY <1>1, <2>1
  <2>. QED
    BY <1>1, <1>2, <1>3, <1>5, <2>2
<1>. HIDE DEF T
<1>6. k \in T
  BY <1>1, <1>4, <1>5, NatSetInduction
<1>7. k <= Len(Q)
  BY <1>1
<1>. QED
  BY <1>6, <1>7 DEF T, g, h, R

LEMMA Beginning ==
  ASSUME NEW Q \in Seq(Operations), NEW P \in Seq(Operations)
  PROVE  /\ Q \o P \in Seq(Operations) /\ Len(Q \o P) = Len(Q) + Len(P)
         /\ \A k \in 1 .. Len(Q) :
              /\ (Q \o P)[k] = Q[k]
              /\ k \in Saving(Q \o P) <=> k \in Saving(Q)
              /\ Cell(Q \o P, k) = Cell(Q, k)
         /\ \A k \in 1 .. Len(P) : (Q \o P)[Len(Q) + k] = P[k]
<1> DEFINE R == Q \o P
<1>1. /\ R \in Seq(Operations) /\ Len(R) = Len(Q) + Len(P)
      /\ \A k \in 1 .. Len(Q) : R[k] = Q[k]
      /\ \A k \in 1 .. Len(P) : R[Len(Q) + k] = P[k]
      /\ Len(Q) \in Nat /\ Len(P) \in Nat
  <2>1. R \in Seq(Operations) /\ Len(R) = Len(Q) + Len(P)
        /\ Len(Q) \in Nat /\ Len(P) \in Nat
        /\ \A k \in 1 .. Len(R) : R[k] = IF k <= Len(Q) THEN Q[k] ELSE P[k - Len(Q)]
    BY ConcatProperties, LenProperties
  <2>. HIDE DEF R
  <2>2. ASSUME NEW k \in 1 .. Len(P) PROVE R[Len(Q) + k] = P[k]
    <3>1. Len(Q) + k \in 1 .. Len(R) /\ ~(Len(Q) + k <= Len(Q))
          /\ (Len(Q) + k) - Len(Q) = k
      BY <2>1
    <3>. QED
      BY <2>1, <3>1
  <2>3. ASSUME NEW k \in 1 .. Len(Q) PROVE R[k] = Q[k]
    <3>1. k \in 1 .. Len(R) /\ k <= Len(Q)
      BY <2>1
    <3>. QED
      BY <2>1, <3>1
  <2>. QED
    BY <2>1, <2>2, <2>3
<1>2. ASSUME NEW k \in 1 .. Len(Q)
      PROVE  /\ k \in Saving(R) <=> k \in Saving(Q)
             /\ Cell(R, k) = Cell(Q, k)
  <2>1. Held(R)[k] = Held(Q)[k]
    <3>1. k \in 0 .. Len(Q)
      BY <1>1
    <3>. QED
      BY <3>1, HeldBefore
  <2>2. k \in 1 .. Len(R) /\ DOMAIN R = 1 .. Len(R) /\ DOMAIN Q = 1 .. Len(Q)
    BY <1>1
  <2>. HIDE DEF R
  <2>. QED
    BY <1>1, <2>1, <2>2 DEF Saving, Cell
<1>. QED
  BY <1>1, <1>2

-----------------------------------------------------------------------------
(* The image.                                                              *)

Parts == [prologue : Seq(Operations), leaf : BOOLEAN, parent : Nat]

LEMMA ImageFacts ==
  ASSUME NEW I \in Images
  PROVE  /\ I \in Seq(Parts) /\ Len(I) \in Nat /\ DOMAIN I = 1 .. Len(I) /\ Len(I) # 0
         /\ \A i \in 1 .. Len(I) :
              /\ I[i].prologue \in Seq(Operations) /\ Len(I[i].prologue) \in Nat
              /\ I[i].leaf \in BOOLEAN
              /\ I[i].parent \in Nat /\ I[i].parent < i /\ I[i].parent \in 0 .. Len(I)
              /\ I[i].leaf => I[i].prologue = <<>> /\ I[i].parent = 0
              /\ I[i].parent # 0 =>
                   /\ I[i].parent \in 1 .. Len(I) /\ ~ I[I[i].parent].leaf
                   /\ \A k \in DOMAIN I[i].prologue :
                        I[i].prologue[k].op \in {"Save", "SaveXmm"}
              /\ WellFormed(Whole(I)[i])
<1>1. I \in Seq(Parts) /\ I # <<>>
  BY UnwinderAssumption DEF Parts
<1>2. Len(I) \in Nat /\ DOMAIN I = 1 .. Len(I) /\ Len(I) # 0
  BY <1>1, LenProperties, EmptySeq
<1>3. ASSUME NEW i \in 1 .. Len(I)
      PROVE  /\ I[i] \in Parts
             /\ I[i].parent < i
             /\ I[i].leaf => I[i].prologue = <<>> /\ I[i].parent = 0
             /\ I[i].parent # 0 =>
                  /\ ~ I[I[i].parent].leaf
                  /\ \A k \in DOMAIN I[i].prologue :
                       I[i].prologue[k].op \in {"Save", "SaveXmm"}
             /\ WellFormed(Whole(I)[i])
  <2>1. I[i] \in Parts /\ i \in DOMAIN I
    BY <1>1, <1>2
  <2>. QED
    BY <2>1, UnwinderAssumption
<1>4. ASSUME NEW i \in 1 .. Len(I)
      PROVE  /\ I[i].prologue \in Seq(Operations) /\ Len(I[i].prologue) \in Nat
             /\ I[i].leaf \in BOOLEAN
             /\ I[i].parent \in Nat /\ I[i].parent \in 0 .. Len(I)
             /\ I[i].parent # 0 => I[i].parent \in 1 .. Len(I)
  <2>1. I[i] \in Parts /\ I[i].parent < i
    BY <1>3
  <2>2. I[i].prologue \in Seq(Operations) /\ I[i].leaf \in BOOLEAN /\ I[i].parent \in Nat
    BY <2>1 DEF Parts
  <2>3. Len(I[i].prologue) \in Nat
    BY <2>2, LenProperties
  <2>. QED
    BY <1>2, <2>1, <2>2, <2>3
<1>. QED
  BY <1>1, <1>2, <1>3, <1>4

LEMMA WholeFacts ==
  ASSUME NEW I \in Images
  PROVE  /\ \A i \in 0 .. Len(I) : Whole(I)[i] \in Seq(Operations)
         /\ Whole(I)[0] = <<>>
         /\ \A i \in 1 .. Len(I) : Whole(I)[i] = Whole(I)[I[i].parent] \o I[i].prologue
<1> DEFINE n == Len(I)
           S == Seq(Operations)
           F == [i \in 1..n |-> [x \in S |-> x \o I[i].prologue]]
           P == [i \in 1..n |-> I[i].parent]
           Wholes(h) == h = [i \in 0 .. n |-> IF i = 0 THEN <<>>
                                             ELSE h[I[i].parent] \o I[i].prologue]
<1>1. n \in Nat /\ \A i \in 1..n : I[i].prologue \in S /\ I[i].parent \in Nat
                                   /\ I[i].parent < i /\ I[i].parent \in 0..n
  BY ImageFacts
<1>2. <<>> \in S /\ \A x, y \in S : x \o y \in S
  BY ConcatProperties, EmptySeq
<1>. HIDE DEF S, n
<1>3. F \in [1..n -> [S -> S]] /\ P \in [1..n -> Nat] /\ \A i \in 1..n : P[i] < i
  BY <1>1, <1>2
<1>4. PICK g \in [0..n -> S] : g[0] = <<>> /\ \A i \in 1..n : g[i] = F[i][g[P[i]]]
  <2>2. PICK g : IsTree(g, F, P, <<>>, n, S)
    <3>. HIDE DEF F, P
    <3>1. n \in Nat /\ <<>> \in S
      BY <1>1, <1>2
    <3>. QED
      BY ONLY <1>3, <3>1, TreeRecursion
  <2>. QED
    BY <2>2 DEF IsTree
<1>5. ASSUME NEW i \in 0..n
      PROVE  g[i] = IF i = 0 THEN <<>> ELSE g[I[i].parent] \o I[i].prologue
  <2>1. CASE i = 0
    BY <1>4, <2>1
  <2>2. CASE i # 0
    <3>1. i \in 1..n
      BY <1>1, <2>2
    <3>2. g[I[i].parent] \in S
      BY <1>1, <1>4, <3>1
    <3>. QED
      BY <1>4, <2>2, <3>1, <3>2
  <2>. QED
    BY <2>1, <2>2
<1>6. Wholes(g)
  BY <1>4, <1>5
<1> DEFINE w == Whole(I)
<1>7. w = CHOOSE h : Wholes(h)
  BY DEF Whole, n
<1>8. Wholes(w)
  <2>. HIDE DEF Wholes, w
  <2>. QED
    BY <1>6, <1>7
<1>. HIDE DEF F, P, w
<1>9. w[0] = <<>> /\ \A i \in 1..n : w[i] = w[I[i].parent] \o I[i].prologue
  <2>1. 0 \in 0..n /\ \A i \in 1..n : i \in 0..n /\ i # 0
    BY <1>1
  <2>. QED
    BY <1>8, <2>1
<1> DEFINE T == {k \in Nat : \A i \in 0..n : i <= k => w[i] \in S}
<1>10. 0 \in T
  BY <1>2, <1>9
<1>11. ASSUME NEW k \in Nat, k \in T PROVE k + 1 \in T
  <2>1. ASSUME NEW i \in 0..n, i <= k + 1 PROVE w[i] \in S
    <3>1. CASE i = 0
      BY <1>2, <1>9, <3>1
    <3>2. CASE i # 0
      <4>1. i \in 1..n /\ I[i].parent <= k /\ I[i].parent \in 0..n
        BY <1>1, <2>1, <3>2
      <4>2. w[I[i].parent] \in S
        BY <1>11, <4>1
      <4>. QED
        BY <1>1, <1>2, <1>9, <4>1, <4>2
    <3>. QED
      BY <3>1, <3>2
  <2>. QED
    BY <2>1
<1>. HIDE DEF T
<1>12. n \in T
  BY <1>1, <1>10, <1>11, NatSetInduction
<1>13. \A i \in 0..n : w[i] \in S
  <2>1. \A i \in 0..n : i <= n
    BY <1>1
  <2>. QED
    BY <1>12, <2>1 DEF T
<1>. QED
  BY <1>9, <1>13 DEF w, n, S

LEMMA EndFacts ==
  ASSUME image \in Images
  PROVE  /\ EndOf(0) = 1
         /\ \A i \in 0 .. Len(image) : EndOf(i) \in Nat
         /\ \A i \in 1 .. Len(image) :
              EndOf(i) = BeginOf(i) + (2 * Len(image[i].prologue) + 3)
<1> DEFINE n == Len(image)
           F == [k \in 1..n |-> [x \in Nat |-> x + SizeOf(image[k])]]
           Ends(h) == h = [k \in 0 .. n |-> IF k = 0 THEN 1 ELSE h[k - 1] + SizeOf(image[k])]
           e == CHOOSE h : Ends(h)
<1>1. n \in Nat /\ \A i \in 1..n : SizeOf(image[i]) \in Nat
                                   /\ SizeOf(image[i]) = 2 * Len(image[i].prologue) + 3
  BY ImageFacts DEF SizeOf
<1>2. F \in [1..n -> [Nat -> Nat]] /\ 1 \in Nat
  BY <1>1
<1>3. PICK g : IsRun(g, F, 1, n, Nat)
  <2>. HIDE DEF n, F
  <2>. QED
    BY <1>1, <1>2, Recursion
<1>4. g \in [0..n -> Nat] /\ g[0] = 1 /\ \A i \in 1..n : g[i] = F[i][g[i - 1]]
  BY <1>3 DEF IsRun
<1>. HIDE DEF n
<1>5. ASSUME NEW k \in 0 .. n
      PROVE  g[k] = IF k = 0 THEN 1 ELSE g[k - 1] + SizeOf(image[k])
  <2>1. CASE k = 0
    BY <1>4, <2>1
  <2>2. CASE k # 0
    <3>1. k \in 1..n /\ k - 1 \in 0..n
      BY <1>1, <2>2
    <3>2. g[k - 1] \in Nat
      BY <1>4, <3>1
    <3>. QED
      BY <1>4, <2>2, <3>1, <3>2
  <2>. QED
    BY <2>1, <2>2
<1>6. Ends(g)
  BY <1>4, <1>5
<1>7. Ends(e)
  <2>. HIDE DEF Ends
  <2>. QED
    BY <1>6
<1>8. \A i : EndOf(i) = e[i]
  BY DEF EndOf, n
<1>. HIDE DEF F, e
<1>9. e[0] = 1 /\ \A k \in 1..n : e[k] = e[k - 1] + SizeOf(image[k])
  <2>1. 0 \in 0..n /\ \A i \in 1..n : i \in 0..n /\ i # 0
    BY <1>1
  <2>. QED
    BY <1>7, <2>1
<1> DEFINE T == {k \in Nat : k <= n => e[k] \in Nat}
<1>10. 0 \in T
  BY <1>9
<1>11. ASSUME NEW k \in Nat, k \in T PROVE k + 1 \in T
  <2>1. CASE k + 1 <= n
    <3>1. k + 1 \in 1..n /\ (k + 1) - 1 = k /\ k <= n
      BY <1>1, <2>1
    <3>2. e[k + 1] = e[k] + SizeOf(image[k + 1]) /\ e[k] \in Nat
      BY <1>9, <1>11, <3>1
    <3>. QED
      BY <1>1, <3>1, <3>2
  <2>. QED
    BY <2>1
<1>. HIDE DEF T
<1>12. \A k \in 0..n : e[k] \in Nat
  <2>1. \A k \in 0..n : k \in Nat /\ k <= n
    BY <1>1
  <2>2. Nat \subseteq T
    BY <1>10, <1>11, NatSetInduction
  <2>. QED
    BY <2>1, <2>2 DEF T
<1>. QED
  BY <1>1, <1>8, <1>9, <1>12 DEF BeginOf, n

\* The functions stand in their order, and none is empty.
LEMMA EndGrows ==
  ASSUME image \in Images, NEW j \in 0 .. Len(image), NEW i \in 0 .. j
  PROVE  EndOf(i) <= EndOf(j)
<1> DEFINE T == {m \in Nat : i + m <= Len(image) => EndOf(i) <= EndOf(i + m)}
<1>1. Len(image) \in Nat /\ i \in 0 .. Len(image)
  BY ImageFacts
<1>2. 0 \in T
  <2>1. i + 0 = i /\ EndOf(i) \in Nat
    BY <1>1, EndFacts
  <2>. QED
    BY <2>1
<1>3. ASSUME NEW m \in Nat, m \in T PROVE m + 1 \in T
  <2>1. SUFFICES ASSUME i + (m + 1) <= Len(image) PROVE EndOf(i) <= EndOf(i + (m + 1))
    OBVIOUS
  <2>2. /\ i + (m + 1) \in 1 .. Len(image) /\ (i + (m + 1)) - 1 = i + m
        /\ i + m \in 0 .. Len(image) /\ i + m <= Len(image)
    BY <1>1, <2>1
  <2>3. /\ EndOf(i + (m + 1)) = EndOf(i + m) + (2 * Len(image[i + (m + 1)].prologue) + 3)
        /\ EndOf(i) \in Nat /\ EndOf(i + m) \in Nat
    BY <1>1, <2>2, EndFacts DEF BeginOf
  <2>4. Len(image[i + (m + 1)].prologue) \in Nat
    BY <2>2, ImageFacts
  <2>5. EndOf(i) <= EndOf(i + m)
    BY <1>3, <2>2
  <2>. QED
    BY <2>3, <2>4, <2>5
<1>. HIDE DEF T
<1>4. j - i \in Nat /\ i + (j - i) = j /\ j <= Len(image)
  BY <1>1
<1>5. j - i \in T
  BY <1>2, <1>3, <1>4, NatSetInduction
<1>. QED
  BY <1>4, <1>5 DEF T

\* What stands at an address is one instruction of one function.
LEMMA OneFunction ==
  ASSUME image \in Images, NEW i \in 1 .. Len(image), NEW j \in 1 .. Len(image),
         NEW a \in BeginOf(i) .. EndOf(i) - 1
  PROVE  /\ BeginOf(i) \in Nat /\ EndOf(i) \in Nat /\ BeginOf(i) < EndOf(i)
         /\ BeginOf(j) \in Nat /\ EndOf(j) \in Nat /\ BeginOf(j) < EndOf(j)
         /\ j < i => EndOf(j) <= a
         /\ i < j => a < BeginOf(j)
         /\ 1 <= a /\ a < ImageEnd
<1>1. /\ Len(image) \in Nat /\ i - 1 \in 0 .. Len(image) /\ j - 1 \in 0 .. Len(image)
      /\ i \in 0 .. Len(image) /\ j \in 0 .. Len(image) /\ Len(image) \in 0 .. Len(image)
      /\ 0 \in 0 .. (i - 1) /\ i \in 0 .. Len(image)
      /\ Len(image[i].prologue) \in Nat /\ Len(image[j].prologue) \in Nat
  BY ImageFacts
<1>2. /\ BeginOf(i) \in Nat /\ EndOf(i) \in Nat
      /\ BeginOf(j) \in Nat /\ EndOf(j) \in Nat
      /\ EndOf(i) = BeginOf(i) + (2 * Len(image[i].prologue) + 3)
      /\ EndOf(j) = BeginOf(j) + (2 * Len(image[j].prologue) + 3)
      /\ EndOf(0) = 1 /\ ImageEnd \in Nat
  BY <1>1, EndFacts DEF BeginOf, ImageEnd
<1>3. BeginOf(i) < EndOf(i) /\ BeginOf(j) < EndOf(j)
  <2>1. \A b, l \in Nat : b < b + (2 * l + 3)
    OBVIOUS
  <2>2. BeginOf(i) < BeginOf(i) + (2 * Len(image[i].prologue) + 3)
    BY <1>1, <1>2, <2>1
  <2>3. BeginOf(j) < BeginOf(j) + (2 * Len(image[j].prologue) + 3)
    BY <1>1, <1>2, <2>1
  <2>. QED
    BY <1>2, <2>2, <2>3
<1>4. EndOf(0) <= BeginOf(i) /\ EndOf(i) <= ImageEnd
  BY <1>1, EndGrows DEF BeginOf, ImageEnd
<1>5. ASSUME j < i PROVE EndOf(j) <= BeginOf(i)
  <2>1. j \in 0 .. (i - 1)
    BY <1>1, <1>5
  <2>. QED
    BY <1>1, <2>1, EndGrows DEF BeginOf
<1>6. ASSUME i < j PROVE EndOf(i) <= BeginOf(j)
  <2>1. i \in 0 .. (j - 1)
    BY <1>1, <1>6
  <2>. QED
    BY <1>1, <2>1, EndGrows DEF BeginOf
<1>7. a \in Int /\ BeginOf(i) <= a /\ a <= EndOf(i) - 1
  BY <1>2
<1>8. j < i => EndOf(j) <= a
  BY <1>2, <1>5, <1>7
<1>9. i < j => a < BeginOf(j)
  BY <1>2, <1>6, <1>7
<1>10. 1 <= a /\ a < ImageEnd
  BY <1>2, <1>4, <1>7
<1>. QED
  BY <1>2, <1>3, <1>8, <1>9, <1>10

Entries == {EntryOf(i) : i \in 1 .. Len(image)}

LEMMA EntryFacts ==
  ASSUME NEW i
  PROVE  /\ EntryOf(i).function = i
         /\ EntryOf(i).begin = BeginOf(i) /\ EntryOf(i).end = EndOf(i)
         /\ EntryOf(i).prologSize = Len(image[i].prologue)
         /\ EntryOf(i).codes = CodesOf(image[i].prologue)
         /\ EntryOf(i).frame = FrameOf(image[i].prologue)
         /\ EntryOf(i).chained = image[i].parent
BY DEF EntryOf

\* The table of the functions up to k, in their order.
IsTable(t, k) ==
  /\ t \in Seq(Entries)
  /\ \A x \in 1 .. Len(t) : /\ t[x].function \in 1 .. k /\ ~ image[t[x].function].leaf
                            /\ t[x] = EntryOf(t[x].function)
  /\ \A x, y \in 1 .. Len(t) : x < y => t[x].function < t[y].function
  /\ \A i \in 1 .. k : ~ image[i].leaf => \E x \in 1 .. Len(t) : t[x].function = i

LEMMA TableGrows ==
  ASSUME image \in Images, NEW k \in 1 .. Len(image), NEW t, IsTable(t, k - 1)
  PROVE  IsTable(IF image[k].leaf THEN t ELSE Append(t, EntryOf(k)), k)
<1>1. /\ Len(image) \in Nat /\ k \in Nat /\ k # 0 /\ Len(t) \in Nat /\ t \in Seq(Entries)
      /\ \A i \in 1 .. (k - 1) : i \in 1 .. k /\ i < k
      /\ \A i \in 1 .. k : i # k => i \in 1 .. (k - 1)
      /\ k \in 1 .. k
  BY ImageFacts DEF IsTable
<1>2. CASE image[k].leaf
  <2>1. IsTable(t, k)
    BY <1>1, <1>2 DEF IsTable
  <2>. QED
    BY <1>2, <2>1
<1>3. CASE ~ image[k].leaf
  <2> DEFINE u == Append(t, EntryOf(k))
             m == Len(t)
  <2>1. EntryOf(k) \in Entries
    BY DEF Entries
  <2>2. /\ u \in Seq(Entries) /\ Len(u) = m + 1 /\ u[m + 1] = EntryOf(k)
        /\ \A x \in 1 .. m : u[x] = t[x]
    BY <1>1, <2>1, AppendProperties
  <2>3. /\ u[m + 1].function = k
        /\ \A x \in 1 .. Len(u) : x # m + 1 => x \in 1 .. m
        /\ m + 1 \in 1 .. Len(u) /\ \A x \in 1 .. m : x \in 1 .. Len(u)
    BY <1>1, <2>2, EntryFacts
  <2>. HIDE DEF u, m
  <2>4. ASSUME NEW x \in 1 .. Len(u)
        PROVE  /\ u[x].function \in 1 .. k /\ ~ image[u[x].function].leaf
               /\ u[x] = EntryOf(u[x].function)
    <3>1. CASE x = m + 1
      BY <1>1, <1>3, <2>2, <2>3, <3>1
    <3>2. CASE x # m + 1
      <4>1. x \in 1 .. m /\ u[x] = t[x]
        BY <2>2, <2>3, <3>2
      <4>2. t[x].function \in 1 .. (k - 1)
        BY <4>1 DEF IsTable, m
      <4>. QED
        BY <1>1, <4>1, <4>2 DEF IsTable, m
    <3>. QED
      BY <3>1, <3>2
  <2>5. ASSUME NEW x \in 1 .. Len(u), NEW y \in 1 .. Len(u), x < y
        PROVE  u[x].function < u[y].function
    <3>0. m \in Nat
      BY <1>1 DEF m
    <3>1. x \in 1 .. m /\ u[x] = t[x]
      BY <2>2, <2>5, <3>0
    <3>2. CASE y = m + 1
      <4>1. t[x].function \in 1 .. (k - 1)
        BY <3>1 DEF IsTable, m
      <4>. QED
        BY <1>1, <2>3, <3>1, <3>2, <4>1
    <3>3. CASE y # m + 1
      <4>1. y \in 1 .. m /\ u[y] = t[y]
        BY <2>2, <2>3, <3>3
      <4>. QED
        BY <2>5, <3>1, <4>1 DEF IsTable, m
    <3>. QED
      BY <3>2, <3>3
  <2>6. ASSUME NEW i \in 1 .. k, ~ image[i].leaf
        PROVE  \E x \in 1 .. Len(u) : u[x].function = i
    <3>1. CASE i = k
      BY <2>3, <3>1
    <3>2. CASE i # k
      <4>1. i \in 1 .. (k - 1)
        BY <1>1, <3>2
      <4>2. PICK x \in 1 .. m : t[x].function = i
        BY <2>6, <4>1 DEF IsTable, m
      <4>. QED
        BY <2>2, <2>3, <4>2
    <3>. QED
      BY <3>1, <3>2
  <2>7. IsTable(u, k)
    BY <2>2, <2>4, <2>5, <2>6 DEF IsTable
  <2>. QED
    BY <1>3, <2>7 DEF u
<1>. QED
  BY <1>2, <1>3

LEMMA TableFacts ==
  ASSUME image \in Images
  PROVE  IsTable(Functions, Len(image))
<1> DEFINE n == Len(image)
           S == Seq(Entries)
           More(k, x) == IF image[k].leaf THEN x ELSE Append(x, EntryOf(k))
           F == [k \in 1..n |-> [x \in S |-> More(k, x)]]
           Tables(h) == h = [k \in 0 .. n |-> IF k = 0 THEN <<>>
                                             ELSE IF image[k].leaf THEN h[k - 1]
                                             ELSE Append(h[k - 1], EntryOf(k))]
           t == CHOOSE h : Tables(h)
<1>1. n \in Nat /\ <<>> \in S
  BY ImageFacts
<1>2. F \in [1..n -> [S -> S]]
  <2>1. ASSUME NEW k \in 1..n, NEW x \in S PROVE More(k, x) \in S
    <3>1. EntryOf(k) \in Entries
      BY <2>1 DEF Entries
    <3>. QED
      BY <2>1, <3>1, AppendProperties
  <2>. HIDE DEF More, S
  <2>. QED
    BY <2>1
<1>3. PICK g : IsRun(g, F, <<>>, n, S)
  <2>. HIDE DEF n, F, S
  <2>. QED
    BY <1>1, <1>2, Recursion
<1>4. g \in [0..n -> S] /\ g[0] = <<>> /\ \A i \in 1..n : g[i] = F[i][g[i - 1]]
  BY <1>3 DEF IsRun
<1>5. ASSUME NEW k \in 0 .. n
      PROVE  g[k] = IF k = 0 THEN <<>> ELSE More(k, g[k - 1])
  <2>1. CASE k = 0
    BY <1>4, <2>1
  <2>2. CASE k # 0
    <3>1. k \in 1..n /\ k - 1 \in 0..n
      BY <1>1, <2>2
    <3>2. g[k - 1] \in S
      BY <1>4, <3>1
    <3>. HIDE DEF More, S, n
    <3>. QED
      BY <1>4, <2>2, <3>1, <3>2
  <2>. QED
    BY <2>1, <2>2
<1>6. Tables(g)
  <2>1. g = [k \in 0 .. n |-> g[k]]
    BY <1>4
  <2>. HIDE DEF n, S
  <2>. QED
    BY <1>5, <2>1
<1>7. Tables(t)
  <2>. HIDE DEF Tables
  <2>. QED
    BY <1>6
<1>8. Functions = t[n]
  BY DEF Functions
<1>. HIDE DEF F, t, S, n
<1>9. t[0] = <<>> /\ \A k \in 1..n : t[k] = More(k, t[k - 1])
  <2>1. 0 \in 0..n /\ \A i \in 1..n : i \in 0..n /\ i # 0
    BY <1>1
  <2>. QED
    BY <1>7, <2>1
<1>. HIDE DEF Tables
<1> DEFINE T == {k \in Nat : k <= n => IsTable(t[k], k)}
<1>10. 0 \in T
  <2>1. <<>> \in Seq(Entries) /\ Len(<<>>) = 0
    OBVIOUS
  <2>2. IsTable(<<>>, 0)
    BY <2>1 DEF IsTable
  <2>. QED
    BY <1>9, <2>2
<1>11. ASSUME NEW k \in Nat, k \in T PROVE k + 1 \in T
  <2>1. CASE k + 1 <= n
    <3>1. k + 1 \in 1..n /\ (k + 1) - 1 = k /\ k <= n
      BY <1>1, <2>1
    <3>2. IsTable(t[k], (k + 1) - 1)
      BY <1>11, <3>1
    <3>3. IsTable(More(k + 1, t[k]), k + 1)
      BY <3>1, <3>2, TableGrows DEF n
    <3>4. t[k + 1] = More(k + 1, t[k])
      BY <1>9, <3>1
    <3>. QED
      BY <3>3, <3>4
  <2>. QED
    BY <2>1
<1>. HIDE DEF T
<1>12. n \in T
  BY <1>1, <1>10, <1>11, NatSetInduction
<1>. QED
  BY <1>8, <1>12, <1>1 DEF T, n

-----------------------------------------------------------------------------
(* The search.                                                             *)

\* What is left to search after some looks: what is found holds the address,
\* and until then no entry outside the part that is left can.
Left(a, s, looks) ==
  LET table == Functions
  IN /\ s.first \in Nat \ {0} /\ s.count \in Nat /\ s.found \in 0 .. Len(table)
     /\ s.found # 0 => a \in table[s.found].begin .. table[s.found].end - 1
     /\ s.found = 0 =>
          /\ s.first + s.count <= Len(table) + 1
          /\ s.count + looks <= Len(table) \/ s.count = 0
          /\ \A x \in 1 .. Len(table) : x < s.first => table[x].end <= a
          /\ \A x \in 1 .. Len(table) : s.first + s.count <= x => a < table[x].begin

Look(a, s) ==
  LET table == Functions
      step  == s.count \div 2
      index == s.first + step
  IN IF s.count = 0 \/ s.found # 0 THEN s
     ELSE IF a < table[index].begin THEN [s EXCEPT !.count = step]
     ELSE IF IsBehind(a, table[index])
          THEN [s EXCEPT !.first = index + 1, !.count = @ - (step + 1)]
     ELSE [s EXCEPT !.found = index]

Searches == [first : Nat, count : Nat, found : Nat]

\* Entries are in the order of their addresses and do not overlap.
LEMMA TableOrder ==
  ASSUME image \in Images
  PROVE  /\ Functions \in Seq(Entries) /\ Len(Functions) \in Nat
         /\ \A x \in 1 .. Len(Functions) :
              /\ Functions[x].function \in 1 .. Len(image)
              /\ ~ image[Functions[x].function].leaf
              /\ Functions[x] = EntryOf(Functions[x].function)
              /\ Functions[x].begin \in Nat /\ Functions[x].end \in Nat
              /\ Functions[x].begin < Functions[x].end
         /\ \A x, y \in 1 .. Len(Functions) : x < y => Functions[x].end <= Functions[y].begin
<1>1. IsTable(Functions, Len(image))
  BY TableFacts
<1>2. Functions \in Seq(Entries) /\ Len(Functions) \in Nat
  BY <1>1, LenProperties DEF IsTable
<1>3. ASSUME NEW x \in 1 .. Len(Functions)
      PROVE  /\ Functions[x].function \in 1 .. Len(image)
             /\ ~ image[Functions[x].function].leaf
             /\ Functions[x] = EntryOf(Functions[x].function)
             /\ Functions[x].begin = BeginOf(Functions[x].function)
             /\ Functions[x].end = EndOf(Functions[x].function)
  <2>1. /\ Functions[x].function \in 1 .. Len(image)
        /\ ~ image[Functions[x].function].leaf
        /\ Functions[x] = EntryOf(Functions[x].function)
    BY <1>1 DEF IsTable
  <2> DEFINE i == Functions[x].function
  <2>2. EntryOf(i).begin = BeginOf(i) /\ EntryOf(i).end = EndOf(i)
    BY EntryFacts
  <2>. HIDE DEF i
  <2>3. Functions[x].begin = BeginOf(i) /\ Functions[x].end = EndOf(i)
    BY <2>1, <2>2 DEF i
  <2>. QED
    BY <2>1, <2>3 DEF i
<1>4. ASSUME NEW i \in 1 .. Len(image)
      PROVE  /\ BeginOf(i) \in Nat /\ EndOf(i) \in Nat /\ BeginOf(i) < EndOf(i)
             /\ BeginOf(i) \in BeginOf(i) .. EndOf(i) - 1
  <2>1. /\ i - 1 \in 0 .. Len(image) /\ i \in 0 .. Len(image)
        /\ Len(image[i].prologue) \in Nat
    BY ImageFacts
  <2>2. /\ BeginOf(i) \in Nat /\ EndOf(i) \in Nat
        /\ EndOf(i) = BeginOf(i) + (2 * Len(image[i].prologue) + 3)
    BY <2>1, EndFacts DEF BeginOf
  <2>3. \A b, l \in Nat : b < b + (2 * l + 3)
    OBVIOUS
  <2>4. BeginOf(i) < BeginOf(i) + (2 * Len(image[i].prologue) + 3)
    BY <2>1, <2>2, <2>3
  <2>. QED
    BY <2>2, <2>4
<1>5. ASSUME NEW x \in 1 .. Len(Functions), NEW y \in 1 .. Len(Functions), x < y
      PROVE  Functions[x].end <= Functions[y].begin
  <2>1. Functions[x].function < Functions[y].function
    BY <1>1, <1>5 DEF IsTable
  <2> DEFINE i == Functions[x].function
             j == Functions[y].function
  <2>2. i \in 1 .. Len(image) /\ j \in 1 .. Len(image) /\ i < j
    BY <1>3, <2>1
  <2>3. EndOf(i) <= BeginOf(j)
    <3>1. BeginOf(j) \in BeginOf(j) .. EndOf(j) - 1
      BY <1>4, <2>2
    <3>. HIDE DEF i, j
    <3>. QED
      BY <2>2, <3>1, OneFunction
  <2>. QED
    BY <1>3, <2>3
<1>6. ASSUME NEW x \in 1 .. Len(Functions)
      PROVE  /\ Functions[x].begin \in Nat /\ Functions[x].end \in Nat
             /\ Functions[x].begin < Functions[x].end
  <2>1. Functions[x].function \in 1 .. Len(image)
    BY <1>3
  <2>. QED
    BY <1>3, <1>4, <2>1
<1>. QED
  BY <1>2, <1>3, <1>5, <1>6

LEMMA LookKeeps ==
  ASSUME image \in Images, NEW a \in Nat, NEW s \in Searches, NEW looks \in Nat,
         Left(a, s, looks)
  PROVE  Look(a, s) \in Searches /\ Left(a, Look(a, s), looks + 1)
<1> DEFINE n == Len(Functions)
           step == s.count \div 2
           index == s.first + step
<1>1. /\ n \in Nat
      /\ \A x \in 1 .. n : /\ Functions[x].begin \in Nat /\ Functions[x].end \in Nat
                           /\ Functions[x].begin < Functions[x].end
      /\ \A x, y \in 1 .. n : x < y => Functions[x].end <= Functions[y].begin
  BY TableOrder
<1>2. CASE s.count = 0 \/ s.found # 0
  BY <1>2 DEF Look, Left
<1>3. CASE s.count # 0 /\ s.found = 0
  <2>1. /\ s.first \in Nat \ {0} /\ s.count \in Nat /\ s.found = 0
        /\ s = [first |-> s.first, count |-> s.count, found |-> 0]
        /\ s.first + s.count <= n + 1 /\ s.count + looks <= n
        /\ \A x \in 1 .. n : x < s.first => Functions[x].end <= a
        /\ \A x \in 1 .. n : s.first + s.count <= x => a < Functions[x].begin
    BY <1>3 DEF Left, Searches
  <2>2. step \in Nat /\ step < s.count /\ index \in 1 .. n
    <3>1. step \in Nat /\ step < s.count
      BY <1>3, <2>1
    <3>. QED
      BY <1>1, <2>1, <3>1
  <2>. HIDE DEF step, n
  <2>3. CASE a < Functions[index].begin
    <3>1. Look(a, s) = [first |-> s.first, count |-> step, found |-> 0]
      BY <1>3, <2>1, <2>3 DEF Look, step
    <3>2. ASSUME NEW x \in 1 .. n, index <= x PROVE a < Functions[x].begin
      <4>1. CASE x = index
        BY <2>3, <4>1
      <4>2. CASE x # index
        <5>1. index < x
          BY <2>2, <3>2, <4>2
        <5>. QED
          BY <1>1, <2>2, <2>3, <5>1
      <4>. QED
        BY <4>1, <4>2
    <3>3. s.first + step <= n + 1 /\ step + (looks + 1) <= n
      BY <1>1, <2>1, <2>2
    <3>. QED
      BY <2>1, <2>2, <3>1, <3>2, <3>3 DEF Left, Searches, n
  <2>4. CASE ~(a < Functions[index].begin) /\ a >= Functions[index].end
    <3>1. Look(a, s) = [first |-> index + 1, count |-> s.count - (step + 1), found |-> 0]
      BY <1>3, <2>1, <2>4 DEF Look, step, IsBehind
    <3>2. ASSUME NEW x \in 1 .. n, x < index + 1 PROVE Functions[x].end <= a
      <4>0. index \in Nat /\ Functions[index].end <= a
        BY <1>1, <2>2, <2>4
      <4>1. CASE x = index
        BY <4>0, <4>1
      <4>2. CASE x # index
        <5>1. x < index
          BY <3>2, <4>0, <4>2
        <5>2. /\ Functions[x].end <= Functions[index].begin
              /\ Functions[index].begin < Functions[index].end
              /\ Functions[x].end \in Nat /\ Functions[index].begin \in Nat
              /\ Functions[index].end \in Nat
          BY <1>1, <2>2, <5>1
        <5>. QED
          BY <4>0, <5>2
      <4>. QED
        BY <4>1, <4>2
    <3>3. /\ s.count - (step + 1) \in Nat /\ index + 1 \in Nat \ {0}
          /\ (index + 1) + (s.count - (step + 1)) = s.first + s.count
          /\ (s.count - (step + 1)) + (looks + 1) <= n
      <4>1. /\ s.first \in Nat /\ s.count \in Nat /\ step \in Nat /\ step < s.count
            /\ n \in Nat /\ s.count + looks <= n
        BY <1>1, <2>1, <2>2
      <4>. QED
        BY <4>1
    <3>. QED
      BY <2>1, <2>2, <3>1, <3>2, <3>3 DEF Left, Searches, n
  <2>5. CASE ~(a < Functions[index].begin) /\ ~(a >= Functions[index].end)
    <3>1. Look(a, s) = [first |-> s.first, count |-> s.count, found |-> index]
      BY <1>3, <2>1, <2>5 DEF Look, step, IsBehind
    <3>2. a \in Functions[index].begin .. Functions[index].end - 1 /\ index # 0
          /\ index \in 0 .. n /\ index \in Nat
      BY <1>1, <2>2, <2>5
    <3>. QED
      BY <2>1, <3>1, <3>2 DEF Left, Searches, n
  <2>. QED
    BY <2>3, <2>4, <2>5
<1>. QED
  BY <1>2, <1>3

\* The search finds the entry of the function around an address, and none in
\* a leaf.
LEMMA LookupFinds ==
  ASSUME image \in Images, Valid, NEW i \in 1 .. Len(image),
         NEW a \in BeginOf(i) .. EndOf(i) - 1
  PROVE  /\ image[i].leaf => LookupRuntimeFunction(a) = 0
         /\ ~ image[i].leaf =>
              /\ LookupRuntimeFunction(a) \in 1 .. Len(Functions)
              /\ Functions[LookupRuntimeFunction(a)] = EntryOf(i)
<1> DEFINE n == Len(Functions)
           b == [first |-> 1, count |-> n, found |-> 0]
           F == [k \in 1..n |-> [s \in Searches |->
                   IF Look(a, s) \in Searches THEN Look(a, s) ELSE s]]
           Spans(h) == h = [k \in 0 .. n |-> IF k = 0 THEN b ELSE Look(a, h[k - 1])]
           r == CHOOSE h : Spans(h)
<1>1. /\ n \in Nat /\ a \in Nat /\ InImage(a)
      /\ b \in Searches /\ Left(a, b, 0)
  <2>1. n \in Nat
    BY TableOrder
  <2>2. a \in Nat /\ 1 <= a /\ a < ImageEnd /\ ImageEnd \in Nat
    <3>1. BeginOf(i) \in Nat /\ EndOf(i) \in Nat /\ 1 <= a /\ a < ImageEnd
      BY OneFunction
    <3>2. ImageEnd \in Nat
      BY ImageFacts, EndFacts DEF ImageEnd
    <3>. QED
      BY <3>1, <3>2
  <2>3. InImage(a)
    BY <2>2 DEF InImage
  <2>4. b \in Searches
    BY <2>1 DEF Searches
  <2>5. Left(a, b, 0)
    <3>1. b.first = 1 /\ b.count = n /\ b.found = 0
      OBVIOUS
    <3>2. /\ 1 \in Nat \ {0} /\ 0 \in 0 .. n /\ 1 + n <= n + 1 /\ n + 0 <= n
          /\ \A x \in 1 .. n : ~(x < 1) /\ ~(1 + n <= x)
      <4>. HIDE DEF n
      <4>. QED
        BY <2>1
    <3>. HIDE DEF b
    <3>. QED
      BY <2>1, <3>1, <3>2, SMTT(30) DEF Left
  <2>. QED
    BY <2>1, <2>2, <2>3, <2>4, <2>5
<1>2. LookupRuntimeFunction(a) = r[n].found
  BY <1>1 DEF LookupRuntimeFunction, Look
<1>. HIDE DEF n, b
<1>3. F \in [1..n -> [Searches -> Searches]]
  OBVIOUS
<1>4. PICK g : IsRun(g, F, b, n, Searches)
  <2>. HIDE DEF F
  <2>. QED
    BY <1>1, <1>3, Recursion
<1>5. g \in [0..n -> Searches] /\ g[0] = b /\ \A k \in 1..n : g[k] = F[k][g[k - 1]]
  BY <1>4 DEF IsRun
<1> DEFINE T == {k \in Nat : k <= n => Left(a, g[k], k)}
<1>6. 0 \in T
  BY <1>1, <1>5
<1>7. ASSUME NEW k \in Nat, k + 1 <= n, Left(a, g[k], k)
      PROVE  g[k + 1] = Look(a, g[k]) /\ Left(a, g[k + 1], k + 1)
  <2>1. k + 1 \in 1..n /\ (k + 1) - 1 = k /\ k \in 0..n
    BY <1>1, <1>7
  <2>2. g[k] \in Searches
    BY <1>5, <2>1
  <2>3. Look(a, g[k]) \in Searches /\ Left(a, Look(a, g[k]), k + 1)
    BY <1>1, <1>7, <2>2, LookKeeps
  <2>4. g[k + 1] = Look(a, g[k])
    BY <1>5, <2>1, <2>2, <2>3
  <2>. QED
    BY <2>3, <2>4
<1>8. ASSUME NEW k \in Nat, k \in T PROVE k + 1 \in T
  <2>1. SUFFICES ASSUME k + 1 <= n PROVE Left(a, g[k + 1], k + 1)
    OBVIOUS
  <2>2. k <= n
    BY <1>1, <2>1
  <2>. QED
    BY <1>7, <1>8, <2>1, <2>2
<1>. HIDE DEF F
<1>9. \A k \in 0..n : Left(a, g[k], k)
  <2>. HIDE DEF T
  <2>1. Nat \subseteq T
    BY <1>6, <1>8, NatSetInduction
  <2>2. \A k \in 0..n : k \in T /\ k <= n
    BY <1>1, <2>1
  <2>. QED
    BY <2>2 DEF T
<1>10. \A k \in 1..n : g[k] = Look(a, g[k - 1])
  <2>1. \A k \in 1..n : k - 1 \in Nat /\ k - 1 \in 0..n /\ (k - 1) + 1 = k /\ k <= n
    BY <1>1
  <2>. QED
    BY <1>7, <1>9, <2>1
<1>11. Spans(g)
  <2>1. ASSUME NEW k \in 0..n
        PROVE  g[k] = IF k = 0 THEN b ELSE Look(a, g[k - 1])
    <3>1. CASE k = 0
      BY <1>5, <3>1
    <3>2. CASE k # 0
      <4>1. k \in 1..n
        BY <1>1, <3>2
      <4>. QED
        BY <1>10, <3>2, <4>1
    <3>. QED
      BY <3>1, <3>2
  <2>. QED
    BY <1>5, <2>1
<1>12. Spans(r)
  <2>. HIDE DEF Spans
  <2>. QED
    BY <1>11
<1>. HIDE DEF r
<1>13. r[0] = b /\ \A k \in 1..n : r[k] = Look(a, r[k - 1])
  <2>1. 0 \in 0..n /\ \A k \in 1..n : k \in 0..n /\ k # 0
    BY <1>1
  <2>. QED
    BY <1>12, <2>1
<1>. HIDE DEF Spans
<1> DEFINE U == {k \in Nat : k <= n => r[k] = g[k]}
<1>14. n \in U
  <2>1. 0 \in U
    BY <1>5, <1>13
  <2>2. ASSUME NEW k \in Nat, k \in U PROVE k + 1 \in U
    <3>1. SUFFICES ASSUME k + 1 <= n PROVE r[k + 1] = g[k + 1]
      OBVIOUS
    <3>2. k + 1 \in 1..n /\ (k + 1) - 1 = k /\ k <= n
      BY <1>1, <3>1
    <3>3. r[k] = g[k]
      BY <2>2, <3>2
    <3>. QED
      BY <1>10, <1>13, <3>2, <3>3
  <2>. HIDE DEF U
  <2>. QED
    BY <1>1, <2>1, <2>2, NatSetInduction
<1> DEFINE s == r[n]
<1>15. Left(a, s, n)
  <2>1. n \in 0..n /\ n <= n
    BY <1>1
  <2>. QED
    BY <1>9, <1>14, <2>1
<1>16. LookupRuntimeFunction(a) = s.found
  BY <1>2
<1>. HIDE DEF T, U, s
<1>17. /\ s.found \in 0 .. n
       /\ s.found # 0 => a \in Functions[s.found].begin .. Functions[s.found].end - 1
       /\ s.found = 0 => \A x \in 1 .. n : Functions[x].end <= a \/ a < Functions[x].begin
  <2>1. /\ s.found \in 0 .. n
        /\ s.found # 0 => a \in Functions[s.found].begin .. Functions[s.found].end - 1
    BY <1>15 DEF Left, n
  <2>2. ASSUME s.found = 0
        PROVE  \A x \in 1 .. n : Functions[x].end <= a \/ a < Functions[x].begin
    <3>. TAKE x \in 1 .. n
    <3>1. /\ s.first \in Nat /\ s.count \in Nat
          /\ s.count + n <= n \/ s.count = 0
          /\ x < s.first => Functions[x].end <= a
          /\ s.first + s.count <= x => a < Functions[x].begin
      BY <1>15, <2>2 DEF Left, n
    <3>2. s.count = 0
      BY <1>1, <3>1
    <3>3. x < s.first \/ s.first + s.count <= x
      BY <1>1, <3>1, <3>2
    <3>. QED
      BY <3>1, <3>3
  <2>. QED
    BY <2>1, <2>2
<1>18. ASSUME NEW x \in 1 .. n
       PROVE  /\ Functions[x].function \in 1 .. Len(image)
              /\ ~ image[Functions[x].function].leaf
              /\ Functions[x] = EntryOf(Functions[x].function)
              /\ Functions[x].begin = BeginOf(Functions[x].function)
              /\ Functions[x].end = EndOf(Functions[x].function)
  <2>1. /\ Functions[x].function \in 1 .. Len(image)
        /\ ~ image[Functions[x].function].leaf
        /\ Functions[x] = EntryOf(Functions[x].function)
    BY TableOrder DEF n
  <2> DEFINE j == Functions[x].function
  <2>2. EntryOf(j).begin = BeginOf(j) /\ EntryOf(j).end = EndOf(j)
    BY EntryFacts
  <2>. HIDE DEF j
  <2>3. Functions[x].begin = BeginOf(j) /\ Functions[x].end = EndOf(j)
    BY <2>1, <2>2 DEF j
  <2>. QED
    BY <2>1, <2>3 DEF j
<1>19. ASSUME s.found # 0
       PROVE  ~ image[i].leaf /\ Functions[s.found] = EntryOf(i) /\ s.found \in 1 .. n
  <2>1. s.found \in 1 .. n
    BY <1>1, <1>17, <1>19
  <2> DEFINE j == Functions[s.found].function
  <2>2. /\ j \in 1 .. Len(image) /\ ~ image[j].leaf /\ Functions[s.found] = EntryOf(j)
        /\ a \in BeginOf(j) .. EndOf(j) - 1
    BY <1>17, <1>18, <1>19, <2>1
  <2>. HIDE DEF j
  <2>3. i = j
    <3>1. /\ BeginOf(j) \in Nat /\ EndOf(j) \in Nat /\ Len(image) \in Nat
          /\ j < i => EndOf(j) <= a
          /\ i < j => a < BeginOf(j)
      BY <2>2, ImageFacts, OneFunction
    <3>2. ~(EndOf(j) <= a) /\ ~(a < BeginOf(j))
      BY <1>1, <2>2, <3>1
    <3>. QED
      BY <2>2, <3>1, <3>2
  <2>. QED
    BY <2>1, <2>2, <2>3
<1>20. ASSUME s.found = 0, ~ image[i].leaf
       PROVE  FALSE
  <2>1. PICK x \in 1 .. n : Functions[x].function = i
    <3>1. i \in 1 .. Len(image) /\ IsTable(Functions, Len(image))
      BY TableFacts
    <3>. QED
      BY <1>20, <3>1 DEF IsTable, n
  <2>2. EndOf(i) <= a \/ a < BeginOf(i)
    BY <1>17, <1>18, <1>20, <2>1
  <2>3. BeginOf(i) \in Nat /\ EndOf(i) \in Nat
    BY OneFunction
  <2>. QED
    BY <1>1, <2>2, <2>3
<1>. QED
  BY <1>16, <1>19, <1>20 DEF n

-----------------------------------------------------------------------------
(* What a call has left in the stack.                                      *)

Registers == [Nonvolatile -> Int]
Memories  == [1 .. StackSize -> Int]

\* Where the address stands to which a call returns.
Slot(c) == c.rsp - 1

IsSaved(Q, n, r) == \E k \in Saving(Q) : k <= n /\ Q[k].register = r
IsFramed(Q, n)   == \E k \in 1 .. n : Q[k].op = "SetFrame"

\* The prologue Q of a call from c has run up to e, and behind n it has been
\* undone; `at` is where the call stands.
StackAt(Q, n, c, at) ==
  /\ at.rsp \in Int /\ at.allocated \in {0, 1}
  /\ at.allocated = 1 => IsFramed(Q, n)
  /\ at.rsp + at.allocated = Slot(c) - Held(Q)[n]
  /\ at.rsp > 0 /\ Slot(c) \in 1 .. StackSize

KeptAt(Q, e, c, mem) ==
  /\ mem \in Memories
  /\ mem[Slot(c)] = c.rip
  /\ \A k \in Saving(Q) : k <= e => mem[Slot(c) - Cell(Q, k)] = c.registers[Q[k].register]

UnsavedAt(Q, n, c, regs) ==
  \A r \in Nonvolatile : ~ IsSaved(Q, n, r) => regs[r] = c.registers[r]

FramedAt(Q, n, e, c, regs) ==
  \A k \in 1 .. e :
    Q[k].op = "SetFrame" /\ (\A j \in n + 1 .. e : Q[j].op # "Push") =>
      regs[Q[k].register] = (Slot(c) - Held(Q)[k]) + 2 * Q[k].amount

FrameAt(Q, n, e, c, at, mem) ==
  /\ n \in 0 .. e /\ e \in 0 .. Len(Q)
  /\ c.rsp \in Int /\ c.rip \in Int /\ c.registers \in Registers
  /\ at.registers \in Registers
  /\ StackAt(Q, n, c, at)
  /\ KeptAt(Q, e, c, mem)
  /\ UnsavedAt(Q, n, c, at.registers)
  /\ FramedAt(Q, n, e, c, at.registers)

\* What is known of the instruction at a place of a well-formed prologue.
LEMMA InstructionFacts ==
  ASSUME NEW Q \in Seq(Operations), WellFormed(Q), NEW n \in 1 .. Len(Q)
  PROVE  /\ Len(Q) \in Nat /\ DOMAIN Q = 1 .. Len(Q)
         /\ Q[n] \in Operations /\ Q[n].amount \in Nat
         /\ Q[n].op \in {"Push", "Allocate", "SetFrame", "Save", "SaveXmm"}
         /\ n - 1 \in 0 .. Len(Q) /\ n \in 0 .. Len(Q)
         /\ Held(Q)[n] \in Nat /\ Held(Q)[n - 1] \in Nat
         /\ Q[n].op = "Push" => Held(Q)[n] = Held(Q)[n - 1] + 1
         /\ Q[n].op = "Allocate" => Held(Q)[n] = Held(Q)[n - 1] + Q[n].amount
         /\ Q[n].op \notin {"Push", "Allocate"} => Held(Q)[n] = Held(Q)[n - 1]
         /\ n \in Saving(Q) <=> Q[n].op \in {"Push", "Save"}
         /\ n \in Saving(Q) => Q[n].register \in Nonvolatile
         /\ Q[n].op = "Push" => Cell(Q, n) = Held(Q)[n]
         /\ Q[n].op = "Save" => Cell(Q, n) = Held(Q)[n] - Q[n].amount
<1>1. /\ Len(Q) \in Nat /\ DOMAIN Q = 1 .. Len(Q) /\ Q[n] \in Operations
      /\ n - 1 \in 0 .. Len(Q) /\ n \in 0 .. Len(Q)
  BY LenProperties
<1>2. /\ Held(Q)[n] \in Nat /\ Held(Q)[n - 1] \in Nat
      /\ Held(Q)[n] = Held(Q)[n - 1] + Takes(Q[n])
  BY <1>1, HeldFacts
<1>3. /\ Q[n].amount \in Nat
      /\ Q[n].op \in {"Push", "Allocate", "SetFrame", "Save", "SaveXmm", "PushMachineFrame"}
  BY <1>1 DEF Operations
<1>4. Q[n].op # "PushMachineFrame" /\ (n \in Saving(Q) => Q[n].register \in Nonvolatile)
  BY <1>1 DEF WellFormed
<1>5. n \in Saving(Q) <=> Q[n].op \in {"Push", "Save"}
  BY <1>1 DEF Saving
<1>6. /\ Q[n].op = "Push" => Takes(Q[n]) = 1
      /\ Q[n].op = "Allocate" => Takes(Q[n]) = Q[n].amount
      /\ Q[n].op \notin {"Push", "Allocate"} => Takes(Q[n]) = 0
  BY DEF Takes
<1>7. /\ Q[n].op = "Push" => Cell(Q, n) = Held(Q)[n]
      /\ Q[n].op = "Save" => Cell(Q, n) = Held(Q)[n] - Q[n].amount
  BY DEF Cell
<1>. QED
  BY <1>1, <1>2, <1>3, <1>4, <1>5, <1>6, <1>7

\* The frame pointer: pushed before, set once, and nothing pushed behind it.
LEMMA FramePointerFacts ==
  ASSUME NEW Q \in Seq(Operations), WellFormed(Q),
         NEW k \in 1 .. Len(Q), Q[k].op = "SetFrame"
  PROVE  /\ Q[k].register \in Nonvolatile
         /\ \A j \in 1 .. Len(Q) : Q[j].op = "SetFrame" => j = k
         /\ \A j \in 1 .. Len(Q) : Q[j].op = "Push" => j < k
         /\ \A j \in 1 .. Len(Q) : Q[j].op = "Save" => Q[j].register # Q[k].register
         /\ \A n \in k .. Len(Q) : IsSaved(Q, n, Q[k].register)
<1>1. DOMAIN Q = 1 .. Len(Q) /\ Len(Q) \in Nat
  BY LenProperties
<1>2. /\ \E j \in 1 .. k - 1 : Q[j].op = "Push" /\ Q[j].register = Q[k].register
      /\ \A j \in DOMAIN Q : /\ Q[j].op = "SetFrame" => j = k
                             /\ Q[j].op = "Push" => j < k
  BY <1>1 DEF WellFormed
<1>3. PICK i \in 1 .. k - 1 : Q[i].op = "Push" /\ Q[i].register = Q[k].register
  BY <1>2
<1>4. i \in 1 .. Len(Q) /\ i <= k
  BY <1>1, <1>3
<1>5. i \in Saving(Q) /\ Q[i].register \in Nonvolatile
  BY <1>3, <1>4, InstructionFacts
<1>6. ASSUME NEW j \in 1 .. Len(Q), Q[j].op = "Save"
      PROVE  Q[j].register # Q[k].register
  <2>1. j \in Saving(Q) /\ j # i
    BY <1>3, <1>6, InstructionFacts
  <2>. QED
    BY <1>3, <1>5, <2>1 DEF WellFormed
<1>7. \A n \in k .. Len(Q) : IsSaved(Q, n, Q[k].register)
  <2>1. \A n \in k .. Len(Q) : i <= n
    BY <1>1, <1>4
  <2>. QED
    BY <1>3, <1>5, <2>1 DEF IsSaved
<1>. QED
  BY <1>1, <1>2, <1>3, <1>5, <1>6, <1>7

\* Registers are saved once, in words of their own.
LEMMA SavedOnce ==
  ASSUME NEW Q \in Seq(Operations), WellFormed(Q), NEW k \in Saving(Q), NEW j \in Saving(Q),
         j # k
  PROVE  Q[j].register # Q[k].register /\ Cell(Q, j) # Cell(Q, k)
BY DEF WellFormed

LEMMA IsSavedNext ==
  ASSUME NEW Q \in Seq(Operations), WellFormed(Q), NEW n \in 1 .. Len(Q), NEW r
  PROVE  /\ IsSaved(Q, n - 1, r) => IsSaved(Q, n, r)
         /\ IsSaved(Q, n, r) => \/ IsSaved(Q, n - 1, r)
                                \/ n \in Saving(Q) /\ Q[n].register = r
         /\ n \in Saving(Q) => ~ IsSaved(Q, n - 1, Q[n].register)
         /\ n \in Saving(Q) => IsSaved(Q, n, Q[n].register)
<1>1. \A k \in Saving(Q) : k \in 1 .. Len(Q)
  BY LenProperties DEF Saving
<1>2. Len(Q) \in Nat
  BY LenProperties
<1>3. IsSaved(Q, n - 1, r) => IsSaved(Q, n, r)
  <2>1. \A k \in Saving(Q) : k <= n - 1 => k <= n
    BY <1>1, <1>2
  <2>. QED
    BY <2>1 DEF IsSaved
<1>4. ASSUME IsSaved(Q, n, r)
      PROVE  IsSaved(Q, n - 1, r) \/ (n \in Saving(Q) /\ Q[n].register = r)
  <2>1. PICK k \in Saving(Q) : k <= n /\ Q[k].register = r
    BY <1>4 DEF IsSaved
  <2>2. k = n \/ k <= n - 1
    BY <1>1, <1>2, <2>1
  <2>. QED
    BY <2>1, <2>2 DEF IsSaved
<1>5. ASSUME n \in Saving(Q), IsSaved(Q, n - 1, Q[n].register)
      PROVE  FALSE
  <2>1. PICK k \in Saving(Q) : k <= n - 1 /\ Q[k].register = Q[n].register
    BY <1>5 DEF IsSaved
  <2>2. k # n
    BY <1>1, <1>2, <2>1
  <2>. QED
    BY <1>5, <2>1, <2>2, SavedOnce
<1>6. n \in Saving(Q) => IsSaved(Q, n, Q[n].register)
  <2>1. n <= n
    BY <1>2
  <2>. QED
    BY <2>1 DEF IsSaved
<1>. QED
  BY <1>3, <1>4, <1>5, <1>6

-----------------------------------------------------------------------------
(* The instructions of a prologue, and what undoes them.                   *)

\* Execute, as a relation between what stands before and after.
Runs(p, at, mem, at2, mem2) ==
  /\ at2.allocated = at.allocated
  /\ \/ /\ p.op = "Push"
        /\ at2.rsp = at.rsp - 1 /\ at2.registers = at.registers
        /\ mem2 = [mem EXCEPT ![at.rsp - 1] = at.registers[p.register]]
     \/ /\ p.op = "Allocate"
        /\ at2.rsp = at.rsp - p.amount /\ at2.registers = at.registers /\ mem2 = mem
     \/ /\ p.op = "SetFrame"
        /\ at2.rsp = at.rsp /\ mem2 = mem
        /\ at2.registers = [at.registers EXCEPT ![p.register] = at.rsp + 2 * p.amount]
     \/ /\ p.op = "Save"
        /\ at2.rsp = at.rsp /\ at2.registers = at.registers
        /\ mem2 = [mem EXCEPT ![(at.rsp + at.allocated) + p.amount] = at.registers[p.register]]
     \/ p.op = "SaveXmm" /\ at2.rsp = at.rsp /\ at2.registers = at.registers /\ mem2 = mem

\* The word that an instruction writes, and where.
LEMMA WordWritten ==
  ASSUME NEW Q \in Seq(Operations), WellFormed(Q), NEW n \in 1 .. Len(Q), NEW c, NEW at, NEW mem,
         FrameAt(Q, n - 1, n - 1, c, at, mem), n \in Saving(Q),
         Q[n].op = "Push" => at.rsp > 1
  PROVE  LET a == Slot(c) - Cell(Q, n)
         IN /\ a \in 1 .. StackSize /\ a < Slot(c)
            /\ Q[n].op = "Push" => a = at.rsp - 1
            /\ Q[n].op = "Save" => a = (at.rsp + at.allocated) + Q[n].amount
            /\ at.registers[Q[n].register] = c.registers[Q[n].register]
            /\ at.registers[Q[n].register] \in Int
<1> DEFINE a == Slot(c) - Cell(Q, n)
<1>1. /\ Q[n].op \in {"Push", "Save"} /\ Q[n].register \in Nonvolatile /\ Q[n].amount \in Nat
      /\ Held(Q)[n] \in Nat /\ Held(Q)[n - 1] \in Nat
      /\ Q[n].op = "Push" => Held(Q)[n] = Held(Q)[n - 1] + 1 /\ Cell(Q, n) = Held(Q)[n]
      /\ Q[n].op = "Save" => /\ Held(Q)[n] = Held(Q)[n - 1]
                             /\ Cell(Q, n) = Held(Q)[n] - Q[n].amount
  BY InstructionFacts
<1>2. /\ at.rsp \in Int /\ at.allocated \in {0, 1} /\ at.rsp > 0
      /\ at.allocated = 1 => IsFramed(Q, n - 1)
      /\ at.rsp + at.allocated = Slot(c) - Held(Q)[n - 1]
      /\ Slot(c) \in 1 .. StackSize /\ StackSize \in Nat
  BY UnwinderAssumption DEF FrameAt, StackAt
<1>3. Cell(Q, n) \in Int /\ 1 <= Cell(Q, n)
  BY CellFacts
<1>4. at.registers[Q[n].register] = c.registers[Q[n].register]
      /\ at.registers[Q[n].register] \in Int
  <2>1. ~ IsSaved(Q, n - 1, Q[n].register)
    BY IsSavedNext
  <2>2. at.registers \in Registers /\ UnsavedAt(Q, n - 1, c, at.registers)
    BY DEF FrameAt
  <2>. QED
    BY <1>1, <2>1, <2>2 DEF UnsavedAt, Registers
<1>5. CASE Q[n].op = "Push"
  <2>1. ~ IsFramed(Q, n - 1)
    <3>1. SUFFICES ASSUME NEW k \in 1 .. n - 1, Q[k].op = "SetFrame" PROVE FALSE
      BY DEF IsFramed
    <3>2. k \in 1 .. Len(Q) /\ ~(n < k)
      BY LenProperties
    <3>. QED
      BY <1>5, <3>1, <3>2, FramePointerFacts
  <2>2. at.allocated = 0
    BY <1>2, <2>1
  <2>3. a = at.rsp - 1 /\ at.rsp > 1
    <3>1. at.rsp + 0 = Slot(c) - Held(Q)[n - 1] /\ Cell(Q, n) = Held(Q)[n - 1] + 1
      BY <1>1, <1>2, <1>5, <2>2
    <3>2. Slot(c) \in Int /\ Held(Q)[n - 1] \in Int /\ at.rsp \in Int
      BY <1>1, <1>2
    <3>. QED
      BY <1>5, <3>1, <3>2
  <2>4. a \in 1 .. StackSize /\ a < Slot(c)
    BY <1>2, <1>3, <2>3
  <2>. QED
    BY <1>4, <1>5, <2>3, <2>4
<1>6. CASE Q[n].op = "Save"
  <2>1. a = (at.rsp + at.allocated) + Q[n].amount
    BY <1>1, <1>2, <1>6
  <2>2. a > 0
    <3> DEFINE top == at.rsp
               further == at.allocated
               offset == Q[n].amount
    <3>1. top \in Int /\ top > 0 /\ further \in {0, 1} /\ offset \in Nat
      BY <1>1, <1>2
    <3>2. a = (top + further) + offset
      BY <2>1
    <3>. HIDE DEF top, further, offset, a
    <3>. QED
      BY <3>1, <3>2
  <2>3. a \in 1 .. StackSize /\ a < Slot(c)
    <3> DEFINE below == Cell(Q, n)
               slot == Slot(c)
    <3>1. /\ below \in Int /\ 1 <= below /\ slot - below > 0
          /\ slot \in 1 .. StackSize /\ StackSize \in Nat
      BY <1>2, <1>3, <2>2
    <3>. SUFFICES slot - below \in 1 .. StackSize /\ slot - below < slot
      OBVIOUS
    <3>. HIDE DEF below, slot
    <3>. QED
      BY <3>1
  <2>. QED
    BY <1>4, <1>6, <2>1, <2>3
<1>. QED
  BY <1>1, <1>5, <1>6

\* Instruction n of a prologue runs.
Proceeds(Q, n, c, at, mem, at2, mem2) ==
  /\ Q \in Seq(Operations) /\ WellFormed(Q) /\ n \in 1 .. Len(Q)
  /\ FrameAt(Q, n - 1, n - 1, c, at, mem) /\ Runs(Q[n], at, mem, at2, mem2) /\ at2.rsp > 0

\* The call from c can still be returned from after the next instruction, and
\* what stands above it is left alone.
LEMMA PrologueRuns ==
  ASSUME NEW Q, NEW n, NEW c, NEW at, NEW mem, NEW at2, NEW mem2,
         Proceeds(Q, n, c, at, mem, at2, mem2)
  PROVE  /\ FrameAt(Q, n, n, c, at2, mem2)
         /\ \A a \in 1 .. StackSize : Slot(c) <= a => mem2[a] = mem[a]
<1> DEFINE p == Q[n]
           h == Held(Q)
           cell == Slot(c) - Cell(Q, n)
<1>0. /\ Q \in Seq(Operations) /\ WellFormed(Q) /\ n \in 1 .. Len(Q)
      /\ FrameAt(Q, n - 1, n - 1, c, at, mem) /\ Runs(Q[n], at, mem, at2, mem2) /\ at2.rsp > 0
  BY DEF Proceeds
<1>. USE <1>0
<1>1. /\ Len(Q) \in Nat /\ p \in Operations /\ p.amount \in Nat
      /\ p.op \in {"Push", "Allocate", "SetFrame", "Save", "SaveXmm"}
      /\ n \in 0 .. Len(Q) /\ n \in 0 .. n /\ n \in 1 .. n /\ h[n] \in Nat /\ h[n - 1] \in Nat
      /\ p.op = "Push" => h[n] = h[n - 1] + 1
      /\ p.op = "Allocate" => h[n] = h[n - 1] + p.amount
      /\ p.op \notin {"Push", "Allocate"} => h[n] = h[n - 1]
      /\ n \in Saving(Q) <=> p.op \in {"Push", "Save"}
  BY InstructionFacts
<1>2. /\ c.rsp \in Int /\ c.rip \in Int /\ c.registers \in Registers
      /\ at.registers \in Registers
      /\ at.rsp \in Int /\ at.allocated \in {0, 1} /\ at.rsp > 0
      /\ at.allocated = 1 => IsFramed(Q, n - 1)
      /\ at.rsp + at.allocated = Slot(c) - h[n - 1]
      /\ Slot(c) \in 1 .. StackSize /\ StackSize \in Nat
      /\ KeptAt(Q, n - 1, c, mem)
      /\ UnsavedAt(Q, n - 1, c, at.registers)
      /\ FramedAt(Q, n - 1, n - 1, c, at.registers)
  BY UnwinderAssumption DEF FrameAt, StackAt
<1>3. p.op = "Push" => at.rsp > 1
  BY <1>2 DEF Runs
<1>4. n \in Saving(Q) =>
        /\ cell \in 1 .. StackSize /\ cell < Slot(c)
        /\ mem2 = [mem EXCEPT ![cell] = c.registers[p.register]]
        /\ c.registers[p.register] \in Int
  <2>1. SUFFICES ASSUME n \in Saving(Q)
                 PROVE  /\ cell \in 1 .. StackSize /\ cell < Slot(c)
                        /\ mem2 = [mem EXCEPT ![cell] = c.registers[p.register]]
                        /\ c.registers[p.register] \in Int
    OBVIOUS
  <2>2. /\ cell \in 1 .. StackSize /\ cell < Slot(c)
        /\ p.op = "Push" => cell = at.rsp - 1
        /\ p.op = "Save" => cell = (at.rsp + at.allocated) + p.amount
        /\ at.registers[p.register] = c.registers[p.register]
        /\ at.registers[p.register] \in Int
    BY <1>3, <2>1, WordWritten
  <2>3. p.op \in {"Push", "Save"}
    BY <1>1, <2>1
  <2>. HIDE DEF cell, p
  <2>4. mem2 = [mem EXCEPT ![cell] = at.registers[p.register]]
    BY <2>2, <2>3 DEF Runs, p
  <2>. QED
    BY <2>2, <2>4
<1>5. n \notin Saving(Q) => mem2 = mem
  BY <1>1 DEF Runs
<1>6. mem \in Memories
  BY <1>2 DEF KeptAt
<1>7. \A a \in 1 .. StackSize : Slot(c) <= a => mem2[a] = mem[a]
  <2>1. CASE n \in Saving(Q)
    <3>1. \A a \in 1 .. StackSize : Slot(c) <= a => a # cell
      BY <1>2, <1>4, <2>1
    <3>. HIDE DEF cell, p
    <3>. QED
      BY <1>4, <1>6, <2>1, <3>1 DEF Memories
  <2>2. CASE n \notin Saving(Q)
    BY <1>5, <2>2
  <2>. QED
    BY <2>1, <2>2
<1>8. KeptAt(Q, n, c, mem2)
  <2>1. mem2 \in Memories
    <3>1. CASE n \in Saving(Q)
      <4>. HIDE DEF cell, p
      <4>. QED
        BY <1>4, <1>6, <3>1 DEF Memories
    <3>2. CASE n \notin Saving(Q)
      BY <1>5, <1>6, <3>2
    <3>. QED
      BY <3>1, <3>2
  <2>2. mem2[Slot(c)] = c.rip
    <3>1. Slot(c) <= Slot(c)
      BY <1>2
    <3>. QED
      BY <1>2, <1>7, <3>1 DEF KeptAt
  <2>3. ASSUME NEW k \in Saving(Q), k <= n
        PROVE  mem2[Slot(c) - Cell(Q, k)] = c.registers[Q[k].register]
    <3>1. CASE k = n
      <4>1. mem2[cell] = c.registers[p.register]
        <5>. HIDE DEF cell, p
        <5>. QED
          BY <1>4, <1>6, <2>3, <3>1 DEF Memories
      <4>. QED
        BY <3>1, <4>1
    <3>2. CASE k # n
      <4>1. k \in 1 .. Len(Q) /\ k <= n - 1
        BY <1>1, <2>3, <3>2, CellFacts
      <4>2. mem[Slot(c) - Cell(Q, k)] = c.registers[Q[k].register]
        BY <1>2, <4>1 DEF KeptAt
      <4>3. CASE n \in Saving(Q)
        <5>1. Cell(Q, k) # Cell(Q, n) /\ Cell(Q, k) \in Int /\ Cell(Q, n) \in Int
          BY <3>2, <4>3, SavedOnce, CellFacts
        <5>2. Slot(c) - Cell(Q, k) # cell
          BY <1>2, <5>1
        <5>3. mem2 = [mem EXCEPT ![cell] = c.registers[p.register]]
          BY <1>4, <4>3
        <5>. HIDE DEF cell, p
        <5>. QED
          <6>1. mem2[Slot(c) - Cell(Q, k)] = mem[Slot(c) - Cell(Q, k)]
            <7>1. \A m \in Memories : \A x, v, y : x # y => [m EXCEPT ![x] = v][y] = m[y]
              BY DEF Memories
            <7>. QED
              BY <1>6, <5>2, <5>3, <7>1
          <6>. QED
            BY <4>2, <6>1
      <4>4. CASE n \notin Saving(Q)
        BY <1>5, <4>2, <4>4
      <4>. QED
        BY <4>3, <4>4
    <3>. QED
      BY <3>1, <3>2
  <2>. QED
    BY <2>1, <2>2, <2>3 DEF KeptAt
<1>9. ASSUME p.op = "SetFrame"
      PROVE  /\ at.allocated = 0 /\ p.register \in Nonvolatile
             /\ IsSaved(Q, n, p.register)
             /\ \A k \in 1 .. Len(Q) : Q[k].op = "SetFrame" => k = n
  <2>1. /\ p.register \in Nonvolatile
        /\ \A k \in 1 .. Len(Q) : Q[k].op = "SetFrame" => k = n
        /\ IsSaved(Q, n, p.register)
    <3>1. n \in n .. Len(Q)
      BY <1>1
    <3>. QED
      BY <1>9, <3>1, FramePointerFacts
  <2>2. ~ IsFramed(Q, n - 1)
    <3>1. \A k \in 1 .. n - 1 : k \in 1 .. Len(Q) /\ k # n
      BY <1>1
    <3>. QED
      BY <2>1, <3>1 DEF IsFramed
  <2>. QED
    BY <1>2, <2>1, <2>2
<1>10. IsFramed(Q, n - 1) => IsFramed(Q, n)
  <2>1. \A k \in 1 .. n - 1 : k \in 1 .. n
    BY <1>1
  <2>. QED
    BY <2>1 DEF IsFramed
<1>11. StackAt(Q, n, c, at2)
  <2>1. at2.allocated = at.allocated
    BY DEF Runs
  <2>2. at2.rsp \in Int /\ at2.rsp + at2.allocated = Slot(c) - h[n]
    <3>0. /\ at.rsp \in Int /\ at.allocated \in Int /\ Slot(c) \in Int /\ h[n - 1] \in Int
          /\ at.rsp + at.allocated = Slot(c) - h[n - 1]
      BY <1>1, <1>2
    <3>4. ASSUME NEW y \in Int, at2.rsp = at.rsp - y, h[n] = h[n - 1] + y
          PROVE  at2.rsp \in Int /\ at2.rsp + at2.allocated = Slot(c) - h[n]
      <4>. HIDE DEF h
      <4>1. (at.rsp - y) + at.allocated = Slot(c) - (h[n - 1] + y)
        <5> DEFINE before == h[n - 1]
                   x == at.rsp
                   w == at.allocated
                   slot == Slot(c)
        <5>1. /\ before \in Int /\ x \in Int /\ w \in Int /\ slot \in Int
              /\ x + w = slot - before
          BY <3>0
        <5>. SUFFICES (x - y) + w = slot - (before + y)
          OBVIOUS
        <5>. HIDE DEF before, x, w, slot
        <5>. QED
          BY <5>1
      <4>. QED
        BY <2>1, <3>0, <3>4, <4>1
    <3>1. CASE p.op = "Push"
      <4>1. at2.rsp = at.rsp - 1 /\ h[n] = h[n - 1] + 1
        BY <1>1, <3>1 DEF Runs
      <4>. QED
        BY <3>4, <4>1
    <3>2. CASE p.op = "Allocate"
      <4>1. /\ at2.rsp = at.rsp - p.amount /\ h[n] = h[n - 1] + p.amount
            /\ p.amount \in Int
        BY <1>1, <3>2 DEF Runs
      <4>. QED
        BY <3>4, <4>1
    <3>3. CASE p.op \notin {"Push", "Allocate"}
      <4>1. at2.rsp = at.rsp
        BY <3>3 DEF Runs
      <4>. QED
        BY <1>1, <1>2, <2>1, <3>3, <4>1
    <3>. QED
      BY <3>1, <3>2, <3>3
  <2>. QED
    BY <1>2, <1>10, <2>1, <2>2 DEF StackAt
<1>12. at2.registers \in Registers
  <2>1. CASE p.op = "SetFrame"
    <3>1. at2.registers = [at.registers EXCEPT ![p.register] = at.rsp + 2 * p.amount]
      BY <2>1 DEF Runs
    <3>2. at.rsp + 2 * p.amount \in Int
      BY <1>1, <1>2, SMTT(30)
    <3>. QED
      BY <1>2, <3>1, <3>2 DEF Registers
  <2>2. CASE p.op # "SetFrame"
    BY <1>2, <2>2 DEF Runs
  <2>. QED
    BY <2>1, <2>2
<1>13. UnsavedAt(Q, n, c, at2.registers)
  <2>1. ASSUME NEW r \in Nonvolatile, ~ IsSaved(Q, n, r)
        PROVE  at2.registers[r] = c.registers[r]
    <3>1. ~ IsSaved(Q, n - 1, r)
      BY <2>1, IsSavedNext
    <3>2. at.registers[r] = c.registers[r]
      BY <1>2, <3>1 DEF UnsavedAt
    <3>3. CASE p.op = "SetFrame"
      <4>1. at2.registers = [at.registers EXCEPT ![p.register] = at.rsp + 2 * p.amount]
        BY <3>3 DEF Runs
      <4>2. r # p.register
        BY <1>9, <2>1, <3>3
      <4>. QED
        BY <1>2, <3>2, <4>1, <4>2 DEF Registers
    <3>4. CASE p.op # "SetFrame"
      <4>1. at2.registers = at.registers
        BY <3>4 DEF Runs
      <4>. QED
        BY <3>2, <4>1
    <3>. QED
      BY <3>3, <3>4
  <2>. QED
    BY <2>1 DEF UnsavedAt
<1>14. FramedAt(Q, n, n, c, at2.registers)
  <2>1. ASSUME NEW k \in 1 .. n, Q[k].op = "SetFrame"
        PROVE  at2.registers[Q[k].register] = (Slot(c) - h[k]) + 2 * Q[k].amount
    <3>1. k \in 1 .. Len(Q)
      BY <1>1
    <3>2. CASE k = n
      <4>1. at2.registers = [at.registers EXCEPT ![p.register] = at.rsp + 2 * p.amount]
        BY <2>1, <3>2 DEF Runs
      <4>2. p.register \in Nonvolatile /\ at.allocated = 0
        BY <1>9, <2>1, <3>2
      <4>3. at2.registers[p.register] = at.rsp + 2 * p.amount
        BY <1>2, <4>1, <4>2 DEF Registers
      <4>4. at.rsp = Slot(c) - h[n]
        BY <1>1, <1>2, <2>1, <3>2, <4>2
      <4>. QED
        BY <3>2, <4>3, <4>4
    <3>3. CASE k # n
      <4>1. k \in 1 .. n - 1
        BY <1>1, <3>3
      <4>2. p.op # "SetFrame"
        BY <1>9, <2>1, <3>1, <3>3
      <4>3. at2.registers = at.registers
        BY <4>2 DEF Runs
      <4>4. \A j \in (n - 1) + 1 .. n - 1 : Q[j].op # "Push"
        BY <1>1
      <4>. QED
        BY <1>2, <2>1, <4>1, <4>3, <4>4 DEF FramedAt
    <3>. QED
      BY <3>2, <3>3
  <2>. QED
    BY <2>1 DEF FramedAt
<1>15. FrameAt(Q, n, n, c, at2, mem2)
  BY <1>1, <1>2, <1>8, <1>11, <1>12, <1>13, <1>14 DEF FrameAt
<1>. QED
  BY <1>7, <1>15

\* Revert, and with it allocated, as a relation.
Reverts(p, at, mem, at2) ==
  \/ /\ p.op = "Push"
     /\ at2.rsp = at.rsp + 1 /\ at2.allocated = at.allocated
     /\ at2.registers = [at.registers EXCEPT ![p.register] = mem[at.rsp]]
  \/ /\ p.op = "Allocate"
     /\ at2.rsp = at.rsp + p.amount /\ at2.allocated = at.allocated
     /\ at2.registers = at.registers
  \/ /\ p.op = "SetFrame"
     /\ at2.rsp = at.registers[p.register] - 2 * p.amount /\ at2.allocated = 0
     /\ at2.registers = at.registers
  \/ /\ p.op = "Save"
     /\ at2.rsp = at.rsp /\ at2.allocated = at.allocated
     /\ at2.registers = [at.registers EXCEPT
                           ![p.register] = mem[(at.rsp + at.allocated) + p.amount]]
  \/ /\ p.op = "SaveXmm"
     /\ at2.rsp = at.rsp /\ at2.allocated = at.allocated /\ at2.registers = at.registers

\* The register that an instruction has saved is read from the word it is in.
LEMMA WordRead ==
  ASSUME NEW Q \in Seq(Operations), WellFormed(Q), NEW n \in 1 .. Len(Q), NEW e \in n .. Len(Q),
         NEW c, NEW at, NEW mem, StackAt(Q, n, c, at), KeptAt(Q, e, c, mem), n \in Saving(Q)
  PROVE  /\ mem[Slot(c) - Cell(Q, n)] = c.registers[Q[n].register]
         /\ Q[n].op = "Push" => at.allocated = 0 /\ at.rsp = Slot(c) - Cell(Q, n)
         /\ Q[n].op = "Save" =>
              (at.rsp + at.allocated) + Q[n].amount = Slot(c) - Cell(Q, n)
<1>1. /\ Q[n].op \in {"Push", "Save"} /\ Q[n].register \in Nonvolatile /\ Q[n].amount \in Nat
      /\ Held(Q)[n] \in Nat
      /\ Q[n].op = "Push" => Cell(Q, n) = Held(Q)[n]
      /\ Q[n].op = "Save" => Cell(Q, n) = Held(Q)[n] - Q[n].amount
  BY InstructionFacts
<1>2. /\ at.rsp \in Int /\ at.allocated \in {0, 1} /\ at.rsp > 0
      /\ at.allocated = 1 => IsFramed(Q, n)
      /\ at.rsp + at.allocated = Slot(c) - Held(Q)[n]
      /\ Slot(c) \in Int
  BY DEF StackAt
<1>3. n <= e
  BY LenProperties
<1>4. mem[Slot(c) - Cell(Q, n)] = c.registers[Q[n].register]
  BY <1>3 DEF KeptAt
<1>5. ASSUME Q[n].op = "Push"
      PROVE  at.allocated = 0 /\ at.rsp = Slot(c) - Cell(Q, n)
  <2>1. ~ IsFramed(Q, n)
    <3>1. SUFFICES ASSUME NEW k \in 1 .. n, Q[k].op = "SetFrame" PROVE FALSE
      BY DEF IsFramed
    <3>2. k \in 1 .. Len(Q) /\ ~(n < k)
      BY LenProperties
    <3>. QED
      BY <1>5, <3>1, <3>2, FramePointerFacts
  <2>2. at.allocated = 0
    BY <1>2, <2>1
  <2>. QED
    BY <1>1, <1>2, <1>5, <2>2
<1>6. ASSUME Q[n].op = "Save"
      PROVE  (at.rsp + at.allocated) + Q[n].amount = Slot(c) - Cell(Q, n)
  BY <1>1, <1>2, <1>6
<1>. QED
  BY <1>4, <1>5, <1>6

LEMMA PrologueReverts ==
  ASSUME NEW Q \in Seq(Operations), WellFormed(Q), NEW n \in 1 .. Len(Q), NEW e \in n .. Len(Q),
         NEW c, NEW at, NEW mem, NEW at2,
         FrameAt(Q, n, e, c, at, mem), Reverts(Q[n], at, mem, at2)
  PROVE  FrameAt(Q, n - 1, e, c, at2, mem)
<1> DEFINE p == Q[n]
           h == Held(Q)
           before == h[n - 1]
           cell == Slot(c) - Cell(Q, n)
<1>1. /\ Len(Q) \in Nat /\ p \in Operations /\ p.amount \in Nat
      /\ p.op \in {"Push", "Allocate", "SetFrame", "Save", "SaveXmm"}
      /\ h[n] \in Nat /\ before \in Nat
      /\ p.op = "Push" => h[n] = before + 1
      /\ p.op = "Allocate" => h[n] = before + p.amount
      /\ p.op \notin {"Push", "Allocate"} => h[n] = before
      /\ n \in Saving(Q) <=> p.op \in {"Push", "Save"}
      /\ n \in Saving(Q) => p.register \in Nonvolatile
  BY InstructionFacts
<1>2. /\ c.rsp \in Int /\ c.rip \in Int /\ c.registers \in Registers
      /\ at.registers \in Registers
      /\ at.rsp \in Int /\ at.allocated \in {0, 1} /\ at.rsp > 0
      /\ at.allocated = 1 => IsFramed(Q, n)
      /\ at.rsp + at.allocated = Slot(c) - h[n]
      /\ Slot(c) \in 1 .. StackSize /\ StackSize \in Nat
      /\ StackAt(Q, n, c, at)
      /\ KeptAt(Q, e, c, mem)
      /\ UnsavedAt(Q, n, c, at.registers)
      /\ FramedAt(Q, n, e, c, at.registers)
  BY UnwinderAssumption DEF FrameAt, StackAt
<1>3. n \in Nat /\ n - 1 \in 0 .. e /\ e \in 0 .. Len(Q) /\ e \in Nat
  BY <1>1
<1>4. n \in Saving(Q) =>
        /\ mem[cell] = c.registers[p.register]
        /\ p.op = "Push" => at.allocated = 0 /\ at.rsp = cell
        /\ p.op = "Save" => (at.rsp + at.allocated) + p.amount = cell
  BY <1>2, WordRead
<1>5. n \in Saving(Q) =>
        at2.registers = [at.registers EXCEPT ![p.register] = c.registers[p.register]]
  <2>1. CASE p.op = "Push"
    <3>1. at2.registers = [at.registers EXCEPT ![p.register] = mem[at.rsp]]
      BY <2>1 DEF Reverts
    <3>2. mem[at.rsp] = c.registers[p.register]
      BY <1>1, <1>4, <2>1
    <3>. QED
      BY <3>1, <3>2
  <2>2. CASE p.op = "Save"
    <3>1. at2.registers = [at.registers EXCEPT
                             ![p.register] = mem[(at.rsp + at.allocated) + p.amount]]
      BY <2>2 DEF Reverts
    <3>2. mem[(at.rsp + at.allocated) + p.amount] = c.registers[p.register]
      BY <1>1, <1>4, <2>2
    <3>. QED
      BY <3>1, <3>2
  <2>. QED
    BY <1>1, <2>1, <2>2
<1>6. n \notin Saving(Q) => at2.registers = at.registers
  BY <1>1 DEF Reverts
<1>7. at2.registers \in Registers
  <2>1. CASE n \in Saving(Q)
    <3>1. p.register \in Nonvolatile /\ c.registers[p.register] \in Int
      BY <1>1, <1>2, <2>1 DEF Registers
    <3>. QED
      BY <1>2, <1>5, <2>1, <3>1 DEF Registers
  <2>2. CASE n \notin Saving(Q)
    BY <1>2, <1>6, <2>2
  <2>. QED
    BY <2>1, <2>2
<1>8. ASSUME p.op = "SetFrame"
      PROVE  at.registers[p.register] = (Slot(c) - before) + 2 * p.amount
  <2>1. \A j \in n + 1 .. e : Q[j].op # "Push"
    <3>1. \A j \in n + 1 .. e : j \in 1 .. Len(Q) /\ ~(j < n)
      BY <1>1, <1>3
    <3>. QED
      BY <1>8, <3>1, FramePointerFacts
  <2>2. n \in 1 .. e
    BY <1>3
  <2>3. at.registers[p.register] = (Slot(c) - h[n]) + 2 * p.amount
    BY <1>2, <1>8, <2>1, <2>2 DEF FramedAt
  <2>. QED
    BY <1>1, <1>8, <2>3
<1>9. StackAt(Q, n - 1, c, at2)
  <2>. HIDE DEF before
  <2>1. CASE p.op = "SetFrame"
    <3>1. at2.rsp = at.registers[p.register] - 2 * p.amount /\ at2.allocated = 0
      BY <2>1 DEF Reverts
    <3>2. at2.rsp = Slot(c) - before /\ at2.rsp \in Int
      <4>1. at.registers[p.register] = (Slot(c) - before) + 2 * p.amount
        BY <1>8, <2>1
      <4>2. Slot(c) \in Int /\ before \in Int /\ p.amount \in Int
        BY <1>1, <1>2
      <4>. HIDE DEF p
      <4>. QED
        BY <3>1, <4>1, <4>2
    <3>3. at2.rsp > 0
      <4>1. h[n] = before
        BY <1>1, <2>1
      <4>. HIDE DEF h
      <4>. QED
        BY <1>1, <1>2, <3>2, <4>1
    <3>. QED
      BY <1>2, <3>1, <3>2, <3>3 DEF StackAt, before
  <2>2. CASE p.op # "SetFrame"
    <3>1. at2.allocated = at.allocated
      BY <1>1, <2>2 DEF Reverts
    <3>2. IsFramed(Q, n) => IsFramed(Q, n - 1)
      <4>1. \A k \in 1 .. n : k # n => k \in 1 .. n - 1
        BY <1>3
      <4>. QED
        BY <2>2, <4>1 DEF IsFramed
    <3>3. ASSUME NEW y \in Nat, at2.rsp = at.rsp + y, h[n] = before + y
          PROVE  at2.rsp \in Int /\ at2.rsp + at2.allocated = Slot(c) - before /\ at2.rsp > 0
      <4>. HIDE DEF h
      <4>1. (at.rsp + y) + at.allocated = Slot(c) - before
        <5> DEFINE now == h[n]
                   x == at.rsp
                   w == at.allocated
                   slot == Slot(c)
        <5>1. /\ now = before + y /\ before \in Int /\ slot \in Int
              /\ x \in Int /\ w \in Int /\ y \in Int
              /\ x + w = slot - now
          BY <1>1, <1>2, <3>3
        <5>. SUFFICES (x + y) + w = slot - before
          OBVIOUS
        <5>. HIDE DEF now, x, w, slot, before
        <5>. QED
          BY <5>1
      <4>. QED
        BY <1>2, <3>1, <3>3, <4>1
    <3>4. at2.rsp \in Int /\ at2.rsp + at2.allocated = Slot(c) - before /\ at2.rsp > 0
      <4>1. CASE p.op = "Push"
        <5>1. at2.rsp = at.rsp + 1 /\ h[n] = before + 1
          BY <1>1, <4>1 DEF Reverts
        <5>. QED
          BY <3>3, <5>1
      <4>2. CASE p.op = "Allocate"
        <5>1. at2.rsp = at.rsp + p.amount /\ h[n] = before + p.amount /\ p.amount \in Nat
          BY <1>1, <4>2 DEF Reverts
        <5>. QED
          BY <3>3, <5>1
      <4>3. CASE p.op \in {"Save", "SaveXmm"}
        <5>1. at2.rsp = at.rsp + 0 /\ h[n] = before + 0
          <6>1. at2.rsp = at.rsp /\ h[n] = before
            BY <1>1, <4>3 DEF Reverts
          <6>. QED
            BY <1>1, <1>2, <6>1
        <5>. QED
          BY <3>3, <5>1
      <4>. QED
        BY <1>1, <2>2, <4>1, <4>2, <4>3
    <3>. QED
      BY <1>2, <3>1, <3>2, <3>4 DEF StackAt, before
  <2>. QED
    BY <2>1, <2>2
<1>10. UnsavedAt(Q, n - 1, c, at2.registers)
  <2>1. ASSUME NEW r \in Nonvolatile, ~ IsSaved(Q, n - 1, r)
        PROVE  at2.registers[r] = c.registers[r]
    <3>1. CASE n \in Saving(Q)
      <4>1. at2.registers = [at.registers EXCEPT ![p.register] = c.registers[p.register]]
        BY <1>5, <3>1
      <4>2. r # p.register => at.registers[r] = c.registers[r]
        <5>1. r # p.register => ~ IsSaved(Q, n, r)
          BY <2>1, IsSavedNext
        <5>. QED
          BY <1>2, <5>1 DEF UnsavedAt
      <4>. HIDE DEF p
      <4>. QED
        BY <1>2, <4>1, <4>2 DEF Registers
    <3>2. CASE n \notin Saving(Q)
      <4>1. ~ IsSaved(Q, n, r)
        BY <2>1, <3>2, IsSavedNext
      <4>. QED
        BY <1>2, <1>6, <3>2, <4>1 DEF UnsavedAt
    <3>. QED
      BY <3>1, <3>2
  <2>. QED
    BY <2>1 DEF UnsavedAt
<1>11. FramedAt(Q, n - 1, e, c, at2.registers)
  <2>1. ASSUME NEW k \in 1 .. e, Q[k].op = "SetFrame",
               \A j \in (n - 1) + 1 .. e : Q[j].op # "Push"
        PROVE  at2.registers[Q[k].register] = (Slot(c) - h[k]) + 2 * Q[k].amount
    <3>1. n \in (n - 1) + 1 .. e /\ k \in 1 .. Len(Q)
          /\ \A j \in n + 1 .. e : j \in (n - 1) + 1 .. e
      BY <1>1, <1>3
    <3>2. p.op # "Push" /\ \A j \in n + 1 .. e : Q[j].op # "Push"
      BY <2>1, <3>1
    <3>3. at.registers[Q[k].register] = (Slot(c) - h[k]) + 2 * Q[k].amount
      BY <1>2, <2>1, <3>2 DEF FramedAt
    <3>4. at2.registers[Q[k].register] = at.registers[Q[k].register]
      <4>1. CASE n \in Saving(Q)
        <5>1. p.op = "Save"
          BY <1>1, <3>2, <4>1
        <5>2. p.register # Q[k].register /\ Q[k].register \in Nonvolatile
          BY <2>1, <3>1, <5>1, FramePointerFacts
        <5>3. at2.registers = [at.registers EXCEPT ![p.register] = c.registers[p.register]]
          BY <1>5, <4>1
        <5>. HIDE DEF p
        <5>. QED
          BY <1>2, <5>2, <5>3 DEF Registers
      <4>2. CASE n \notin Saving(Q)
        BY <1>6, <4>2
      <4>. QED
        BY <4>1, <4>2
    <3>. QED
      BY <3>3, <3>4
  <2>. QED
    BY <2>1 DEF FramedAt
<1>. QED
  BY <1>2, <1>3, <1>7, <1>9, <1>10, <1>11 DEF FrameAt

-----------------------------------------------------------------------------
(* What else happens to a call: segments, bodies, calls and returns.       *)

\* The frame of a segment's parent is that of the segment up to its beginning.
LEMMA FrameOfParent ==
  ASSUME NEW Q \in Seq(Operations), NEW P \in Seq(Operations),
         NEW e \in 0 .. Len(Q), NEW n \in 0 .. e, NEW c, NEW at, NEW mem
  PROVE  FrameAt(Q \o P, n, e, c, at, mem) <=> FrameAt(Q, n, e, c, at, mem)
<1> DEFINE R == Q \o P
<1>1. /\ Len(Q) \in Nat /\ Len(P) \in Nat /\ Len(R) = Len(Q) + Len(P)
      /\ e \in 0 .. Len(R) /\ n \in 0 .. Len(Q)
  BY Beginning, LenProperties
<1>2. /\ \A k \in 1 .. Len(Q) : /\ R[k] = Q[k]
                                /\ k \in Saving(R) <=> k \in Saving(Q)
                                /\ Cell(R, k) = Cell(Q, k)
      /\ \A k \in 0 .. Len(Q) : Held(R)[k] = Held(Q)[k]
  BY Beginning, HeldBefore
<1>3. /\ \A k \in Saving(R) : k \in 1 .. Len(R) /\ k \in Int
      /\ \A k \in Saving(Q) : k \in 1 .. Len(Q) /\ k \in Int
  <2>1. R \in Seq(Operations)
    BY Beginning
  <2>. QED
    BY <2>1, LenProperties DEF Saving
<1>4. /\ \A k \in Saving(R) : k <= e => k \in Saving(Q) /\ k \in 1 .. Len(Q)
      /\ \A k \in Saving(Q) : k \in Saving(R) /\ k \in 1 .. Len(Q)
  <2>1. \A k \in Saving(R) : k <= e => k \in 1 .. Len(Q)
    BY <1>1, <1>3
  <2>. QED
    BY <1>2, <1>3, <2>1
<1>5. \A k \in 1 .. e : k \in 1 .. Len(Q)
  BY <1>1
<1>6. \A k \in 1 .. n : k \in 1 .. Len(Q)
  BY <1>1
<1>7. IsFramed(R, n) <=> IsFramed(Q, n)
  BY <1>2, <1>6 DEF IsFramed
<1>8. StackAt(R, n, c, at) <=> StackAt(Q, n, c, at)
  BY <1>1, <1>2, <1>7 DEF StackAt
<1>9. KeptAt(R, e, c, mem) <=> KeptAt(Q, e, c, mem)
  <2>. HIDE DEF R
  <2>1. \A k \in Saving(R) : k <= e => Cell(R, k) = Cell(Q, k) /\ R[k] = Q[k]
    BY <1>2, <1>4
  <2>. QED
    BY <1>2, <1>4, <2>1 DEF KeptAt
<1>10. \A r : IsSaved(R, n, r) <=> IsSaved(Q, n, r)
  <2>1. \A k \in Saving(R) : k <= n => k \in Saving(Q) /\ R[k] = Q[k]
    <3>1. \A k \in Saving(R) : k <= n => k <= e
      BY <1>1, <1>3
    <3>. QED
      BY <1>2, <1>4, <3>1
  <2>2. \A k \in Saving(Q) : k \in Saving(R) /\ R[k] = Q[k]
    BY <1>2, <1>4
  <2>. HIDE DEF R
  <2>. QED
    BY <2>1, <2>2 DEF IsSaved
<1>11. UnsavedAt(R, n, c, at.registers) <=> UnsavedAt(Q, n, c, at.registers)
  BY <1>10 DEF UnsavedAt
<1>12. FramedAt(R, n, e, c, at.registers) <=> FramedAt(Q, n, e, c, at.registers)
  <2>1. \A j \in n + 1 .. e : j \in 1 .. Len(Q)
    BY <1>1
  <2>2. \A j \in n + 1 .. e : R[j] = Q[j]
    BY <1>2, <2>1
  <2>3. \A k \in 1 .. e : R[k] = Q[k] /\ Held(R)[k] = Held(Q)[k]
    <3>1. \A k \in 1 .. e : k \in 0 .. Len(Q)
      BY <1>1
    <3>. QED
      BY <1>2, <1>5, <3>1
  <2>. HIDE DEF R
  <2>. QED
    BY <2>2, <2>3, SMTT(30) DEF FramedAt
<1>. QED
  BY <1>1, <1>8, <1>9, <1>11, <1>12 DEF FrameAt

\* A segment that has undone what it did leaves its parent's frame.
LEMMA SegmentLeaves ==
  ASSUME NEW Q \in Seq(Operations), NEW P \in Seq(Operations),
         \A k \in DOMAIN P : P[k].op \in {"Save", "SaveXmm"},
         NEW c, NEW at, NEW mem,
         FrameAt(Q \o P, Len(Q), Len(Q \o P), c, at, mem)
  PROVE  FrameAt(Q, Len(Q), Len(Q), c, at, mem)
<1> DEFINE R == Q \o P
           n == Len(Q)
           e == Len(R)
<1>1. /\ n \in Nat /\ Len(P) \in Nat /\ e = n + Len(P) /\ DOMAIN P = 1 .. Len(P)
      /\ \A k \in 1 .. Len(P) : R[n + k] = P[k]
  BY Beginning, LenProperties
<1>2. \A j \in n + 1 .. e : R[j].op # "Push"
  <2>1. ASSUME NEW j \in n + 1 .. e PROVE R[j].op # "Push"
    <3>1. j - n \in 1 .. Len(P) /\ n + (j - n) = j
      BY <1>1
    <3>2. R[j] = P[j - n]
      BY <1>1, <3>1
    <3>. QED
      BY <1>1, <3>1, <3>2
  <2>. QED
    BY <2>1
<1>3. /\ c.rsp \in Int /\ c.rip \in Int /\ c.registers \in Registers
      /\ at.registers \in Registers
      /\ StackAt(R, n, c, at) /\ KeptAt(R, e, c, mem)
      /\ UnsavedAt(R, n, c, at.registers) /\ FramedAt(R, n, e, c, at.registers)
  BY DEF FrameAt
<1>4. KeptAt(R, n, c, mem)
  <2>1. \A k \in Saving(R) : k \in Int
    BY Beginning, LenProperties DEF Saving
  <2>2. \A k \in Saving(R) : k <= n => k <= e
    BY <1>1, <2>1
  <2>. HIDE DEF R
  <2>. QED
    BY <1>3, <2>2 DEF KeptAt
<1>5. FramedAt(R, n, n, c, at.registers)
  <2>1. \A k \in 1 .. n : k \in 1 .. e
    BY <1>1
  <2>. HIDE DEF R
  <2>. QED
    BY <1>2, <1>3, <2>1 DEF FramedAt
<1>6. n \in 0 .. n /\ n \in 0 .. e /\ n \in 0 .. Len(Q)
  BY <1>1
<1>7. FrameAt(R, n, n, c, at, mem)
  BY <1>3, <1>4, <1>5, <1>6 DEF FrameAt
<1>. HIDE DEF n
<1>8. FrameAt(Q, n, n, c, at, mem)
  BY <1>6, <1>7, FrameOfParent
<1>. QED
  BY <1>8 DEF n

\* A frame is kept by what stands at its end and above.
LEMMA FrameKept ==
  ASSUME NEW Q \in Seq(Operations), WellFormed(Q), NEW e \in 0 .. Len(Q),
         NEW c, NEW at, NEW mem, NEW mem2, FrameAt(Q, e, e, c, at, mem),
         mem2 \in Memories, \A a \in 1 .. StackSize : at.rsp <= a => mem2[a] = mem[a]
  PROVE  FrameAt(Q, e, e, c, at, mem2)
<1> DEFINE slot == Slot(c)
           h == Held(Q)[e]
<1>1. /\ at.rsp \in Int /\ at.allocated \in {0, 1} /\ at.rsp > 0
      /\ at.rsp + at.allocated = slot - h
      /\ slot \in 1 .. StackSize /\ StackSize \in Nat
      /\ h \in Nat
  <2>1. h \in Nat
    BY HeldFacts
  <2>. QED
    BY <2>1, UnwinderAssumption DEF FrameAt, StackAt
<1>2. mem[slot] = c.rip /\ \A k \in Saving(Q) : k <= e =>
                             mem[slot - Cell(Q, k)] = c.registers[Q[k].register]
  BY DEF FrameAt, KeptAt
<1>3. mem2[slot] = c.rip
  <2>1. at.rsp <= slot
    <3>. HIDE DEF slot, h
    <3>. QED
      BY <1>1
  <2>. QED
    BY <1>1, <1>2, <2>1
<1>4. ASSUME NEW k \in Saving(Q), k <= e
      PROVE  mem2[slot - Cell(Q, k)] = c.registers[Q[k].register]
  <2>1. /\ k \in 1 .. Len(Q) /\ Cell(Q, k) \in Int
        /\ 1 <= Cell(Q, k) /\ Cell(Q, k) <= Held(Q)[k]
    BY CellFacts
  <2>2. Held(Q)[k] <= h /\ Held(Q)[k] \in Nat
    <3>1. k \in 0 .. e /\ k \in 0 .. Len(Q)
      BY <1>4, <2>1
    <3>. QED
      BY <3>1, HeldGrows, HeldFacts
  <2> DEFINE cell == Cell(Q, k)
             held == Held(Q)[k]
  <2>3. slot - cell \in 1 .. StackSize /\ at.rsp <= slot - cell
    <3>. HIDE DEF slot, h, cell, held
    <3>1. cell \in Int /\ 1 <= cell /\ cell <= held /\ held <= h /\ held \in Nat
      BY <2>1, <2>2 DEF cell, held
    <3>. QED
      BY <1>1, <3>1
  <2>. QED
    BY <1>2, <1>4, <2>3
<1>5. KeptAt(Q, e, c, mem2)
  BY <1>3, <1>4 DEF KeptAt
<1>. QED
  BY <1>5 DEF FrameAt

\* The frame of a function that has just been called.
LEMMA FrameCalled ==
  ASSUME NEW Q \in Seq(Operations), NEW c, NEW at, NEW mem,
         c.rsp \in Int, c.rip \in Int, c.registers \in Registers,
         at.rsp = c.rsp - 1, at.rsp \in 1 .. StackSize, at.allocated = 0,
         at.registers = c.registers, mem \in Memories, mem[at.rsp] = c.rip
  PROVE  FrameAt(Q, 0, 0, c, at, mem)
<1>1. 0 \in 0 .. 0 /\ 0 \in 0 .. Len(Q)
  BY LenProperties
<1>2. /\ Held(Q)[0] = 0 /\ Slot(c) = at.rsp /\ Slot(c) \in Int
      /\ at.rsp > 0 /\ at.rsp \in Int
  BY HeldFacts DEF Slot
<1>3. at.rsp + at.allocated = Slot(c) - Held(Q)[0]
  BY <1>2
<1>4. StackAt(Q, 0, c, at)
  BY <1>2, <1>3 DEF StackAt
<1>5. KeptAt(Q, 0, c, mem)
  <2>1. \A k \in Saving(Q) : ~(k <= 0)
    BY LenProperties DEF Saving
  <2>. QED
    BY <1>2, <2>1 DEF KeptAt
<1>6. UnsavedAt(Q, 0, c, at.registers) /\ FramedAt(Q, 0, 0, c, at.registers)
  BY DEF UnsavedAt, FramedAt
<1>. QED
  BY <1>1, <1>4, <1>5, <1>6 DEF FrameAt

\* When all is undone the return address is on top, and every register is the
\* caller's.
LEMMA FrameReturned ==
  ASSUME NEW Q \in Seq(Operations), NEW e \in 0 .. Len(Q),
         NEW c, NEW at, NEW mem, FrameAt(Q, 0, e, c, at, mem)
  PROVE  /\ at.allocated = 0 /\ at.rsp = c.rsp - 1 /\ at.rsp \in 1 .. StackSize
         /\ mem[at.rsp] = c.rip /\ at.registers = c.registers
<1>1. /\ at.rsp \in Int /\ at.allocated \in {0, 1}
      /\ at.allocated = 1 => IsFramed(Q, 0)
      /\ at.rsp + at.allocated = Slot(c) - Held(Q)[0]
      /\ Slot(c) \in 1 .. StackSize /\ StackSize \in Nat
      /\ mem[Slot(c)] = c.rip
      /\ c.registers \in Registers /\ at.registers \in Registers
      /\ UnsavedAt(Q, 0, c, at.registers)
  BY UnwinderAssumption DEF FrameAt, StackAt, KeptAt
<1>2. Held(Q)[0] = 0 /\ at.allocated = 0
  BY <1>1, HeldFacts DEF IsFramed
<1>3. at.rsp = Slot(c)
  BY <1>1, <1>2
<1>4. \A r \in Nonvolatile : at.registers[r] = c.registers[r]
  <2>1. \A k \in Saving(Q) : ~(k <= 0)
    BY LenProperties DEF Saving
  <2>. QED
    BY <1>1, <2>1 DEF UnsavedAt, IsSaved
<1>5. at.registers = c.registers
  BY <1>1, <1>4 DEF Registers
<1>. QED
  BY <1>1, <1>2, <1>3, <1>5 DEF Slot

\* A body uses a register that is saved.
LEMMA FrameUsed ==
  ASSUME NEW Q \in Seq(Operations), WellFormed(Q), NEW e \in 0 .. Len(Q),
         NEW c, NEW at, NEW mem, NEW at2, NEW v \in Int, NEW r \in Nonvolatile,
         FrameAt(Q, e, e, c, at, mem), IsSaved(Q, e, r),
         \A k \in 1 .. Len(Q) : Q[k].op = "SetFrame" => Q[k].register # r,
         at2.rsp = at.rsp, at2.allocated = at.allocated,
         at2.registers = [at.registers EXCEPT ![r] = v]
  PROVE  FrameAt(Q, e, e, c, at2, mem)
<1>1. /\ at.registers \in Registers
      /\ StackAt(Q, e, c, at)
      /\ UnsavedAt(Q, e, c, at.registers) /\ FramedAt(Q, e, e, c, at.registers)
  BY DEF FrameAt
<1>2. at2.registers \in Registers
  BY <1>1 DEF Registers
<1>3. StackAt(Q, e, c, at2)
  BY <1>1 DEF StackAt
<1>4. UnsavedAt(Q, e, c, at2.registers)
  <2>1. ASSUME NEW s \in Nonvolatile, ~ IsSaved(Q, e, s)
        PROVE  at2.registers[s] = c.registers[s]
    <3>1. at2.registers[s] = at.registers[s]
      BY <1>1, <2>1 DEF Registers
    <3>. QED
      BY <1>1, <2>1, <3>1 DEF UnsavedAt
  <2>. QED
    BY <2>1 DEF UnsavedAt
<1>5. FramedAt(Q, e, e, c, at2.registers)
  <2>1. ASSUME NEW k \in 1 .. e, Q[k].op = "SetFrame"
        PROVE  at2.registers[Q[k].register] = at.registers[Q[k].register]
    <3>1. k \in 1 .. Len(Q)
      BY LenProperties
    <3>2. Q[k].register \in Nonvolatile /\ Q[k].register # r
      BY <2>1, <3>1, FramePointerFacts
    <3>. QED
      BY <1>1, <3>2 DEF Registers
  <2>. QED
    BY <1>1, <2>1 DEF FramedAt
<1>. QED
  BY <1>2, <1>3, <1>4, <1>5 DEF FrameAt

\* A body with a frame pointer allocates a word.
LEMMA FrameAllocates ==
  ASSUME NEW Q \in Seq(Operations), NEW e \in 0 .. Len(Q),
         NEW c, NEW at, NEW mem, NEW at2,
         FrameAt(Q, e, e, c, at, mem), IsFramed(Q, e), at.allocated = 0,
         at2.rsp = at.rsp - 1, at2.allocated = 1, at2.rsp > 0,
         at2.registers = at.registers
  PROVE  FrameAt(Q, e, e, c, at2, mem)
<1>1. StackAt(Q, e, c, at)
  BY DEF FrameAt
<1>2. StackAt(Q, e, c, at2)
  <2>1. at.rsp \in Int /\ at.rsp + 0 = Slot(c) - Held(Q)[e] /\ Slot(c) \in 1 .. StackSize
    BY <1>1 DEF StackAt
  <2>2. at2.rsp \in Int /\ at2.rsp + 1 = Slot(c) - Held(Q)[e]
    BY <2>1
  <2>. QED
    BY <2>1, <2>2 DEF StackAt
<1>. QED
  BY <1>2 DEF FrameAt

\* Only the stack pointer, the registers and what is allocated matter.
LEMMA FrameSame ==
  ASSUME NEW Q, NEW n, NEW e, NEW c, NEW at, NEW mem, NEW at2,
         FrameAt(Q, n, e, c, at, mem),
         at2.rsp = at.rsp, at2.registers = at.registers, at2.allocated = at.allocated
  PROVE  FrameAt(Q, n, e, c, at2, mem)
BY DEF FrameAt, StackAt

-----------------------------------------------------------------------------
(* The thread, from its first instruction on.                              *)

\* The instructions of a function's own prologue, and of those it is part of.
Length(i) == Len(image[i].prologue)
Before(i) == Len(Whole(image)[image[i].parent])

\* At offset o of a function with l instructions, and b before them, which of
\* them have run, and which of these have not been undone.
RunTo(b, l, o)    == b + (IF o <= l THEN o ELSE l)
UndoneTo(b, l, o) ==
  b + (IF o <= l THEN o ELSE IF o = l + 1 THEN l ELSE (2 * l + 2) - o)

Executed(i, o)  == RunTo(Before(i), Length(i), o)
Remaining(i, o) == UndoneTo(Before(i), Length(i), o)

Here == [rsp |-> rsp, registers |-> registers, allocated |-> allocated]

StandsAt(i, o) ==
  /\ i \in 1 .. Len(image) /\ o \in 0 .. 2 * Length(i) + 2
  /\ rip = BeginOf(i) + o
  /\ FrameAt(Whole(image)[i], Remaining(i, o), Executed(i, o), Last(callers), Here, memory)

Callers == [rip : Int, rsp : Int, registers : Registers, allocated : {0, 1}, function : Nat]

\* A call inside the image is made from the body of a function.
CalledFrom(c, outer, mem) ==
  LET f == c.function
      Q == Whole(image)[f]
  IN /\ f \in 1 .. Len(image) /\ ~ image[f].leaf
     /\ c.rip = BeginOf(f) + (Length(f) + 1)
     /\ FrameAt(Q, Len(Q), Len(Q), outer, c, mem)

Calls(cs, mem) ==
  \A k \in 2 .. Len(cs) :
    /\ CalledFrom(cs[k], cs[k - 1], mem)
    /\ \A j \in 1 .. k - 1 : cs[k].rsp < cs[j].rsp

ThreadInv ==
  /\ image \in Images
  /\ callers \in Seq(Callers) /\ callers # <<>>
  /\ \E i, o : StandsAt(i, o)
  /\ Calls(callers, memory)

LEMMA SameImage ==
  ASSUME image' = image
  PROVE  /\ \A i : BeginOf(i)' = BeginOf(i) /\ EndOf(i)' = EndOf(i)
         /\ \A i : Length(i)' = Length(i) /\ Before(i)' = Before(i)
         /\ \A i, o : Executed(i, o)' = Executed(i, o) /\ Remaining(i, o)' = Remaining(i, o)
<1>1. \A i : EndOf(i)' = EndOf(i)
  BY DEF EndOf, SizeOf
<1>2. \A i : BeginOf(i)' = BeginOf(i)
  BY <1>1 DEF BeginOf
<1>3. \A i : Length(i)' = Length(i) /\ Before(i)' = Before(i)
  BY DEF Length, Before
<1>4. \A i, o : Executed(i, o)' = Executed(i, o) /\ Remaining(i, o)' = Remaining(i, o)
  BY <1>3 DEF Executed, Remaining
<1>. QED
  BY <1>1, <1>2, <1>3, <1>4

\* Where the thread stands.
LEMMA Position ==
  ASSUME image \in Images, NEW i \in 1 .. Len(image), NEW o \in 0 .. 2 * Length(i) + 2,
         rip = BeginOf(i) + o
  PROVE  /\ Running = i /\ Offset = o /\ Prologue = image[i].prologue
         /\ rip \in BeginOf(i) .. EndOf(i) - 1 /\ rip \in Nat
         /\ o \in Nat /\ Length(i) \in Nat /\ Before(i) \in Nat
         /\ Len(Whole(image)[i]) = Before(i) + Length(i)
         /\ rip = EndOf(i) - 1 <=> o = 2 * Length(i) + 2
<1>1. /\ Len(image) \in Nat /\ DOMAIN image = 1 .. Len(image)
      /\ image[i].prologue \in Seq(Operations) /\ Length(i) \in Nat
      /\ image[i].parent \in 0 .. Len(image)
      /\ i - 1 \in 0 .. Len(image) /\ i \in 0 .. Len(image)
  BY ImageFacts DEF Length
<1>2. BeginOf(i) \in Nat /\ EndOf(i) = BeginOf(i) + (2 * Length(i) + 3)
  BY <1>1, EndFacts DEF BeginOf, Length
<1>3. /\ o \in Nat /\ rip \in BeginOf(i) .. EndOf(i) - 1 /\ rip \in Nat
      /\ rip = EndOf(i) - 1 <=> o = 2 * Length(i) + 2
  <2> DEFINE begin == BeginOf(i)
             end == EndOf(i)
             l == Length(i)
  <2>1. /\ l \in Nat /\ begin \in Nat /\ end = begin + (2 * l + 3)
        /\ o \in 0 .. 2 * l + 2 /\ rip = begin + o
    BY <1>1, <1>2
  <2>. HIDE DEF begin, end, l
  <2>2. /\ o \in Nat /\ rip \in begin .. end - 1 /\ rip \in Nat
        /\ rip = end - 1 <=> o = 2 * l + 2
    BY <2>1
  <2>. QED
    BY <2>2 DEF begin, end, l
<1>4. \A j \in 1 .. Len(image) : rip \in BeginOf(j) .. EndOf(j) - 1 => j = i
  <2>1. ASSUME NEW j \in 1 .. Len(image), rip \in BeginOf(j) .. EndOf(j) - 1, j # i
        PROVE  FALSE
    <3>1. /\ BeginOf(j) \in Nat /\ EndOf(j) \in Nat
          /\ j < i => EndOf(j) <= rip
          /\ i < j => rip < BeginOf(j)
      BY <1>3, OneFunction
    <3>. QED
      BY <1>3, <2>1, <3>1
  <2>. QED
    BY <2>1
<1>5. Running = i
  BY <1>1, <1>3, <1>4 DEF Running
<1>6. Offset = o /\ Prologue = image[i].prologue
  BY <1>2, <1>3, <1>5 DEF Offset, Prologue
<1>7. /\ Before(i) \in Nat /\ Len(Whole(image)[i]) = Before(i) + Length(i)
  <2> DEFINE Q == Whole(image)[image[i].parent]
             P == image[i].prologue
  <2>1. Q \in Seq(Operations) /\ P \in Seq(Operations) /\ Whole(image)[i] = Q \o P
    BY <1>1, WholeFacts
  <2>. HIDE DEF Q, P
  <2>2. Len(Q) \in Nat /\ Len(Whole(image)[i]) = Len(Q) + Len(P)
    BY <2>1, Beginning, LenProperties
  <2>. QED
    BY <2>2 DEF Q, P, Before, Length
<1>. QED
  BY <1>1, <1>3, <1>5, <1>6, <1>7

\* What is known once a step has been taken.
LEMMA StandsNext ==
  ASSUME image \in Images, image' = image, callers' \in Seq(Callers), callers' # <<>>,
         NEW i \in 1 .. Len(image), NEW o \in 0 .. 2 * Length(i) + 2,
         rip' = BeginOf(i) + o,
         FrameAt(Whole(image)[i], Remaining(i, o), Executed(i, o), Last(callers'),
                 [rsp |-> rsp', registers |-> registers', allocated |-> allocated'], memory'),
         Calls(callers', memory')
  PROVE  ThreadInv'
<1>1. /\ \A j : BeginOf(j)' = BeginOf(j) /\ Length(j)' = Length(j)
      /\ \A j, x : Executed(j, x)' = Executed(j, x) /\ Remaining(j, x)' = Remaining(j, x)
  BY SameImage
<1>2. StandsAt(i, o)'
  BY <1>1 DEF StandsAt, Here
<1>3. Calls(callers, memory)'
  BY <1>1 DEF Calls, CalledFrom
<1>. QED
  BY <1>2, <1>3 DEF ThreadInv

\* Calls are kept by what stands above the innermost.
LEMMA CallsKeep ==
  ASSUME image \in Images, NEW cs \in Seq(Callers), cs # <<>>, NEW mem, NEW mem2 \in Memories,
         Calls(cs, mem),
         \A a \in 1 .. StackSize : Last(cs).rsp <= a => mem2[a] = mem[a]
  PROVE  Calls(cs, mem2)
<1>1. Len(cs) \in Nat /\ \A k \in 1 .. Len(cs) : cs[k] \in Callers /\ cs[k].rsp \in Int
  <2>1. Len(cs) \in Nat /\ \A k \in 1 .. Len(cs) : cs[k] \in Callers
    BY LenProperties
  <2>. QED
    BY <2>1 DEF Callers
<1>2. Len(cs) \in 1 .. Len(cs) /\ Last(cs) = cs[Len(cs)]
  BY <1>1, EmptySeq DEF Last
<1>3. SUFFICES ASSUME NEW k \in 2 .. Len(cs), CalledFrom(cs[k], cs[k - 1], mem)
               PROVE  CalledFrom(cs[k], cs[k - 1], mem2)
  BY DEF Calls
<1>4. Last(cs).rsp <= cs[k].rsp
  <2>1. k \in 1 .. Len(cs) /\ (k = Len(cs) \/ k \in 1 .. Len(cs) - 1)
    BY <1>1
  <2>2. k \in 1 .. Len(cs) - 1 => cs[Len(cs)].rsp < cs[k].rsp
    <3>1. k \in 1 .. Len(cs) - 1 => Len(cs) \in 2 .. Len(cs)
      BY <1>1
    <3>. QED
      BY <3>1 DEF Calls
  <2>. QED
    BY <1>1, <1>2, <2>1, <2>2
<1>5. \A a \in 1 .. StackSize : cs[k].rsp <= a => mem2[a] = mem[a]
  <2>1. ASSUME NEW a \in 1 .. StackSize, cs[k].rsp <= a
        PROVE  Last(cs).rsp <= a
    <3>1. a \in Int /\ cs[k].rsp \in Int /\ Last(cs).rsp \in Int
      <4>1. StackSize \in Nat /\ k \in 1 .. Len(cs)
        BY <1>1, UnwinderAssumption
      <4>. QED
        BY <1>1, <1>2, <4>1
    <3>. QED
      BY <1>4, <2>1, <3>1
  <2>. QED
    BY <2>1
<1> DEFINE f == cs[k].function
           Q == Whole(image)[f]
<1>6. f \in 1 .. Len(image) /\ FrameAt(Q, Len(Q), Len(Q), cs[k - 1], cs[k], mem)
  BY <1>3 DEF CalledFrom
<1>7. Q \in Seq(Operations) /\ WellFormed(Q) /\ Len(Q) \in 0 .. Len(Q)
  <2>1. f \in 0 .. Len(image) /\ WellFormed(Q)
    BY <1>6, ImageFacts
  <2>2. Q \in Seq(Operations)
    BY <2>1, WholeFacts
  <2>. QED
    BY <2>1, <2>2, LenProperties
<1>8. FrameAt(Q, Len(Q), Len(Q), cs[k - 1], cs[k], mem2)
  <2>. HIDE DEF Q
  <2>. QED
    BY <1>5, <1>6, <1>7, FrameKept
<1>. QED
  BY <1>3, <1>8 DEF CalledFrom

\* The processor's steps on an instruction are those of Runs and Reverts.
LEMMA ExecuteRuns ==
  ASSUME NEW p, Execute(p), allocated' = allocated,
         p.op \in {"Push", "Allocate", "SetFrame", "Save", "SaveXmm"}
  PROVE  Runs(p, Here, memory,
              [rsp |-> rsp', registers |-> registers', allocated |-> allocated'], memory')
<1>1. CASE p.op = "Push"
  BY <1>1 DEF Execute, Runs, Here
<1>2. CASE p.op = "Allocate"
  BY <1>2 DEF Execute, Runs, Here
<1>3. CASE p.op = "SetFrame"
  BY <1>3 DEF Execute, Runs, Here
<1>4. CASE p.op = "Save"
  BY <1>4 DEF Execute, Runs, Here, Base
<1>5. CASE p.op = "SaveXmm"
  BY <1>5 DEF Execute, Runs, Here
<1>. QED
  BY <1>1, <1>2, <1>3, <1>4, <1>5

LEMMA RevertReverts ==
  ASSUME NEW p, Revert(p), allocated' = IF p.op = "SetFrame" THEN 0 ELSE allocated,
         p.op \in {"Push", "Allocate", "SetFrame", "Save", "SaveXmm"}
  PROVE  Reverts(p, Here, memory,
                 [rsp |-> rsp', registers |-> registers', allocated |-> allocated'])
<1>1. CASE p.op = "Push"
  BY <1>1 DEF Revert, Reverts, Here
<1>2. CASE p.op = "Allocate"
  BY <1>2 DEF Revert, Reverts, Here
<1>3. CASE p.op = "SetFrame"
  BY <1>3 DEF Revert, Reverts, Here
<1>4. CASE p.op = "Save"
  BY <1>4 DEF Revert, Reverts, Here, Base
<1>5. CASE p.op = "SaveXmm"
  BY <1>5 DEF Revert, Reverts, Here
<1>. QED
  BY <1>1, <1>2, <1>3, <1>4, <1>5

\* All that is known of where the thread stands.
LEMMA Standing ==
  ASSUME ThreadInv, NEW i, NEW o, StandsAt(i, o)
  PROVE  /\ image \in Images /\ callers \in Seq(Callers) /\ callers # <<>>
         /\ Last(callers) \in Callers /\ Calls(callers, memory)
         /\ i \in 1 .. Len(image) /\ o \in 0 .. 2 * Length(i) + 2
         /\ Running = i /\ Offset = o /\ Prologue = image[i].prologue
         /\ o \in Nat /\ Length(i) \in Nat /\ Before(i) \in Nat
         /\ Length(i) = Len(image[i].prologue) /\ Len(Prologue) = Length(i)
         /\ rip = BeginOf(i) + o /\ BeginOf(i) \in Nat /\ rip \in Nat
         /\ rip = EndOf(i) - 1 <=> o = 2 * Length(i) + 2
         /\ Whole(image)[i] \in Seq(Operations) /\ WellFormed(Whole(image)[i])
         /\ Len(Whole(image)[i]) = Before(i) + Length(i)
         /\ image[i].prologue \in Seq(Operations)
         /\ \A k \in 1 .. Length(i) : Whole(image)[i][Before(i) + k] = image[i].prologue[k]
         /\ FrameAt(Whole(image)[i], Remaining(i, o), Executed(i, o), Last(callers),
                    Here, memory)
         /\ memory \in Memories /\ registers \in Registers
         /\ rsp \in Int /\ rsp > 0 /\ allocated \in {0, 1}
         /\ Slot(Last(callers)) \in 1 .. StackSize /\ StackSize \in Nat
<1>1. /\ image \in Images /\ callers \in Seq(Callers) /\ callers # <<>>
      /\ Calls(callers, memory)
  BY DEF ThreadInv
<1>2. /\ i \in 1 .. Len(image) /\ o \in 0 .. 2 * Length(i) + 2
      /\ rip = BeginOf(i) + o
      /\ FrameAt(Whole(image)[i], Remaining(i, o), Executed(i, o), Last(callers), Here, memory)
  BY DEF StandsAt
<1>3. /\ Running = i /\ Offset = o /\ Prologue = image[i].prologue
      /\ o \in Nat /\ Length(i) \in Nat /\ Before(i) \in Nat /\ rip \in Nat
      /\ rip = EndOf(i) - 1 <=> o = 2 * Length(i) + 2
      /\ Len(Whole(image)[i]) = Before(i) + Length(i)
      /\ Length(i) = Len(image[i].prologue)
  BY <1>1, <1>2, Position DEF Length
<1>4. /\ BeginOf(i) \in Nat
      /\ image[i].prologue \in Seq(Operations) /\ WellFormed(Whole(image)[i])
      /\ image[i].parent \in 0 .. Len(image)
      /\ Len(image) \in Nat
  <2>1. Len(image) \in Nat /\ i - 1 \in 0 .. Len(image)
    BY <1>1, <1>2, ImageFacts
  <2>. QED
    BY <1>1, <1>2, <2>1, ImageFacts, EndFacts DEF BeginOf
<1>5. /\ Whole(image)[i] \in Seq(Operations)
      /\ \A k \in 1 .. Length(i) : Whole(image)[i][Before(i) + k] = image[i].prologue[k]
  <2> DEFINE Q == Whole(image)[image[i].parent]
             P == image[i].prologue
  <2>1. Q \in Seq(Operations) /\ P \in Seq(Operations) /\ Whole(image)[i] = Q \o P
    BY <1>1, <1>2, <1>4, WholeFacts
  <2>. HIDE DEF Q, P
  <2>2. /\ Whole(image)[i] \in Seq(Operations)
        /\ \A k \in 1 .. Len(P) : Whole(image)[i][Len(Q) + k] = P[k]
    BY <2>1, Beginning
  <2>. QED
    BY <2>2 DEF Q, P, Before, Length
<1>6. Last(callers) \in Callers
  <2>1. Len(callers) \in 1 .. Len(callers)
    BY <1>1, EmptySeq, LenProperties
  <2>. QED
    BY <1>1, <2>1, LenProperties DEF Last
<1>7. /\ memory \in Memories /\ registers \in Registers
      /\ rsp \in Int /\ rsp > 0 /\ allocated \in {0, 1}
      /\ Slot(Last(callers)) \in 1 .. StackSize /\ StackSize \in Nat
  BY <1>2, UnwinderAssumption DEF FrameAt, StackAt, KeptAt, Here
<1>. QED
  BY <1>1, <1>2, <1>3, <1>4, <1>5, <1>6, <1>7

\* The frame reaches from the stack pointer to the word of the return address.
LEMMA FrameReaches ==
  ASSUME NEW Q \in Seq(Operations), NEW e \in 0 .. Len(Q), NEW n \in 0 .. e,
         NEW c, NEW at, NEW mem, FrameAt(Q, n, e, c, at, mem)
  PROVE  at.rsp <= Slot(c) /\ at.rsp < c.rsp
<1> DEFINE h == Held(Q)[n]
<1>1. h \in Nat
  <2>1. n \in 0 .. Len(Q)
    BY LenProperties
  <2>. QED
    BY <2>1, HeldFacts
<1>2. /\ at.rsp \in Int /\ at.allocated \in {0, 1} /\ at.rsp + at.allocated = Slot(c) - h
      /\ c.rsp \in Int /\ Slot(c) = c.rsp - 1
  BY DEF FrameAt, StackAt, Slot
<1>. HIDE DEF h
<1>. QED
  BY <1>1, <1>2

\* Counting the instructions of a function forwards and backwards.
LEMMA ForwardCount ==
  ASSUME NEW o \in Nat, NEW l \in Nat, NEW b \in Nat, o < l
  PROVE  /\ o + 1 \in 1 .. l /\ o + 1 \in 0 .. 2 * l + 2
         /\ b + o + 1 \in 1 .. b + l /\ b + (o + 1) = b + o + 1
         /\ RunTo(b, l, o) = b + o + 1 - 1 /\ UndoneTo(b, l, o) = b + o + 1 - 1
         /\ RunTo(b, l, o + 1) = b + o + 1 /\ UndoneTo(b, l, o + 1) = b + o + 1
BY DEF RunTo, UndoneTo

LEMMA BackCount ==
  ASSUME NEW o \in Nat, NEW l \in Nat, NEW b \in Nat, o - l - 2 \in 0 .. l - 1
  PROVE  \E k \in 1 .. l :
           /\ l - (o - l - 2) = k /\ o + 1 \in 0 .. 2 * l + 2
           /\ b + k \in 1 .. b + l /\ b + l \in b + k .. b + l
           /\ RunTo(b, l, o) = b + l /\ UndoneTo(b, l, o) = b + k
           /\ RunTo(b, l, o + 1) = b + l /\ UndoneTo(b, l, o + 1) = b + k - 1
<1> DEFINE k == 2 * l + 2 - o
<1>1. /\ k \in 1 .. l /\ l - (o - l - 2) = k /\ o + 1 \in 0 .. 2 * l + 2
      /\ b + k \in 1 .. b + l /\ b + l \in b + k .. b + l
  OBVIOUS
<1>2. /\ RunTo(b, l, o) = b + l /\ UndoneTo(b, l, o) = b + k
      /\ RunTo(b, l, o + 1) = b + l /\ UndoneTo(b, l, o + 1) = b + k - 1
  BY DEF RunTo, UndoneTo
<1>. QED
  BY <1>1, <1>2

LEMMA BodyCount ==
  ASSUME NEW i, NEW o, Length(i) \in Nat, Before(i) \in Nat, o \in {Length(i), Length(i) + 1}
  PROVE  /\ Executed(i, o) = Before(i) + Length(i)
         /\ Remaining(i, o) = Before(i) + Length(i)
         /\ o + 1 \in 0 .. 2 * Length(i) + 2
         /\ Executed(i, o + 1) = Before(i) + Length(i)
         /\ Remaining(i, o + 1) = Before(i) + Length(i)
<1> DEFINE l == Length(i)
           b == Before(i)
<1>1. l \in Nat /\ b \in Nat /\ o \in {l, l + 1}
  OBVIOUS
<1>. SUFFICES /\ RunTo(b, l, o) = b + l /\ UndoneTo(b, l, o) = b + l
              /\ o + 1 \in 0 .. 2 * l + 2
              /\ RunTo(b, l, o + 1) = b + l /\ UndoneTo(b, l, o + 1) = b + l
  BY DEF Executed, Remaining
<1>. HIDE DEF l, b
<1>. QED
  BY <1>1 DEF RunTo, UndoneTo

LEMMA RunPrologueKeeps == ThreadInv /\ RunPrologue => ThreadInv'
<1>1. SUFFICES ASSUME ThreadInv, RunPrologue, NEW i, NEW o, StandsAt(i, o)
               PROVE  ThreadInv'
  BY DEF ThreadInv
<1> DEFINE c == Last(callers)
           Q == Whole(image)[i]
           P == image[i].prologue
           n == Before(i) + o + 1
           there == [rsp |-> rsp', registers |-> registers', allocated |-> allocated']
<1>2. /\ image \in Images /\ callers \in Seq(Callers) /\ callers # <<>>
      /\ c \in Callers /\ Calls(callers, memory)
      /\ i \in 1 .. Len(image)
      /\ Running = i /\ Offset = o /\ Prologue = P
      /\ o \in Nat /\ Length(i) \in Nat /\ Before(i) \in Nat /\ Length(i) = Len(P)
      /\ rip = BeginOf(i) + o /\ BeginOf(i) \in Nat
      /\ Q \in Seq(Operations) /\ WellFormed(Q)
      /\ Len(Q) = Before(i) + Length(i)
      /\ \A k \in 1 .. Length(i) : Q[Before(i) + k] = P[k]
      /\ FrameAt(Q, Remaining(i, o), Executed(i, o), c, Here, memory)
  <2>. HIDE DEF n, there
  <2>. QED
    BY <1>1, Standing, SMTT(30)
<1>3. /\ o < Length(i) /\ Execute(P[o + 1]) /\ rsp' > 0
      /\ rip' = rip + 1 /\ image' = image /\ allocated' = allocated /\ callers' = callers
  BY <1>1, <1>2 DEF RunPrologue, HasRoom
<1>. HIDE DEF P, Q, c
<1>11. /\ o \in Nat /\ Length(i) \in Nat /\ Before(i) \in Nat /\ o < Length(i)
      /\ BeginOf(i) \in Nat /\ rip' = (BeginOf(i) + o) + 1
      /\ Len(Q) = Before(i) + Length(i)
  BY <1>2, <1>3
<1>4. /\ Remaining(i, o) = n - 1 /\ Executed(i, o) = n - 1
      /\ Remaining(i, o + 1) = n /\ Executed(i, o + 1) = n
      /\ n \in 1 .. Len(Q) /\ Q[n] = P[o + 1] /\ o + 1 \in 0 .. 2 * Length(i) + 2
      /\ rip' = BeginOf(i) + (o + 1)
  <2>1. /\ o + 1 \in 1 .. Length(i) /\ Before(i) + (o + 1) = n
        /\ o + 1 \in 0 .. 2 * Length(i) + 2
        /\ n \in 1 .. Len(Q)
        /\ Remaining(i, o) = n - 1 /\ Executed(i, o) = n - 1
        /\ Remaining(i, o + 1) = n /\ Executed(i, o + 1) = n
    <3> DEFINE l == Length(i)
               b == Before(i)
    <3>1. l \in Nat /\ b \in Nat /\ o \in Nat /\ o < l /\ Len(Q) = b + l
      BY <1>11
    <3>. SUFFICES /\ o + 1 \in 1 .. l /\ o + 1 \in 0 .. 2 * l + 2
                  /\ b + o + 1 \in 1 .. b + l /\ b + (o + 1) = b + o + 1
                  /\ RunTo(b, l, o) = b + o + 1 - 1 /\ UndoneTo(b, l, o) = b + o + 1 - 1
                  /\ RunTo(b, l, o + 1) = b + o + 1 /\ UndoneTo(b, l, o + 1) = b + o + 1
      BY <3>1 DEF Executed, Remaining
    <3>. HIDE DEF l, b
    <3>. QED
      BY <3>1, ForwardCount
  <2>2. Q[n] = P[o + 1]
    <3>1. Q[Before(i) + (o + 1)] = P[o + 1]
      BY <1>2, <2>1
    <3>. QED
      BY <2>1, <3>1
  <2>. QED
    BY <1>11, <2>1, <2>2
<1>. HIDE DEF n
<1>5. Runs(Q[n], Here, memory, there, memory')
  <2>1. Q[n].op \in {"Push", "Allocate", "SetFrame", "Save", "SaveXmm"}
    BY <1>2, <1>4, InstructionFacts
  <2>. QED
    BY <1>3, <1>4, <2>1, ExecuteRuns
<1>6. /\ FrameAt(Q, n, n, c, there, memory')
      /\ \A a \in 1 .. StackSize : Slot(c) <= a => memory'[a] = memory[a]
  <2>1. FrameAt(Q, n - 1, n - 1, c, Here, memory) /\ there.rsp > 0
    BY <1>2, <1>3, <1>4
  <2>2. Q \in Seq(Operations) /\ WellFormed(Q) /\ n \in 1 .. Len(Q)
    BY <1>2, <1>4
  <2>. HIDE DEF there
  <2>3. Proceeds(Q, n, c, Here, memory, there, memory')
    BY <1>5, <2>1, <2>2 DEF Proceeds
  <2>. QED
    BY ONLY <2>3, PrologueRuns
<1>7. Calls(callers, memory')
  <2>1. memory' \in Memories
    BY <1>6 DEF FrameAt, KeptAt
  <2>2. \A a \in 1 .. StackSize : c.rsp <= a => memory'[a] = memory[a]
    <3>1. c.rsp \in Int /\ Slot(c) = c.rsp - 1 /\ StackSize \in Nat
      BY <1>2, UnwinderAssumption DEF Callers, Slot
    <3>2. \A a \in 1 .. StackSize : c.rsp <= a => Slot(c) <= a
      BY <3>1
    <3>. QED
      BY <1>6, <3>2
  <2>. QED
    BY <1>2, <2>1, <2>2, CallsKeep DEF c
<1>. QED
  BY <1>2, <1>3, <1>4, <1>6, <1>7, StandsNext DEF c, Q

LEMMA RunEpilogueKeeps == ThreadInv /\ RunEpilogue => ThreadInv'
<1>1. SUFFICES ASSUME ThreadInv, RunEpilogue, NEW i, NEW o, StandsAt(i, o)
               PROVE  ThreadInv'
  BY DEF ThreadInv
<1> DEFINE c == Last(callers)
           Q == Whole(image)[i]
           P == image[i].prologue
           there == [rsp |-> rsp', registers |-> registers', allocated |-> allocated']
<1>2. /\ image \in Images /\ callers \in Seq(Callers) /\ callers # <<>>
      /\ c \in Callers /\ Calls(callers, memory)
      /\ i \in 1 .. Len(image)
      /\ Running = i /\ Offset = o /\ Prologue = P
      /\ o \in Nat /\ Length(i) \in Nat /\ Before(i) \in Nat /\ Length(i) = Len(P)
      /\ rip = BeginOf(i) + o /\ BeginOf(i) \in Nat
      /\ Q \in Seq(Operations) /\ WellFormed(Q)
      /\ Len(Q) = Before(i) + Length(i)
      /\ \A j \in 1 .. Length(i) : Q[Before(i) + j] = P[j]
      /\ FrameAt(Q, Remaining(i, o), Executed(i, o), c, Here, memory)
  BY <1>1, Standing
<1>3. /\ o - Length(i) - 2 \in 0 .. Length(i) - 1
      /\ Revert(P[Length(i) - (o - Length(i) - 2)])
      /\ allocated' = IF P[Length(i) - (o - Length(i) - 2)].op = "SetFrame"
                      THEN 0 ELSE allocated
      /\ rip' = rip + 1 /\ image' = image /\ memory' = memory /\ callers' = callers
  BY <1>1, <1>2 DEF RunEpilogue
<1>. HIDE DEF P, Q, c
<1>11. /\ o \in Nat /\ Length(i) \in Nat /\ Before(i) \in Nat
      /\ o - Length(i) - 2 \in 0 .. Length(i) - 1
      /\ BeginOf(i) \in Nat /\ rip' = (BeginOf(i) + o) + 1
      /\ Len(Q) = Before(i) + Length(i)
  BY <1>2, <1>3
<1>4. PICK k \in 1 .. Length(i) :
        /\ Length(i) - (o - Length(i) - 2) = k /\ o + 1 \in 0 .. 2 * Length(i) + 2
        /\ Before(i) + k \in 1 .. Len(Q) /\ Len(Q) \in Before(i) + k .. Len(Q)
        /\ Executed(i, o) = Len(Q) /\ Remaining(i, o) = Before(i) + k
        /\ Executed(i, o + 1) = Len(Q) /\ Remaining(i, o + 1) = Before(i) + k - 1
  <2> DEFINE l == Length(i)
             b == Before(i)
  <2>1. l \in Nat /\ b \in Nat /\ o \in Nat /\ o - l - 2 \in 0 .. l - 1 /\ Len(Q) = b + l
    BY <1>11
  <2>. SUFFICES \E k \in 1 .. l :
        /\ l - (o - l - 2) = k /\ o + 1 \in 0 .. 2 * l + 2
        /\ b + k \in 1 .. b + l /\ b + l \in b + k .. b + l
        /\ RunTo(b, l, o) = b + l /\ UndoneTo(b, l, o) = b + k
        /\ RunTo(b, l, o + 1) = b + l /\ UndoneTo(b, l, o + 1) = b + k - 1
    BY <2>1 DEF Executed, Remaining
  <2>. HIDE DEF l, b
  <2>. QED
    BY <2>1, BackCount
<1>5. rip' = BeginOf(i) + (o + 1)
  BY <1>11
<1> DEFINE n == Before(i) + k
<1>6. Q[n] = P[k]
  BY <1>2, <1>4
<1>7. Revert(P[k]) /\ allocated' = IF P[k].op = "SetFrame" THEN 0 ELSE allocated
  BY <1>3, <1>4
<1>. HIDE DEF n
<1>8. Reverts(Q[n], Here, memory, there)
  <2>1. Q[n].op \in {"Push", "Allocate", "SetFrame", "Save", "SaveXmm"}
    <3>1. n \in 1 .. Len(Q)
      BY <1>4 DEF n
    <3>. QED
      BY <1>2, <3>1, InstructionFacts
  <2>. QED
    BY <1>6, <1>7, <2>1, RevertReverts
<1>9. FrameAt(Q, n - 1, Len(Q), c, there, memory)
  <2>0. n \in 1 .. Len(Q) /\ Len(Q) \in n .. Len(Q)
    BY <1>4 DEF n
  <2>1. FrameAt(Q, n, Len(Q), c, Here, memory)
    BY <1>2, <1>4 DEF n
  <2>. HIDE DEF there
  <2>. QED
    BY <1>2, <2>0, <1>8, <2>1, PrologueReverts
<1>. QED
  <2>1. FrameAt(Q, Remaining(i, o + 1), Executed(i, o + 1), c, there, memory')
    <3>1. Remaining(i, o + 1) = n - 1 /\ Executed(i, o + 1) = Len(Q) /\ memory' = memory
      <4>1. Remaining(i, o + 1) = Before(i) + k - 1 /\ Executed(i, o + 1) = Len(Q)
        BY <1>4
      <4>. QED
        <5>1. Before(i) \in Int /\ k \in Int
          BY <1>11
        <5>2. Before(i) + k - 1 = (Before(i) + k) - 1
          BY <5>1
        <5>. QED
          BY <1>3, <4>1, <5>2 DEF n
    <3>. HIDE DEF there
    <3>. QED
      BY <1>9, <3>1
  <2>. QED
    BY <1>2, <1>3, <1>4, <1>5, <2>1, StandsNext DEF c, Q

LEMMA UseRegisterKeeps == ThreadInv /\ UseRegister => ThreadInv'
<1>1. SUFFICES ASSUME ThreadInv, UseRegister, NEW i, NEW o, StandsAt(i, o)
               PROVE  ThreadInv'
  BY DEF ThreadInv
<1> DEFINE c == Last(callers)
           Q == Whole(image)[i]
           v == - 10 - Len(callers)
           there == [rsp |-> rsp', registers |-> registers', allocated |-> allocated']
<1>2. /\ image \in Images /\ callers \in Seq(Callers) /\ callers # <<>>
      /\ Calls(callers, memory)
      /\ i \in 1 .. Len(image) /\ o \in 0 .. 2 * Length(i) + 2
      /\ Running = i /\ Offset = o /\ Len(Prologue) = Length(i)
      /\ o \in Nat /\ Length(i) \in Nat /\ Before(i) \in Nat
      /\ rip = BeginOf(i) + o
      /\ Q \in Seq(Operations) /\ WellFormed(Q)
      /\ Len(Q) = Before(i) + Length(i)
      /\ FrameAt(Q, Remaining(i, o), Executed(i, o), c, Here, memory)
  BY <1>1, Standing
<1>3. /\ o \in {Length(i), Length(i) + 1}
      /\ image' = image /\ rip' = rip /\ rsp' = rsp /\ memory' = memory
      /\ allocated' = allocated /\ callers' = callers
  BY <1>1, <1>2 DEF UseRegister, InBody
<1>4. PICK p \in RunningDoes("Push") \cup RunningDoes("Save") :
        /\ \A q \in RunningDoes("SetFrame") : q.register # p.register
        /\ registers' = [registers EXCEPT ![p.register] = v]
  BY <1>1 DEF UseRegister
<1>5. /\ p \in Range(Q) /\ p.op \in {"Push", "Save"}
      /\ \A q \in Range(Q) : q.op = "SetFrame" => q.register # p.register
  BY <1>2, <1>4 DEF RunningDoes, Does
<1>. HIDE DEF Q, c, v
<1>6. DOMAIN Q = 1 .. Len(Q) /\ Len(Q) \in Nat /\ Len(Q) \in 0 .. Len(Q)
  BY <1>2, LenProperties
<1>7. /\ p.register \in Nonvolatile /\ IsSaved(Q, Len(Q), p.register)
      /\ \A k \in 1 .. Len(Q) : Q[k].op = "SetFrame" => Q[k].register # p.register
  <2>1. PICK k \in 1 .. Len(Q) : Q[k] = p
    BY <1>5, <1>6 DEF Range
  <2>2. k \in Saving(Q) /\ p.register \in Nonvolatile
    BY <1>2, <1>5, <2>1, InstructionFacts
  <2>3. IsSaved(Q, Len(Q), p.register)
    <3>1. k <= Len(Q)
      BY <1>6, <2>1
    <3>. QED
      BY <2>1, <2>2, <3>1 DEF IsSaved
  <2>4. \A j \in 1 .. Len(Q) : Q[j] \in Range(Q)
    BY <1>6 DEF Range
  <2>. QED
    BY <1>5, <2>2, <2>3, <2>4
<1>8. Remaining(i, o) = Len(Q) /\ Executed(i, o) = Len(Q)
  BY <1>2, <1>3, BodyCount
<1>9. v \in Int
  BY <1>2, LenProperties DEF v
<1>10. FrameAt(Q, Len(Q), Len(Q), c, there, memory)
  <2>1. FrameAt(Q, Len(Q), Len(Q), c, Here, memory)
    BY <1>2, <1>8
  <2>2. there.rsp = Here.rsp /\ there.allocated = Here.allocated
        /\ there.registers = [Here.registers EXCEPT ![p.register] = v]
    BY <1>3, <1>4 DEF Here
  <2>. HIDE DEF there
  <2>. QED
    BY <1>2, <1>6, <1>7, <1>9, <2>1, <2>2, FrameUsed
<1>11. FrameAt(Q, Remaining(i, o), Executed(i, o), c, there, memory')
  <2>. HIDE DEF there
  <2>. QED
    BY <1>3, <1>8, <1>10
<1>. QED
  BY <1>2, <1>3, <1>11, StandsNext DEF c, Q

LEMMA AllocateMoreKeeps == ThreadInv /\ AllocateMore => ThreadInv'
<1>1. SUFFICES ASSUME ThreadInv, AllocateMore, NEW i, NEW o, StandsAt(i, o)
               PROVE  ThreadInv'
  BY DEF ThreadInv
<1> DEFINE c == Last(callers)
           Q == Whole(image)[i]
           there == [rsp |-> rsp', registers |-> registers', allocated |-> allocated']
<1>2. /\ image \in Images /\ callers \in Seq(Callers) /\ callers # <<>>
      /\ Calls(callers, memory)
      /\ i \in 1 .. Len(image) /\ o \in 0 .. 2 * Length(i) + 2
      /\ Running = i /\ Offset = o /\ Len(Prologue) = Length(i)
      /\ o \in Nat /\ Length(i) \in Nat /\ Before(i) \in Nat
      /\ rip = BeginOf(i) + o
      /\ Q \in Seq(Operations) /\ WellFormed(Q)
      /\ Len(Q) = Before(i) + Length(i)
      /\ FrameAt(Q, Remaining(i, o), Executed(i, o), c, Here, memory)
  BY <1>1, Standing
<1>3. /\ o \in {Length(i), Length(i) + 1} /\ RunningDoes("SetFrame") # {}
      /\ image' = image /\ rip' = rip /\ memory' = memory /\ callers' = callers
      /\ allocated = 0 /\ rsp' = rsp - 1 /\ allocated' = 1 /\ rsp' > 0
      /\ registers' = registers
  BY <1>1, <1>2 DEF AllocateMore, InBody, HasRoom
<1>4. \E q \in Range(Q) : q.op = "SetFrame"
  BY <1>2, <1>3 DEF RunningDoes, Does
<1>. HIDE DEF Q, c
<1>5. DOMAIN Q = 1 .. Len(Q) /\ Len(Q) \in Nat /\ Len(Q) \in 0 .. Len(Q)
  BY <1>2, LenProperties
<1>6. IsFramed(Q, Len(Q))
  BY <1>4, <1>5 DEF IsFramed, Range
<1>7. Remaining(i, o) = Len(Q) /\ Executed(i, o) = Len(Q)
  BY <1>2, <1>3, BodyCount
<1>8. FrameAt(Q, Len(Q), Len(Q), c, there, memory)
  <2>1. FrameAt(Q, Len(Q), Len(Q), c, Here, memory)
    BY <1>2, <1>7
  <2>2. /\ there.rsp = Here.rsp - 1 /\ there.rsp > 0 /\ there.registers = Here.registers
        /\ there.allocated = 1 /\ Here.allocated = 0
    BY <1>3 DEF Here
  <2>. HIDE DEF there
  <2>. QED
    BY <1>2, <1>5, <1>6, <2>1, <2>2, FrameAllocates
<1>9. FrameAt(Q, Remaining(i, o), Executed(i, o), c, there, memory')
  <2>. HIDE DEF there
  <2>. QED
    BY <1>3, <1>7, <1>8
<1>. QED
  BY <1>2, <1>3, <1>9, StandsNext DEF c, Q

LEMMA GoOnKeeps == ThreadInv /\ GoOn => ThreadInv'
<1>1. SUFFICES ASSUME ThreadInv, GoOn, NEW i, NEW o, StandsAt(i, o)
               PROVE  ThreadInv'
  BY DEF ThreadInv
<1> DEFINE c == Last(callers)
           Q == Whole(image)[i]
           there == [rsp |-> rsp', registers |-> registers', allocated |-> allocated']
<1>2. /\ image \in Images /\ callers \in Seq(Callers) /\ callers # <<>>
      /\ Calls(callers, memory)
      /\ i \in 1 .. Len(image) /\ o \in 0 .. 2 * Length(i) + 2
      /\ Running = i /\ Offset = o /\ Len(Prologue) = Length(i)
      /\ o \in Nat /\ Length(i) \in Nat /\ Before(i) \in Nat
      /\ rip = BeginOf(i) + o /\ BeginOf(i) \in Nat
      /\ Len(Q) = Before(i) + Length(i)
      /\ FrameAt(Q, Remaining(i, o), Executed(i, o), c, Here, memory)
  BY <1>1, Standing
<1>3. /\ o \in {Length(i), Length(i) + 1}
      /\ image' = image /\ rip' = rip + 1 /\ memory' = memory /\ callers' = callers
      /\ rsp' = rsp /\ allocated' = allocated /\ registers' = registers
  BY <1>1, <1>2 DEF GoOn, InBody
<1>4. /\ Remaining(i, o) = Len(Q) /\ Executed(i, o) = Len(Q)
      /\ Remaining(i, o + 1) = Len(Q) /\ Executed(i, o + 1) = Len(Q)
      /\ o + 1 \in 0 .. 2 * Length(i) + 2 /\ rip' = BeginOf(i) + (o + 1)
  <2>1. rip' = BeginOf(i) + (o + 1)
    BY <1>2, <1>3
  <2>. QED
    BY <1>2, <1>3, <2>1, BodyCount
<1>5. FrameAt(Q, Remaining(i, o + 1), Executed(i, o + 1), c, there, memory')
  <2>1. there = Here /\ memory' = memory
    BY <1>3 DEF Here
  <2>. HIDE DEF there, Q, c
  <2>. QED
    BY <1>2, <1>4, <2>1
<1>. QED
  BY <1>2, <1>3, <1>4, <1>5, StandsNext

\* The innermost call has the lowest stack pointer.
LEMMA CallsOrder ==
  ASSUME NEW cs \in Seq(Callers), cs # <<>>, NEW mem, Calls(cs, mem), NEW j \in 1 .. Len(cs)
  PROVE  /\ Last(cs).rsp <= cs[j].rsp /\ Last(cs).rsp \in Int /\ cs[j].rsp \in Int
         /\ Last(cs) = cs[Len(cs)] /\ Len(cs) \in 1 .. Len(cs)
<1>1. Len(cs) \in Nat /\ \A k \in 1 .. Len(cs) : cs[k].rsp \in Int
  <2>1. Len(cs) \in Nat /\ \A k \in 1 .. Len(cs) : cs[k] \in Callers
    BY LenProperties
  <2>. QED
    BY <2>1 DEF Callers
<1>2. Len(cs) \in 1 .. Len(cs) /\ Last(cs) = cs[Len(cs)]
  BY <1>1, EmptySeq DEF Last
<1>3. j = Len(cs) \/ (j \in 1 .. Len(cs) - 1 /\ Len(cs) \in 2 .. Len(cs))
  BY <1>1
<1>4. j \in 1 .. Len(cs) - 1 /\ Len(cs) \in 2 .. Len(cs) => cs[Len(cs)].rsp < cs[j].rsp
  BY DEF Calls
<1>5. cs[Len(cs)].rsp <= cs[j].rsp
  BY <1>1, <1>2, <1>3, <1>4
<1>. QED
  BY <1>1, <1>2, <1>5

\* What a call does to the calls.
LEMMA CallsGrow ==
  ASSUME NEW cs \in Seq(Callers), cs # <<>>, NEW mem, Calls(cs, mem),
         NEW c \in Callers, CalledFrom(c, Last(cs), mem), c.rsp < Last(cs).rsp
  PROVE  /\ Append(cs, c) \in Seq(Callers) /\ Append(cs, c) # <<>>
         /\ Last(Append(cs, c)) = c
         /\ Calls(Append(cs, c), mem)
<1> DEFINE ds == Append(cs, c)
           n == Len(cs)
<1>1. /\ n \in Nat /\ n # 0 /\ ds \in Seq(Callers) /\ Len(ds) = n + 1
      /\ \A k \in 1 .. n : ds[k] = cs[k]
      /\ ds[n + 1] = c
  BY AppendProperties, LenProperties, EmptySeq
<1>. HIDE DEF ds
<1>2. ds # <<>> /\ Last(ds) = c
  BY <1>1, EmptySeq DEF Last
<1>3. ASSUME NEW k \in 2 .. Len(ds)
      PROVE  /\ CalledFrom(ds[k], ds[k - 1], mem)
             /\ \A j \in 1 .. k - 1 : ds[k].rsp < ds[j].rsp
  <2>1. CASE k \in 2 .. n
    <3>1. /\ ds[k] = cs[k] /\ ds[k - 1] = cs[k - 1]
          /\ \A j \in 1 .. k - 1 : ds[j] = cs[j]
      BY <1>1, <2>1
    <3>. QED
      BY <2>1, <3>1 DEF Calls
  <2>2. CASE k = n + 1
    <3>1. ds[k] = c /\ k - 1 = n /\ n \in 1 .. n /\ ds[n] = cs[n] /\ cs[n] = Last(cs)
      BY <1>1, <2>2 DEF Last
    <3>2. ASSUME NEW j \in 1 .. k - 1 PROVE ds[k].rsp < ds[j].rsp
      <4>1. j \in 1 .. n /\ ds[j] = cs[j]
        BY <1>1, <3>1
      <4>2. /\ Last(cs).rsp <= cs[j].rsp /\ Last(cs).rsp \in Int /\ cs[j].rsp \in Int
            /\ c.rsp \in Int
        BY <4>1, CallsOrder DEF Callers
      <4>. QED
        BY <3>1, <4>1, <4>2
    <3>3. CalledFrom(ds[k], ds[k - 1], mem)
      BY <3>1
    <3>. QED
      BY <3>2, <3>3
  <2>3. k \in 2 .. n \/ k = n + 1
    BY <1>1
  <2>. QED
    BY <2>1, <2>2, <2>3
<1>4. Calls(ds, mem)
  BY <1>3 DEF Calls
<1>. QED
  BY <1>1, <1>2, <1>4 DEF ds

LEMMA CallsShrink ==
  ASSUME NEW cs \in Seq(Callers), NEW mem, Calls(cs, mem), Len(cs) > 1
  PROVE  /\ Front(cs) \in Seq(Callers) /\ Front(cs) # <<>>
         /\ Calls(Front(cs), mem) /\ CalledFrom(Last(cs), Last(Front(cs)), mem)
<1> DEFINE ds == Front(cs)
           n == Len(cs) - 1
<1>1. /\ Len(cs) \in Nat /\ n \in Nat /\ n # 0 /\ ds \in Seq(Callers) /\ Len(ds) = n
      /\ \A k \in 1 .. n : ds[k] = cs[k]
  <2>0. Len(cs) \in Nat
    BY LenProperties
  <2>1. Len(cs) \in Nat /\ n \in Nat /\ n # 0
    <3>1. \A m \in Nat : m > 1 => m - 1 \in Nat /\ m - 1 # 0
      OBVIOUS
    <3>. QED
      BY ONLY <2>0, <3>1, Len(cs) > 1
  <2>2. ds = SubSeq(cs, 1, Len(cs) - 1)
    BY DEF Front
  <2>3. /\ ds = [k \in 1 .. n |-> cs[k]]
    BY <2>1, <2>2, SubSeqProperties
  <2>4. \A k \in 1 .. n : cs[k] \in Callers
    <3>1. \A k \in 1 .. n : k \in 1 .. Len(cs)
      BY <2>1
    <3>. QED
      BY <3>1, LenProperties
  <2>5. ds \in Seq(Callers) /\ Len(ds) = n
    BY <2>1, <2>3, <2>4
  <2>. QED
    BY <2>1, <2>3, <2>5
<1>. HIDE DEF ds
<1>2. ds # <<>> /\ Last(ds) = cs[n]
  <2>1. n \in 1 .. n
    BY <1>1
  <2>. QED
    BY <1>1, <2>1, EmptySeq DEF Last
<1>3. CalledFrom(Last(cs), Last(ds), mem)
  <2>1. Last(cs) = cs[Len(cs)] /\ Len(cs) \in 2 .. Len(cs)
    BY <1>1 DEF Last
  <2>. QED
    BY <1>2, <2>1 DEF Calls
<1>4. Calls(ds, mem)
  <2>1. SUFFICES ASSUME NEW k \in 2 .. n
                 PROVE  /\ CalledFrom(ds[k], ds[k - 1], mem)
                        /\ \A j \in 1 .. k - 1 : ds[k].rsp < ds[j].rsp
    BY <1>1 DEF Calls
  <2>2. /\ k \in 2 .. Len(cs) /\ ds[k] = cs[k] /\ ds[k - 1] = cs[k - 1]
        /\ \A j \in 1 .. k - 1 : ds[j] = cs[j]
    BY <1>1
  <2>. QED
    BY <2>2 DEF Calls
<1>. QED
  BY <1>1, <1>2, <1>3, <1>4 DEF ds

\* A function that can be called begins with nothing done.
LEMMA EntryCount ==
  ASSUME image \in Images, NEW g \in DOMAIN image, image[g].parent = 0
  PROVE  /\ g \in 1 .. Len(image) /\ Length(g) \in Nat /\ 0 \in 0 .. 2 * Length(g) + 2
         /\ BeginOf(g) \in Nat /\ BeginOf(g) = BeginOf(g) + 0
         /\ Before(g) = 0 /\ Remaining(g, 0) = 0 /\ Executed(g, 0) = 0
         /\ Whole(image)[g] \in Seq(Operations)
<1>1. /\ g \in 1 .. Len(image) /\ Length(g) \in Nat /\ Len(image) \in Nat
  BY ImageFacts DEF Length
<1>2. Before(g) = 0
  <2>1. Whole(image)[0] = <<>>
    BY WholeFacts
  <2>. QED
    BY <2>1, EmptySeq DEF Before
<1>3. Whole(image)[g] \in Seq(Operations)
  <2>1. g \in 0 .. Len(image)
    BY <1>1
  <2>. QED
    BY <2>1, WholeFacts
<1>4. BeginOf(g) \in Nat
  <2>1. g - 1 \in 0 .. Len(image)
    BY <1>1
  <2>. QED
    BY <2>1, EndFacts DEF BeginOf
<1>5. Remaining(g, 0) = 0 /\ Executed(g, 0) = 0 /\ 0 \in 0 .. 2 * Length(g) + 2
  <2> DEFINE l == Length(g)
  <2>1. l \in Nat
    BY <1>1
  <2>. SUFFICES UndoneTo(0, l, 0) = 0 /\ RunTo(0, l, 0) = 0 /\ 0 \in 0 .. 2 * l + 2
    BY <1>2 DEF Remaining, Executed
  <2>. HIDE DEF l
  <2>. QED
    BY <2>1 DEF UndoneTo, RunTo
<1>. QED
  BY <1>1, <1>2, <1>3, <1>4, <1>5

LEMMA CallKeeps == ThreadInv /\ Call => ThreadInv'
<1>1. SUFFICES ASSUME ThreadInv, Call, NEW i, NEW o, StandsAt(i, o)
               PROVE  ThreadInv'
  BY DEF ThreadInv
<1> DEFINE c == Last(callers)
           Q == Whole(image)[i]
           new == [rip |-> rip + 1, rsp |-> rsp, registers |-> registers,
                   allocated |-> allocated, function |-> i]
           there == [rsp |-> rsp', registers |-> registers', allocated |-> allocated']
<1>2. /\ image \in Images /\ callers \in Seq(Callers) /\ callers # <<>> /\ c \in Callers
      /\ Calls(callers, memory)
      /\ i \in 1 .. Len(image)
      /\ Running = i /\ Offset = o /\ Len(Prologue) = Length(i)
      /\ o \in Nat /\ Length(i) \in Nat /\ Before(i) \in Nat
      /\ rip = BeginOf(i) + o /\ BeginOf(i) \in Nat /\ rip \in Nat
      /\ Q \in Seq(Operations) /\ WellFormed(Q)
      /\ Len(Q) = Before(i) + Length(i)
      /\ FrameAt(Q, Remaining(i, o), Executed(i, o), c, Here, memory)
      /\ memory \in Memories /\ registers \in Registers
      /\ rsp \in Int /\ rsp > 0 /\ allocated \in {0, 1}
      /\ Slot(c) \in 1 .. StackSize /\ StackSize \in Nat
  BY <1>1, Standing
<1>3. PICK g \in DOMAIN image : /\ image[g].parent = 0
                                /\ rip' = BeginOf(g) /\ callers' = Append(callers, new)
  <2>. HIDE DEF Q, c
  <2>. QED
    BY <1>1, <1>2 DEF Call
<1>4. /\ o = Length(i) /\ ~ image[i].leaf
      /\ rsp' = rsp - 1 /\ rsp' > 0 /\ memory' = [memory EXCEPT ![rsp - 1] = rip + 1]
      /\ allocated' = 0 /\ image' = image /\ registers' = registers
  BY <1>1, <1>2 DEF Call, HasRoom
<1>. HIDE DEF Q, c, new, there
<1>5. Remaining(i, o) = Len(Q) /\ Executed(i, o) = Len(Q) /\ Len(Q) \in 0 .. Len(Q)
  <2>1. Remaining(i, o) = Len(Q) /\ Executed(i, o) = Len(Q)
    BY <1>2, <1>4, BodyCount
  <2>. QED
    BY <1>2, <2>1, LenProperties
<1>6. FrameAt(Q, Len(Q), Len(Q), c, Here, memory)
  BY <1>2, <1>5
<1>7. new.rsp = rsp /\ new.registers = registers /\ new.allocated = allocated
      /\ new.rip = rip + 1 /\ new.function = i
  BY DEF new
<1>8. new \in Callers
  <2>1. rip + 1 \in Int /\ i \in Nat
    BY <1>2, ImageFacts
  <2>. QED
    BY <1>2, <2>1 DEF new, Callers
<1>9. rsp <= Slot(c) /\ rsp < c.rsp
  <2>1. Here.rsp = rsp
    BY DEF Here
  <2>. QED
    BY <1>2, <1>5, <1>6, <2>1, FrameReaches
<1>10. /\ rsp - 1 \in 1 .. StackSize /\ memory' \in Memories /\ memory'[rsp - 1] = rip + 1
       /\ \A a \in 1 .. StackSize : rsp <= a => memory'[a] = memory[a]
  <2> DEFINE w == rsp - 1
             v == rip + 1
  <2>1. w \in 1 .. StackSize /\ v \in Int /\ \A a \in 1 .. StackSize : rsp <= a => a # w
    <3> DEFINE slot == Slot(c)
    <3>1. /\ rsp \in Int /\ rsp - 1 > 0 /\ rsp <= slot /\ rip \in Nat
          /\ slot \in 1 .. StackSize /\ StackSize \in Nat
      BY <1>2, <1>4, <1>9
    <3>. HIDE DEF slot
    <3>. QED
      BY <3>1
  <2>2. memory' = [memory EXCEPT ![w] = v]
    BY <1>4
  <2>3. SUFFICES /\ w \in 1 .. StackSize /\ memory' \in Memories /\ memory'[w] = v
                 /\ \A a \in 1 .. StackSize : rsp <= a => memory'[a] = memory[a]
    OBVIOUS
  <2>. HIDE DEF w, v
  <2>. QED
    BY <1>2, <2>1, <2>2 DEF Memories
<1>11. Calls(callers, memory')
  <2>1. \A a \in 1 .. StackSize : c.rsp <= a => memory'[a] = memory[a]
    <3>1. c.rsp \in Int
      BY <1>2 DEF Callers
    <3>2. \A a \in 1 .. StackSize : c.rsp <= a => rsp <= a
      <4> DEFINE outer == c.rsp
      <4>1. outer \in Int /\ rsp \in Int /\ rsp < outer /\ StackSize \in Nat
        BY <1>2, <1>9, <3>1
      <4>. HIDE DEF outer
      <4>2. \A a \in 1 .. StackSize : outer <= a => rsp <= a
        BY <4>1
      <4>. QED
        BY <4>2 DEF outer
    <3>. QED
      BY <1>10, <3>2
  <2>. QED
    BY <1>2, <1>10, <2>1, CallsKeep DEF c
<1>12. CalledFrom(new, c, memory')
  <2>1. FrameAt(Q, Len(Q), Len(Q), c, new, memory)
    <3>1. new.rsp = Here.rsp /\ new.registers = Here.registers /\ new.allocated = Here.allocated
      BY <1>7 DEF Here
    <3>. QED
      BY <1>6, <3>1, FrameSame
  <2>2. FrameAt(Q, Len(Q), Len(Q), c, new, memory')
    BY <1>2, <1>5, <1>7, <1>10, <2>1, FrameKept
  <2>3. new.rip = BeginOf(i) + (Length(i) + 1)
    <3> DEFINE begin == BeginOf(i)
               l == Length(i)
    <3>1. begin \in Nat /\ l \in Nat /\ new.rip = (begin + l) + 1
      BY <1>2, <1>4, <1>7
    <3>. SUFFICES new.rip = begin + (l + 1)
      OBVIOUS
    <3>. HIDE DEF begin, l
    <3>. QED
      BY <3>1
  <2>. QED
    BY <1>2, <1>4, <1>7, <2>2, <2>3 DEF CalledFrom, Q
<1>13. /\ callers' \in Seq(Callers) /\ callers' # <<>> /\ Last(callers') = new
       /\ Calls(callers', memory')
  <2>1. new.rsp < c.rsp
    BY <1>7, <1>9
  <2>. QED
    BY <1>2, <1>3, <1>8, <1>11, <1>12, <2>1, CallsGrow DEF c
<1>14. g \in 1 .. Len(image) /\ 0 \in 0 .. 2 * Length(g) + 2 /\ rip' = BeginOf(g) + 0
       /\ Remaining(g, 0) = 0 /\ Executed(g, 0) = 0 /\ Whole(image)[g] \in Seq(Operations)
  BY <1>2, <1>3, EntryCount
<1>15. FrameAt(Whole(image)[g], 0, 0, new, there, memory')
  <2>1. /\ new.rsp \in Int /\ new.rip \in Int /\ new.registers \in Registers
        /\ there.rsp = new.rsp - 1 /\ there.rsp \in 1 .. StackSize /\ there.allocated = 0
        /\ there.registers = new.registers /\ memory'[there.rsp] = new.rip
    <3>1. there.rsp = rsp - 1 /\ there.allocated = 0 /\ there.registers = registers
      BY <1>4 DEF there
    <3>. QED
      BY <1>2, <1>7, <1>10, <3>1
  <2>. QED
    BY <1>10, <1>14, <2>1, FrameCalled
<1>16. FrameAt(Whole(image)[g], Remaining(g, 0), Executed(g, 0), Last(callers'), there, memory')
  BY <1>13, <1>14, <1>15
<1>. QED
  BY <1>2, <1>4, <1>13, <1>14, <1>16, StandsNext DEF there

\* A function's prologue, with those before it.
LEMMA LengthOfWhole ==
  ASSUME image \in Images, NEW p \in 1 .. Len(image)
  PROVE  /\ Length(p) \in Nat /\ Before(p) \in Nat
         /\ Len(Whole(image)[p]) = Before(p) + Length(p)
<1> DEFINE q == image[p].parent
           Q == Whole(image)[q]
           P == image[p].prologue
<1>1. q \in 0 .. Len(image) /\ P \in Seq(Operations) /\ Length(p) \in Nat
  BY ImageFacts DEF Length
<1>2. Q \in Seq(Operations) /\ Whole(image)[p] = Q \o P
  BY <1>1, WholeFacts
<1>. HIDE DEF Q, P
<1>3. Len(Q) \in Nat /\ Len(Whole(image)[p]) = Len(Q) + Len(P)
  BY <1>1, <1>2, Beginning, LenProperties
<1>. QED
  BY <1>1, <1>3 DEF Q, P, Before, Length

LEMMA SegmentFacts ==
  ASSUME image \in Images, NEW s \in 1 .. Len(image), image[s].parent # 0
  PROVE  LET p == image[s].parent
         IN /\ p \in 1 .. Len(image)
            /\ Whole(image)[p] \in Seq(Operations) /\ image[s].prologue \in Seq(Operations)
            /\ Whole(image)[s] = Whole(image)[p] \o image[s].prologue
            /\ \A k \in DOMAIN image[s].prologue :
                 image[s].prologue[k].op \in {"Save", "SaveXmm"}
            /\ Before(s) = Len(Whole(image)[p]) /\ Before(s) \in Nat
            /\ Length(s) \in Nat /\ Length(p) \in Nat /\ Before(p) \in Nat
            /\ Len(Whole(image)[p]) = Before(p) + Length(p)
            /\ BeginOf(s) \in Nat /\ BeginOf(p) \in Nat
<1> DEFINE p == image[s].parent
<1>1. /\ Len(image) \in Nat /\ p \in 1 .. Len(image) /\ image[s].prologue \in Seq(Operations)
      /\ \A k \in DOMAIN image[s].prologue :
                 image[s].prologue[k].op \in {"Save", "SaveXmm"}
      /\ Length(s) \in Nat /\ Length(p) \in Nat
  BY ImageFacts DEF Length
<1>2. p \in 0 .. Len(image) /\ p - 1 \in 0 .. Len(image) /\ s - 1 \in 0 .. Len(image)
  BY <1>1
<1>3. /\ Whole(image)[p] \in Seq(Operations)
      /\ Whole(image)[s] = Whole(image)[p] \o image[s].prologue
  BY <1>2, WholeFacts
<1>4. BeginOf(s) \in Nat /\ BeginOf(p) \in Nat
  BY <1>2, EndFacts DEF BeginOf
<1>5. Before(s) = Len(Whole(image)[p]) /\ Before(s) \in Nat
  BY <1>3, LenProperties DEF Before
<1>6. Before(p) \in Nat /\ Len(Whole(image)[p]) = Before(p) + Length(p)
  BY <1>1, LengthOfWhole
<1>. QED
  BY <1>1, <1>3, <1>4, <1>5, <1>6

\* At the end of a function nothing of its own is left.
LEMMA EndCount ==
  ASSUME NEW i, Length(i) \in Nat, Before(i) \in Nat
  PROVE  /\ Executed(i, 2 * Length(i) + 2) = Before(i) + Length(i)
         /\ Remaining(i, 2 * Length(i) + 2) = Before(i)
         /\ 0 \in 0 .. 2 * Length(i) + 2 /\ Length(i) + 1 \in 0 .. 2 * Length(i) + 2
         /\ Executed(i, 0) = Before(i) /\ Remaining(i, 0) = Before(i)
         /\ Executed(i, Length(i) + 1) = Before(i) + Length(i)
         /\ Remaining(i, Length(i) + 1) = Before(i) + Length(i)
<1> DEFINE l == Length(i)
           b == Before(i)
<1>1. l \in Nat /\ b \in Nat
  OBVIOUS
<1>. SUFFICES /\ RunTo(b, l, 2 * l + 2) = b + l /\ UndoneTo(b, l, 2 * l + 2) = b
              /\ 0 \in 0 .. 2 * l + 2 /\ l + 1 \in 0 .. 2 * l + 2
              /\ RunTo(b, l, 0) = b /\ UndoneTo(b, l, 0) = b
              /\ RunTo(b, l, l + 1) = b + l /\ UndoneTo(b, l, l + 1) = b + l
  BY DEF Executed, Remaining
<1>. HIDE DEF l, b
<1>. QED
  BY <1>1 DEF RunTo, UndoneTo

LEMMA EnterSegmentKeeps == ThreadInv /\ EnterSegment => ThreadInv'
<1>1. SUFFICES ASSUME ThreadInv, EnterSegment, NEW i, NEW o, StandsAt(i, o)
               PROVE  ThreadInv'
  BY DEF ThreadInv
<1> DEFINE c == Last(callers)
           Q == Whole(image)[i]
           there == [rsp |-> rsp', registers |-> registers', allocated |-> allocated']
<1>2. /\ image \in Images /\ callers \in Seq(Callers) /\ callers # <<>>
      /\ Calls(callers, memory)
      /\ i \in 1 .. Len(image)
      /\ Running = i /\ Offset = o /\ Len(Prologue) = Length(i)
      /\ Length(i) \in Nat /\ Before(i) \in Nat
      /\ Q \in Seq(Operations) /\ Len(Q) = Before(i) + Length(i)
      /\ FrameAt(Q, Remaining(i, o), Executed(i, o), c, Here, memory)
  BY <1>1, Standing
<1>3. PICK s \in DOMAIN image : image[s].parent = i /\ rip' = BeginOf(s)
  BY <1>1, <1>2 DEF EnterSegment
<1>4. /\ o = Length(i) /\ image' = image /\ rsp' = rsp /\ registers' = registers
      /\ memory' = memory /\ allocated' = allocated /\ callers' = callers
  BY <1>1, <1>2 DEF EnterSegment
<1>5. /\ s \in 1 .. Len(image) /\ i # 0
  BY <1>2, <1>3, ImageFacts
<1>6. /\ Whole(image)[s] = Q \o image[s].prologue
      /\ image[s].prologue \in Seq(Operations)
      /\ Before(s) = Len(Q) /\ Length(s) \in Nat /\ Before(s) \in Nat
      /\ BeginOf(s) \in Nat
  BY <1>2, <1>3, <1>5, SegmentFacts
<1>7. /\ 0 \in 0 .. 2 * Length(s) + 2
      /\ Remaining(s, 0) = Len(Q) /\ Executed(s, 0) = Len(Q)
      /\ rip' = BeginOf(s) + 0
  BY <1>3, <1>6, EndCount
<1>. HIDE DEF Q, c
<1>8. FrameAt(Q, Len(Q), Len(Q), c, Here, memory)
  <2>1. Remaining(i, o) = Len(Q) /\ Executed(i, o) = Len(Q)
    BY <1>2, <1>4, BodyCount
  <2>. QED
    BY <1>2, <2>1
<1>9. FrameAt(Whole(image)[s], Len(Q), Len(Q), c, Here, memory)
  <2>1. Len(Q) \in 0 .. Len(Q)
    BY <1>2, LenProperties
  <2>. QED
    BY <1>2, <1>6, <1>8, <2>1, FrameOfParent
<1>10. FrameAt(Whole(image)[s], Remaining(s, 0), Executed(s, 0), c, there, memory')
  <2>1. there = Here /\ memory' = memory
    BY <1>4 DEF Here
  <2>. HIDE DEF there
  <2>. QED
    BY <1>7, <1>9, <2>1
<1>. QED
  BY <1>2, <1>4, <1>5, <1>7, <1>10, StandsNext DEF c

LEMMA LeaveSegmentKeeps == ThreadInv /\ LeaveSegment => ThreadInv'
<1>1. SUFFICES ASSUME ThreadInv, LeaveSegment, NEW i, NEW o, StandsAt(i, o)
               PROVE  ThreadInv'
  BY DEF ThreadInv
<1> DEFINE c == Last(callers)
           R == Whole(image)[i]
           p == image[i].parent
           Q == Whole(image)[p]
           P == image[i].prologue
           there == [rsp |-> rsp', registers |-> registers', allocated |-> allocated']
<1>2. /\ image \in Images /\ callers \in Seq(Callers) /\ callers # <<>>
      /\ Calls(callers, memory)
      /\ i \in 1 .. Len(image)
      /\ Running = i /\ Length(i) \in Nat /\ Before(i) \in Nat
      /\ rip = EndOf(i) - 1 <=> o = 2 * Length(i) + 2
      /\ Len(R) = Before(i) + Length(i)
      /\ FrameAt(R, Remaining(i, o), Executed(i, o), c, Here, memory)
  BY <1>1, Standing
<1>3. /\ p # 0 /\ rip' = BeginOf(p) + Len(image[p].prologue) + 1
      /\ rip = EndOf(i) - 1 /\ image' = image /\ rsp' = rsp /\ registers' = registers
      /\ memory' = memory /\ allocated' = allocated /\ callers' = callers
  BY <1>1, <1>2 DEF LeaveSegment
<1>4. /\ p \in 1 .. Len(image) /\ Q \in Seq(Operations) /\ P \in Seq(Operations)
      /\ R = Q \o P /\ \A k \in DOMAIN P : P[k].op \in {"Save", "SaveXmm"}
      /\ Before(i) = Len(Q) /\ Length(p) \in Nat /\ Before(p) \in Nat
      /\ Len(Q) = Before(p) + Length(p) /\ BeginOf(p) \in Nat
  BY <1>2, <1>3, SegmentFacts
<1>. HIDE DEF R, Q, P, c, p
<1>5. FrameAt(Q \o P, Len(Q), Len(Q \o P), c, Here, memory)
  <2>1. o = 2 * Length(i) + 2
    BY <1>2, <1>3
  <2>2. Remaining(i, o) = Before(i) /\ Executed(i, o) = Before(i) + Length(i)
    BY <1>2, <2>1, EndCount
  <2>. QED
    BY <1>2, <1>4, <2>2
<1>6. FrameAt(Q, Len(Q), Len(Q), c, Here, memory)
  BY <1>4, <1>5, SegmentLeaves
<1>7. /\ Length(p) + 1 \in 0 .. 2 * Length(p) + 2
      /\ Remaining(p, Length(p) + 1) = Len(Q) /\ Executed(p, Length(p) + 1) = Len(Q)
  BY <1>4, EndCount
<1>8. rip' = BeginOf(p) + (Length(p) + 1)
  <2>1. rip' = BeginOf(p) + Length(p) + 1
    BY <1>3 DEF Length
  <2>. QED
    BY <1>4, <2>1
<1>9. FrameAt(Whole(image)[p], Remaining(p, Length(p) + 1), Executed(p, Length(p) + 1), c,
              there, memory')
  <2>1. there = Here /\ memory' = memory
    BY <1>3 DEF Here
  <2>. HIDE DEF there
  <2>. QED
    BY <1>6, <1>7, <2>1 DEF Q
<1>. QED
  BY <1>2, <1>3, <1>4, <1>7, <1>8, <1>9, StandsNext DEF c

LEMMA ReturnKeeps == ThreadInv /\ ReturnToCaller => ThreadInv'
<1>1. SUFFICES ASSUME ThreadInv, ReturnToCaller, NEW i, NEW o, StandsAt(i, o)
               PROVE  ThreadInv'
  BY DEF ThreadInv
<1> DEFINE c == Last(callers)
           f == c.function
           Q == Whole(image)[f]
           R == Whole(image)[i]
           there == [rsp |-> rsp', registers |-> registers', allocated |-> allocated']
<1>2. /\ image \in Images /\ callers \in Seq(Callers) /\ callers # <<>>
      /\ Calls(callers, memory)
      /\ i \in 1 .. Len(image)
      /\ Running = i /\ Length(i) \in Nat /\ Before(i) \in Nat
      /\ rip = EndOf(i) - 1 <=> o = 2 * Length(i) + 2
      /\ R \in Seq(Operations) /\ Len(R) = Before(i) + Length(i)
      /\ FrameAt(R, Remaining(i, o), Executed(i, o), c, Here, memory)
  BY <1>1, Standing
<1>3. /\ image[i].parent = 0 /\ Len(callers) > 1
      /\ rip = EndOf(i) - 1 /\ rip' = memory[rsp] /\ rsp' = rsp + 1
      /\ allocated' = c.allocated /\ callers' = Front(callers)
      /\ image' = image /\ registers' = registers /\ memory' = memory
  BY <1>1, <1>2 DEF ReturnToCaller
<1>4. /\ Front(callers) \in Seq(Callers) /\ Front(callers) # <<>>
      /\ Calls(Front(callers), memory) /\ CalledFrom(c, Last(Front(callers)), memory)
  BY <1>2, <1>3, CallsShrink
<1>. HIDE DEF R, c
<1>5. FrameAt(R, 0, Len(R), c, Here, memory)
  <2>1. o = 2 * Length(i) + 2
    BY <1>2, <1>3
  <2>2. Before(i) = 0
    <3>1. i \in DOMAIN image
      BY <1>2, ImageFacts
    <3>. QED
      BY <1>2, <1>3, <3>1, EntryCount
  <2>3. Remaining(i, o) = Before(i) /\ Executed(i, o) = Before(i) + Length(i)
    BY <1>2, <2>1, EndCount
  <2>. QED
    BY <1>2, <2>2, <2>3
<1>6. rsp = c.rsp - 1 /\ memory[rsp] = c.rip /\ registers = c.registers
  <2>1. Here.rsp = rsp /\ Here.registers = registers
    BY DEF Here
  <2>2. Len(R) \in 0 .. Len(R)
    BY <1>2, LenProperties
  <2>. QED
    BY <1>2, <1>5, <2>1, <2>2, FrameReturned
<1>7. /\ f \in 1 .. Len(image) /\ c.rip = BeginOf(f) + (Length(f) + 1)
      /\ FrameAt(Q, Len(Q), Len(Q), Last(Front(callers)), c, memory)
  BY <1>4 DEF CalledFrom
<1>8. rsp' = c.rsp
  <2>1. c.rsp \in Int
    BY <1>5 DEF FrameAt
  <2>. QED
    BY <1>3, <1>6, <2>1
<1>9. /\ Length(f) \in Nat /\ Before(f) \in Nat /\ Len(Q) = Before(f) + Length(f)
  BY <1>2, <1>7, LengthOfWhole
<1>. HIDE DEF Q, f
<1>10. /\ Length(f) + 1 \in 0 .. 2 * Length(f) + 2
       /\ Remaining(f, Length(f) + 1) = Len(Q) /\ Executed(f, Length(f) + 1) = Len(Q)
  BY <1>9, EndCount
<1>11. FrameAt(Q, Remaining(f, Length(f) + 1), Executed(f, Length(f) + 1),
               Last(callers'), there, memory')
  <2>1. there.rsp = c.rsp /\ there.registers = c.registers /\ there.allocated = c.allocated
    BY <1>3, <1>6, <1>8
  <2>. HIDE DEF there
  <2>2. FrameAt(Q, Len(Q), Len(Q), Last(Front(callers)), there, memory)
    BY <1>7, <2>1, FrameSame
  <2>. QED
    BY <1>3, <1>10, <2>2
<1>12. rip' = BeginOf(f) + (Length(f) + 1)
  BY <1>3, <1>6, <1>7
<1>. QED
  BY <1>2, <1>3, <1>4, <1>7, <1>10, <1>11, <1>12, StandsNext DEF Q

LEMMA ThreadBegins == ThreadInit => ThreadInv
<1>1. SUFFICES ASSUME ThreadInit PROVE ThreadInv
  OBVIOUS
<1> DEFINE c == [rip |-> 0, rsp |-> StackSize + 1, registers |-> registers,
                  allocated |-> 0, function |-> 0]
<1>2. /\ image \in Images /\ rip = BeginOf(1) /\ rsp = StackSize
      /\ registers = [Rbx |-> - 1, Rbp |-> - 2, Rsi |-> - 3, Rdi |-> - 4,
                      R12 |-> - 5, R13 |-> - 6, R14 |-> - 7, R15 |-> - 8]
      /\ memory = [a \in 1 .. StackSize |-> IF a = StackSize THEN 0 ELSE Garbage]
      /\ allocated = 0 /\ callers = <<c>>
  BY <1>1 DEF ThreadInit
<1>3. StackSize \in Nat /\ StackSize \in 1 .. StackSize /\ StackSize + 1 \in Int
      /\ (StackSize + 1) - 1 = StackSize
  BY UnwinderAssumption
<1>4. registers \in Registers
  BY <1>2 DEF Registers, Nonvolatile
<1>5. memory \in Memories /\ memory[StackSize] = 0
  BY <1>2, <1>3 DEF Memories, Garbage
<1>6. c \in Callers
  BY <1>3, <1>4 DEF Callers
<1>. HIDE DEF c
<1>7. /\ callers \in Seq(Callers) /\ callers # <<>> /\ Last(callers) = c /\ Len(callers) = 1
  BY <1>2, <1>6 DEF Last
<1>8. Calls(callers, memory)
  BY <1>7 DEF Calls
<1>9. /\ 1 \in DOMAIN image /\ image[1].parent = 0
  BY <1>2, ImageFacts
<1>10. /\ 1 \in 1 .. Len(image) /\ 0 \in 0 .. 2 * Length(1) + 2 /\ rip = BeginOf(1) + 0
       /\ Remaining(1, 0) = 0 /\ Executed(1, 0) = 0 /\ Whole(image)[1] \in Seq(Operations)
  BY <1>2, <1>9, EntryCount
<1>11. FrameAt(Whole(image)[1], 0, 0, c, Here, memory)
  <2>1. /\ c.rsp \in Int /\ c.rip \in Int /\ c.registers \in Registers
        /\ Here.rsp = c.rsp - 1 /\ Here.rsp \in 1 .. StackSize /\ Here.allocated = 0
        /\ Here.registers = c.registers /\ memory[Here.rsp] = c.rip
    BY <1>2, <1>3, <1>4, <1>5 DEF c, Here
  <2>. QED
    BY <1>5, <1>10, <2>1, FrameCalled
<1>12. StandsAt(1, 0)
  BY <1>7, <1>10, <1>11 DEF StandsAt
<1>. QED
  BY <1>2, <1>7, <1>8, <1>12 DEF ThreadInv

LEMMA ThreadStutters == ThreadInv /\ UNCHANGED thread => ThreadInv'
<1>1. SUFFICES ASSUME ThreadInv, UNCHANGED thread, NEW i, NEW o, StandsAt(i, o)
               PROVE  ThreadInv'
  BY DEF ThreadInv
<1>2. /\ image' = image /\ rip' = rip /\ rsp' = rsp /\ registers' = registers
      /\ memory' = memory /\ allocated' = allocated /\ callers' = callers
  BY <1>1 DEF thread
<1>3. /\ image \in Images /\ callers \in Seq(Callers) /\ callers # <<>>
      /\ Calls(callers, memory)
  BY <1>1 DEF ThreadInv
<1>4. /\ i \in 1 .. Len(image) /\ o \in 0 .. 2 * Length(i) + 2
      /\ rip = BeginOf(i) + o
      /\ FrameAt(Whole(image)[i], Remaining(i, o), Executed(i, o), Last(callers), Here, memory)
  BY <1>1 DEF StandsAt
<1>5. [rsp |-> rsp', registers |-> registers', allocated |-> allocated'] = Here
  BY <1>2 DEF Here
<1>. QED
  BY <1>2, <1>3, <1>4, <1>5, StandsNext

\* Whatever the thread does, and however deep it calls: the stack holds the
\* return address and the saved registers of every active call.
THEOREM ThreadKeepsItsFrames == ThreadSpec => []ThreadInv
<1>1. ThreadInit => ThreadInv
  BY ThreadBegins
<1>2. ThreadInv /\ [ThreadNext]_thread => ThreadInv'
  <2>1. SUFFICES ASSUME ThreadInv, [ThreadNext]_thread PROVE ThreadInv'
    OBVIOUS
  <2>. QED
    BY <2>1, RunPrologueKeeps, RunEpilogueKeeps, UseRegisterKeeps, AllocateMoreKeeps,
       GoOnKeeps, CallKeeps, EnterSegmentKeeps, LeaveSegmentKeeps, ReturnKeeps,
       ThreadStutters DEF ThreadNext
<1>. QED
  BY <1>1, <1>2, PTL DEF ThreadSpec

-----------------------------------------------------------------------------
(* The unwinder.                                                           *)

\* What the unwinder works on, and what is known of it once the instructions
\* behind m are undone; exact when no register is read from a wrong word.
Contexts == [rip : Int, rsp : Int, registers : Registers, error : {"None"}]

MovedBy(Q, m, w) == IF IsFramed(Q, m) THEN w ELSE 0

Exact(Q, w) == w = 0 \/ \A k \in 1 .. Len(Q) : Q[k].op # "Save"

UnwoundTo(Q, m, c, w, context) ==
  /\ context \in Contexts /\ context.error = "None"
  /\ context.rsp = (Slot(c) - Held(Q)[m]) - MovedBy(Q, m, w)
  /\ FramedAt(Q, m, m, c, context.registers)
  /\ Exact(Q, w) => UnsavedAt(Q, m, c, context.registers)

LEMMA WordFacts ==
  ASSUME memory \in Memories
  PROVE  /\ \A a : Word(a) \in Int
         /\ \A a \in 1 .. StackSize : Word(a) = memory[a]
<1>1. DOMAIN memory = 1 .. StackSize /\ \A a \in 1 .. StackSize : memory[a] \in Int
  BY DEF Memories
<1>. QED
  BY <1>1 DEF Word, Garbage

\* What the unwinder needs to know of the frame it takes back.
Known(Q, e, c) ==
  /\ Q \in Seq(Operations) /\ WellFormed(Q) /\ e \in 0 .. Len(Q)
  /\ c.registers \in Registers /\ Slot(c) \in 1 .. StackSize
  /\ KeptAt(Q, e, c, memory) /\ Held(Q)[e] < Slot(c)

FramedBy(Q, m, frame) ==
  Q[m].op = "SetFrame" => frame.register = Q[m].register /\ frame.offset = Q[m].amount

\* Undoing one instruction.
LEMMA UndoStep ==
  ASSUME NEW Q, NEW m, m # 0, NEW c, NEW w \in {0, 1}, NEW frame, NEW context,
         Known(Q, m, c), UnwoundTo(Q, m, c, w, context), FramedBy(Q, m, frame)
  PROVE  /\ UnwoundTo(Q, m - 1, c, w, Undo(context, frame, Q[m]))
         /\ Undo(context, frame, Q[m]).rip = context.rip
<1> DEFINE p == Q[m]
           now == Held(Q)[m]
           before == Held(Q)[m - 1]
           slot == Slot(c)
           next == Undo(context, frame, p)
           moved == MovedBy(Q, m, w)
           cell == slot - Cell(Q, m)
<1>0. /\ Q \in Seq(Operations) /\ WellFormed(Q) /\ m \in 1 .. Len(Q)
      /\ c.registers \in Registers /\ slot \in 1 .. StackSize
      /\ now < slot /\ KeptAt(Q, m, c, memory)
  <2>1. Q \in Seq(Operations) /\ m \in 0 .. Len(Q)
    BY DEF Known
  <2>2. m \in 1 .. Len(Q)
    BY <2>1, LenProperties
  <2>. QED
    BY <2>1, <2>2 DEF Known
<1>. USE <1>0
<1>1. /\ Len(Q) \in Nat /\ p.amount \in Nat
      /\ p.op \in {"Push", "Allocate", "SetFrame", "Save", "SaveXmm"}
      /\ now \in Nat /\ before \in Nat
      /\ p.op = "Push" => now = before + 1
      /\ p.op = "Allocate" => now = before + p.amount
      /\ p.op \notin {"Push", "Allocate"} => now = before
      /\ m \in Saving(Q) <=> p.op \in {"Push", "Save"}
      /\ m \in Saving(Q) => p.register \in Nonvolatile
      /\ p.op = "Push" => Cell(Q, m) = now
      /\ p.op = "Save" => Cell(Q, m) = now - p.amount
  BY InstructionFacts
<1>2. /\ context \in Contexts /\ context.error = "None"
      /\ context.rsp = (slot - now) - moved
      /\ FramedAt(Q, m, m, c, context.registers)
      /\ Exact(Q, w) => UnsavedAt(Q, m, c, context.registers)
  BY DEF UnwoundTo
<1>3. /\ context.rsp \in Int /\ context.registers \in Registers /\ context.rip \in Int
      /\ slot \in Int /\ moved \in Int /\ StackSize \in Nat /\ slot \in 1 .. StackSize
  BY <1>2, UnwinderAssumption DEF Contexts, MovedBy
<1>4. memory \in Memories
  BY DEF KeptAt
<1>5. p.op # "SetFrame" => MovedBy(Q, m - 1, w) = moved
  <2>1. \A k \in 1 .. m : k # m => k \in 1 .. m - 1
    OBVIOUS
  <2>2. \A k \in 1 .. m - 1 : k \in 1 .. m
    OBVIOUS
  <2>3. p.op # "SetFrame" => (IsFramed(Q, m - 1) <=> IsFramed(Q, m))
    BY <2>1, <2>2 DEF IsFramed
  <2>. QED
    BY <2>3 DEF MovedBy
<1>6. \A k \in 1 .. m : /\ k \in 1 .. Len(Q)
                        /\ \A j \in m + 1 .. m : Q[j].op # "Push"
  BY <1>1
<1>7. \A k \in 1 .. m : Q[k].op = "SetFrame" =>
        context.registers[Q[k].register] = (slot - Held(Q)[k]) + 2 * Q[k].amount
  BY <1>2, <1>6 DEF FramedAt
\* the registers behind the step decide what has to be shown
<1>8. ASSUME NEW r \in Contexts, r.error = "None", r.rip = context.rip, next = r,
             r.rsp = (slot - before) - MovedBy(Q, m - 1, w),
             \/ r.registers = context.registers /\ m \notin Saving(Q)
             \/ /\ m \in Saving(Q)
                /\ \E v \in Int : /\ r.registers = [context.registers EXCEPT ![p.register] = v]
                                  /\ Exact(Q, w) => v = c.registers[p.register]
      PROVE  UnwoundTo(Q, m - 1, c, w, next) /\ next.rip = context.rip
  <2>1. FramedAt(Q, m - 1, m - 1, c, r.registers)
    <3>1. ASSUME NEW k \in 1 .. m - 1, Q[k].op = "SetFrame"
          PROVE  r.registers[Q[k].register] = (slot - Held(Q)[k]) + 2 * Q[k].amount
      <4>1. k \in 1 .. m /\ k \in 1 .. Len(Q) /\ k < m
        BY <1>1
      <4>2. context.registers[Q[k].register] = (slot - Held(Q)[k]) + 2 * Q[k].amount
        BY <1>7, <3>1, <4>1
      <4>3. /\ Q[k].register \in Nonvolatile
            /\ m \in Saving(Q) => Q[k].register # p.register
        <5>1. /\ Q[k].register \in Nonvolatile
              /\ p.op = "Push" => m < k
              /\ p.op = "Save" => p.register # Q[k].register
          BY <3>1, <4>1, FramePointerFacts
        <5>2. ~(m < k)
          BY <4>1
        <5>. QED
          BY <1>1, <5>1, <5>2
      <4>4. r.registers[Q[k].register] = context.registers[Q[k].register]
        <5>. HIDE DEF p
        <5>. QED
          BY <1>3, <1>8, <4>3 DEF Registers
      <4>. QED
        BY <4>2, <4>4
    <3>. QED
      BY <3>1 DEF FramedAt
  <2>2. ASSUME Exact(Q, w) PROVE UnsavedAt(Q, m - 1, c, r.registers)
    <3>1. ASSUME NEW s \in Nonvolatile, ~ IsSaved(Q, m - 1, s)
          PROVE  r.registers[s] = c.registers[s]
      <4>1. CASE m \in Saving(Q)
        <5>1. r.registers = [context.registers EXCEPT ![p.register] = c.registers[p.register]]
          BY <1>8, <2>2, <4>1
        <5>2. s # p.register => context.registers[s] = c.registers[s]
          <6>1. s # p.register => ~ IsSaved(Q, m, s)
            BY <3>1, IsSavedNext
          <6>. QED
            BY <1>2, <2>2, <6>1 DEF UnsavedAt
        <5>. HIDE DEF p
        <5>. QED
          BY <1>3, <5>1, <5>2 DEF Registers
      <4>2. CASE m \notin Saving(Q)
        <5>1. ~ IsSaved(Q, m, s)
          BY <3>1, <4>2, IsSavedNext
        <5>2. context.registers[s] = c.registers[s]
          BY <1>2, <2>2, <5>1 DEF UnsavedAt
        <5>. QED
          BY <1>8, <4>2, <5>2
      <4>. QED
        BY <4>1, <4>2
    <3>. QED
      BY <3>1 DEF UnsavedAt
  <2>. QED
    BY <1>8, <2>1, <2>2 DEF UnwoundTo
<1>9. m \in Saving(Q) =>
        /\ c.registers[p.register] \in Int
        /\ memory[cell] = c.registers[p.register] /\ cell \in 1 .. StackSize
  <2>1. SUFFICES ASSUME m \in Saving(Q)
                 PROVE  /\ c.registers[p.register] \in Int
                        /\ memory[cell] = c.registers[p.register] /\ cell \in 1 .. StackSize
    OBVIOUS
  <2>2. c.registers[p.register] \in Int
    BY <1>1, <2>1 DEF Registers
  <2>3. memory[cell] = c.registers[p.register]
    <3>1. m <= m
      OBVIOUS
    <3>. QED
      BY <2>1, <3>1 DEF KeptAt
  <2>4. cell \in 1 .. StackSize
    <3> DEFINE below == Cell(Q, m)
    <3>1. below \in Int /\ 1 <= below /\ below <= now /\ now < slot
      BY <2>1, CellFacts
    <3>2. SUFFICES slot - below \in 1 .. StackSize
      OBVIOUS
    <3>. HIDE DEF below, now, slot
    <3>. QED
      BY <1>1, <1>3, <3>1
  <2>. QED
    BY <2>2, <2>3, <2>4
<1>10. IsFramed(Q, m) /\ p.op # "SetFrame" => p.op # "Push"
  <2>1. ASSUME NEW k \in 1 .. m, Q[k].op = "SetFrame", p.op = "Push" PROVE FALSE
    <3>1. k \in 1 .. Len(Q) /\ ~(m < k)
      BY <1>1
    <3>. QED
      BY <2>1, <3>1, FramePointerFacts
  <2>. QED
    BY <2>1 DEF IsFramed
<1>11. CASE p.op = "Push"
  <2>1. moved = 0 /\ MovedBy(Q, m - 1, w) = 0
    BY <1>5, <1>10, <1>11 DEF MovedBy
  <2>2. context.rsp = slot - now /\ context.rsp = cell
    BY <1>1, <1>2, <1>3, <1>11, <2>1
  <2>3. Word(context.rsp) = c.registers[p.register] /\ Word(context.rsp) \in Int
    BY <1>1, <1>4, <1>9, <1>11, <2>2, WordFacts
  <2>4. p.register \in Nonvolatile /\ m \in Saving(Q)
    BY <1>1, <1>11
  <2> DEFINE r == [context EXCEPT !.registers[p.register] = Word(context.rsp), !.rsp = @ + 1]
  <2>5. next = r
    BY <1>2, <1>11, <2>4 DEF Undo
  <2>6. context.rsp + 1 = slot - before /\ context.rsp + 1 \in Int
    <3> DEFINE x == context.rsp
    <3>1. /\ x = slot - now /\ now = before + 1
          /\ x \in Int /\ slot \in Int /\ before \in Int
      BY <1>1, <1>3, <1>11, <2>2
    <3>. SUFFICES x + 1 = slot - before /\ x + 1 \in Int
      OBVIOUS
    <3>. HIDE DEF x, slot, now, before
    <3>. QED
      BY <3>1
  <2>. HIDE DEF p, next, slot, before, now, cell, moved
  <2>7. /\ r \in Contexts /\ r.error = "None" /\ r.rip = context.rip
        /\ r.rsp = context.rsp + 1
        /\ r.registers = [context.registers EXCEPT ![p.register] = Word(context.rsp)]
    BY <1>2, <1>3, <2>3, <2>4, <2>6 DEF Contexts, Registers
  <2>8. r.rsp = (slot - before) - MovedBy(Q, m - 1, w)
    BY <1>1, <1>3, <2>1, <2>6, <2>7
  <2>. HIDE DEF r
  <2>9. UnwoundTo(Q, m - 1, c, w, next) /\ next.rip = context.rip
    BY <1>8, <2>3, <2>4, <2>5, <2>7, <2>8
  <2>. QED
    BY <2>9 DEF next, p
<1>12. CASE p.op = "Allocate"
  <2>1. m \notin Saving(Q) /\ MovedBy(Q, m - 1, w) = moved /\ now = before + p.amount
    BY <1>1, <1>5, <1>12
  <2> DEFINE r == [context EXCEPT !.rsp = @ + p.amount]
  <2>2. next = r
    BY <1>2, <1>12 DEF Undo
  <2>3. context.rsp + p.amount = (slot - before) - moved /\ context.rsp + p.amount \in Int
    <3> DEFINE y == p.amount
    <3>1. /\ context.rsp = (slot - now) - moved /\ now = before + y
          /\ slot \in Int /\ moved \in Int /\ before \in Int /\ y \in Int
      BY <1>1, <1>2, <1>3, <2>1
    <3>2. SUFFICES context.rsp + y = (slot - before) - moved /\ context.rsp + y \in Int
      OBVIOUS
    <3>. HIDE DEF y, slot, now, before, moved
    <3>. QED
      BY <3>1
  <2>. HIDE DEF p, next, slot, before, now, moved
  <2>4. /\ r \in Contexts /\ r.error = "None" /\ r.rip = context.rip
        /\ r.rsp = context.rsp + p.amount /\ r.registers = context.registers
    BY <1>2, <1>3, <2>3 DEF Contexts
  <2>. HIDE DEF r
  <2>9. UnwoundTo(Q, m - 1, c, w, next) /\ next.rip = context.rip
    BY <1>8, <2>1, <2>2, <2>3, <2>4
  <2>. QED
    BY <2>9 DEF next, p
<1>13. CASE p.op = "SetFrame"
  <2>1. /\ p.register \in Nonvolatile /\ ~ IsFramed(Q, m - 1)
        /\ m \notin Saving(Q) /\ now = before
        /\ frame.register = p.register /\ frame.offset = p.amount
    <3>1. p.register \in Nonvolatile /\ \A k \in 1 .. Len(Q) : Q[k].op = "SetFrame" => k = m
      BY <1>13, FramePointerFacts
    <3>2. \A k \in 1 .. m - 1 : k \in 1 .. Len(Q) /\ k # m
      BY <1>1
    <3>3. ~ IsFramed(Q, m - 1)
      BY <3>1, <3>2 DEF IsFramed
    <3>4. frame.register = p.register /\ frame.offset = p.amount
      BY <1>13 DEF FramedBy
    <3>. QED
      BY <1>1, <1>13, <3>1, <3>3, <3>4
  <2>2. context.registers[p.register] = (slot - before) + 2 * p.amount
    BY <1>7, <1>13, <2>1
  <2> DEFINE r == [context EXCEPT !.rsp = StackAtFrame(context, frame)]
  <2>3. next = r
    BY <1>2, <1>13, <2>1 DEF Undo
  <2>4. StackAtFrame(context, frame) = slot - before /\ slot - before \in Int
    <3> DEFINE y == p.amount
               x == context.registers[p.register]
    <3>1. x = (slot - before) + 2 * y /\ slot \in Int /\ before \in Int /\ y \in Int
      BY <1>1, <1>3, <2>2
    <3>2. StackAtFrame(context, frame) = x - 2 * y
      BY <2>1 DEF StackAtFrame
    <3>. HIDE DEF x, y, slot, before
    <3>. QED
      BY <3>1, <3>2
  <2>5. MovedBy(Q, m - 1, w) = 0
    BY <2>1 DEF MovedBy
  <2>. HIDE DEF p, next, slot, before, now, moved
  <2>6. /\ r \in Contexts /\ r.error = "None" /\ r.rip = context.rip
        /\ r.rsp = slot - before /\ r.registers = context.registers
    BY <1>2, <1>3, <2>4 DEF Contexts
  <2>7. r.rsp = (slot - before) - MovedBy(Q, m - 1, w)
    BY <1>1, <1>3, <2>4, <2>5, <2>6
  <2>. HIDE DEF r
  <2>9. UnwoundTo(Q, m - 1, c, w, next) /\ next.rip = context.rip
    BY <1>8, <2>1, <2>3, <2>6, <2>7
  <2>. QED
    BY <2>9 DEF next, p
<1>14. CASE p.op = "Save"
  <2> DEFINE v == Word(context.rsp + p.amount)
             r == [context EXCEPT !.registers[p.register] = v]
  <2>1. m \in Saving(Q) /\ p.register \in Nonvolatile /\ v \in Int
    BY <1>1, <1>4, <1>14, WordFacts
  <2>2. Exact(Q, w) => v = c.registers[p.register]
    <3>1. SUFFICES ASSUME w = 0 PROVE v = c.registers[p.register]
      BY <1>14 DEF Exact
    <3>2. moved = 0
      BY <3>1 DEF MovedBy
    <3>3. context.rsp + p.amount = cell
      <4> DEFINE y == p.amount
                 below == Cell(Q, m)
      <4>1. /\ context.rsp = (slot - now) - 0 /\ below = now - y
            /\ slot \in Int /\ now \in Int /\ y \in Int
        BY <1>1, <1>2, <1>3, <1>14, <3>2
      <4>2. SUFFICES context.rsp + y = slot - below
        OBVIOUS
      <4>. HIDE DEF y, slot, now, below
      <4>. QED
        BY <4>1
    <3>. QED
      BY <1>4, <1>9, <2>1, <3>3, WordFacts
  <2>3. next = r
    BY <1>2, <1>14, <2>1 DEF Undo
  <2>4. context.rsp = (slot - before) - MovedBy(Q, m - 1, w)
    BY <1>1, <1>2, <1>5, <1>14
  <2>. HIDE DEF p, next, slot, before, now, moved, v, cell
  <2>5. /\ r \in Contexts /\ r.error = "None" /\ r.rip = context.rip
        /\ r.rsp = context.rsp
        /\ r.registers = [context.registers EXCEPT ![p.register] = v]
    BY <1>2, <1>3, <2>1 DEF Contexts, Registers
  <2>. HIDE DEF r
  <2>9. UnwoundTo(Q, m - 1, c, w, next) /\ next.rip = context.rip
    BY <1>8, <2>1, <2>2, <2>3, <2>4, <2>5
  <2>. QED
    BY <2>9 DEF next, p
<1>15. CASE p.op = "SaveXmm"
  <2>1. next = context /\ m \notin Saving(Q)
    BY <1>1, <1>2, <1>15 DEF Undo
  <2>2. context.rsp = (slot - before) - MovedBy(Q, m - 1, w)
    BY <1>1, <1>2, <1>5, <1>15
  <2>. HIDE DEF p, next, slot, before
  <2>9. UnwoundTo(Q, m - 1, c, w, next) /\ next.rip = context.rip
    BY <1>2, <1>8, <2>1, <2>2
  <2>. QED
    BY <2>9 DEF next, p
<1>. QED
  BY <1>1, <1>11, <1>12, <1>13, <1>14, <1>15

\* The prologue of a function one is a part of is how its own begins.
Starts(W, Q) == Len(W) <= Len(Q) /\ \A k \in 1 .. Len(W) : Q[k] = W[k]

LEMMA StartsParent ==
  ASSUME image \in Images, NEW i \in 1 .. Len(image), NEW Q \in Seq(Operations),
         Starts(Whole(image)[i], Q)
  PROVE  /\ Length(i) \in Nat /\ Before(i) \in Nat /\ Len(Q) \in Nat
         /\ Length(i) = Len(image[i].prologue)
         /\ Before(i) + Length(i) = Len(Whole(image)[i])
         /\ Before(i) + Length(i) <= Len(Q)
         /\ image[i].prologue \in Seq(Operations)
         /\ \A k \in 1 .. Length(i) : Q[Before(i) + k] = image[i].prologue[k]
         /\ image[i].parent \in 0 .. Len(image)
         /\ Starts(Whole(image)[image[i].parent], Q)
         /\ Len(Whole(image)[image[i].parent]) = Before(i)
<1> DEFINE W == Whole(image)[image[i].parent]
           P == image[i].prologue
           R == Whole(image)[i]
<1>1. image[i].parent \in 0 .. Len(image) /\ P \in Seq(Operations)
  BY ImageFacts
<1>2. W \in Seq(Operations) /\ R = W \o P
  BY <1>1, WholeFacts
<1>3. Length(i) = Len(P) /\ Before(i) = Len(W)
  BY DEF Length, Before
<1>. HIDE DEF W, P, R
<1>4. /\ Len(R) = Len(W) + Len(P) /\ Len(W) \in Nat /\ Len(P) \in Nat /\ Len(Q) \in Nat
      /\ \A k \in 1 .. Len(W) : R[k] = W[k]
      /\ \A k \in 1 .. Len(P) : R[Len(W) + k] = P[k]
  BY <1>1, <1>2, Beginning, LenProperties
<1>5. Len(R) <= Len(Q) /\ \A k \in 1 .. Len(R) : Q[k] = R[k]
  BY DEF Starts, R
<1>6. Len(W) <= Len(Q) /\ Len(W) + Len(P) <= Len(Q)
  BY <1>4, <1>5
<1>7. /\ \A k \in 1 .. Len(W) : k \in 1 .. Len(R)
      /\ \A k \in 1 .. Len(P) : Len(W) + k \in 1 .. Len(R)
  BY <1>4
<1>8. /\ \A k \in 1 .. Len(W) : Q[k] = W[k]
      /\ \A k \in 1 .. Len(P) : Q[Len(W) + k] = P[k]
  BY <1>4, <1>5, <1>7
<1>9. Starts(W, Q)
  BY <1>6, <1>8 DEF Starts
<1>10. \A k \in 1 .. Length(i) : Q[Before(i) + k] = P[k]
  BY <1>3, <1>8
<1>. QED
  BY <1>1, <1>3, <1>4, <1>6, <1>9, <1>10 DEF W, P, R

\* The codes of a prologue, the last instruction first.
LEMMA CodesFacts ==
  ASSUME NEW P \in Seq(Operations)
  PROVE  /\ Len(CodesOf(P)) = Len(P) /\ DOMAIN CodesOf(P) = 1 .. Len(P)
         /\ \A k \in 1 .. Len(P) : CodesOf(P)[k] = [at |-> Len(P) + 1 - k,
                                                    does |-> P[Len(P) + 1 - k]]
<1> DEFINE S == {[at |-> k, does |-> P[k]] : k \in 1 .. Len(P)}
           s == [k \in 1 .. Len(P) |-> [at |-> k, does |-> P[k]]]
           n == Len(P)
<1>1. Len(P) \in Nat /\ DOMAIN P = 1 .. Len(P)
  BY LenProperties
<1>2. s \in Seq(S) /\ Len(s) = n
  BY <1>1
<1>3. CodesOf(P) = Reverse(s)
  BY <1>1 DEF CodesOf
<1>. HIDE DEF S, s
<1>4. Reverse(s) = [k \in 1 .. n |-> s[(n - k) + 1]]
  BY <1>2 DEF Reverse
<1>5. Reverse(s) \in Seq({s[k] : k \in 1 .. n}) /\ Len(Reverse(s)) = n
  <2>1. \A k \in 1 .. n : (n - k) + 1 \in 1 .. n
    BY <1>1
  <2>2. n \in Nat
    BY <1>1
  <2> DEFINE T == {s[k] : k \in 1 .. n}
  <2>3. \A k \in 1 .. n : s[(n - k) + 1] \in T
    BY <2>1
  <2>. HIDE DEF n, T
  <2>4. [k \in 1 .. n |-> s[(n - k) + 1]] \in Seq(T)
    BY <2>2, <2>3
  <2>5. Len([k \in 1 .. n |-> s[(n - k) + 1]]) = n
    BY <2>2
  <2>. QED
    BY <1>4, <2>4, <2>5 DEF T
<1>6. \A k \in 1 .. n : (n - k) + 1 \in 1 .. n /\ (n - k) + 1 = n + 1 - k
  BY <1>1
<1>7. \A k \in 1 .. n : s[k] = [at |-> k, does |-> P[k]]
  BY DEF s
<1>8. \A k \in 1 .. n : CodesOf(P)[k] = [at |-> n + 1 - k, does |-> P[n + 1 - k]]
  <2>. TAKE k \in 1 .. n
  <2>1. CodesOf(P)[k] = s[n + 1 - k] /\ n + 1 - k \in 1 .. n
    BY <1>3, <1>4, <1>6
  <2>. QED
    BY <1>7, <2>1
<1>. QED
  BY <1>3, <1>4, <1>5, <1>8

\* The entry's frame is the one its prologue sets.
LEMMA FrameFacts ==
  ASSUME NEW P \in Seq(Operations), NEW k \in 1 .. Len(P), P[k].op = "SetFrame",
         \A j \in 1 .. Len(P) : P[j].op = "SetFrame" => j = k
  PROVE  FrameOf(P).register = P[k].register /\ FrameOf(P).offset = P[k].amount
<1>1. {j \in 1 .. Len(P) : P[j].op = "SetFrame"} = {k}
  OBVIOUS
<1>2. Min({k}) = k
  <2>1. k \in Int
    BY LenProperties
  <2>2. \E x \in {k} : \A y \in {k} : x <= y
    BY <2>1
  <2>. QED
    BY <2>2 DEF Min
<1>3. SelectInSeq(P, LAMBDA p : p.op = "SetFrame") = k
  BY <1>1, <1>2 DEF SelectInSeq
<1>4. k # 0
  BY LenProperties
<1>. QED
  BY <1>3, <1>4 DEF FrameOf

LEMMA KnownBelow ==
  ASSUME NEW Q, NEW e, NEW c, Known(Q, e, c), NEW m \in 0 .. e
  PROVE  Known(Q, m, c)
<1>1. Q \in Seq(Operations) /\ e \in 0 .. Len(Q) /\ Len(Q) \in Nat
  BY LenProperties DEF Known
<1>2. m \in 0 .. Len(Q) /\ m <= e
  BY <1>1
<1>3. Held(Q)[m] <= Held(Q)[e] /\ Held(Q)[m] \in Nat /\ Held(Q)[e] \in Nat
  BY <1>1, <1>2, HeldGrows, HeldFacts
<1>4. Held(Q)[m] < Slot(c)
  <2>1. Slot(c) \in Int /\ Held(Q)[e] < Slot(c)
    BY UnwinderAssumption DEF Known
  <2>. QED
    BY <1>3, <2>1
<1>5. KeptAt(Q, m, c, memory)
  <2>1. \A k \in Saving(Q) : k \in Int
    BY <1>1, LenProperties DEF Saving
  <2>2. \A k \in Saving(Q) : k <= m => k <= e
    BY <1>1, <1>2, <2>1
  <2>. QED
    BY <2>2 DEF Known, KeptAt
<1>. QED
  BY <1>2, <1>4, <1>5 DEF Known

Lesser(a, b) == IF a < b THEN a ELSE b

\* Code k of l stands for instruction l + 1 - k; those up to t are taken back.
LEMMA UndoCount ==
  ASSUME NEW l \in Nat, NEW b \in Nat, NEW t \in 0 .. l, NEW k \in 1 .. l
  PROVE  /\ l + 1 - k \in 1 .. l
         /\ l + 1 - k <= t => /\ b + Lesser(l - (k - 1), t) = b + (l + 1 - k)
                              /\ b + Lesser(l - k, t) = (b + (l + 1 - k)) - 1
                              /\ b + (l + 1 - k) \in 1 .. b + t
         /\ ~(l + 1 - k <= t) => Lesser(l - k, t) = Lesser(l - (k - 1), t)
         /\ Lesser(l - 0, t) = t /\ b + Lesser(l - l, t) = b
BY DEF Lesser

\* Code k of a function stands for instruction Length + 1 - k.
TakesUpTo(i, t, taken) ==
  \A k \in 1 .. Length(i) : taken[k] <=> Length(i) + 1 - k <= t

\* A context in function i, t instructions into its prologue.
Within(i, t, Q, c, w, context) ==
  /\ i \in 1 .. Len(image) /\ t \in 0 .. Length(i) /\ w \in {0, 1}
  /\ Starts(Whole(image)[i], Q) /\ Known(Q, Before(i) + t, c)
  /\ UnwoundTo(Q, Before(i) + t, c, w, context)

LEMMA CodesUndone ==
  ASSUME image \in Images, NEW i, NEW t, NEW Q, NEW c, NEW w, NEW context,
         Within(i, t, Q, c, w, context), NEW taken, TakesUpTo(i, t, taken)
  PROVE  /\ UnwoundTo(Q, Before(i), c, w, UndoCodes(context, EntryOf(i), taken))
         /\ UndoCodes(context, EntryOf(i), taken).rip = context.rip
<1> DEFINE l == Length(i)
           b == Before(i)
           P == image[i].prologue
           frame == EntryOf(i).frame
           codes == EntryOf(i).codes
           G == [k \in 0 .. l |-> {x \in Contexts : /\ UnwoundTo(Q, b + Lesser(l - k, t), c, w, x)
                                                    /\ x.rip = context.rip}]
           Step(k, x) == IF taken[k] THEN Undo(x, frame, codes[k].does) ELSE x
           F == [k \in 1 .. l |-> [x \in G[k - 1] |-> Step(k, x)]]
           Spans(h) == h = [k \in 0 .. l |-> IF k = 0 THEN context
                                             ELSE IF taken[k]
                                             THEN Undo(h[k - 1], frame, codes[k].does)
                                             ELSE h[k - 1]]
           r == CHOOSE h : Spans(h)
<1>0. /\ i \in 1 .. Len(image) /\ t \in 0 .. Length(i) /\ w \in {0, 1}
      /\ Starts(Whole(image)[i], Q) /\ Known(Q, Before(i) + t, c)
      /\ UnwoundTo(Q, Before(i) + t, c, w, context)
  BY DEF Within
<1>. USE <1>0
<1>1. Q \in Seq(Operations) /\ WellFormed(Q)
  BY DEF Known
<1>2. /\ l \in Nat /\ b \in Nat /\ Len(Q) \in Nat /\ l = Len(P) /\ P \in Seq(Operations)
      /\ b + l <= Len(Q)
      /\ \A k \in 1 .. l : Q[b + k] = P[k]
  BY <1>1, StartsParent
<1>3. /\ Len(codes) = l
      /\ \A k \in 1 .. l : codes[k].does = P[l + 1 - k]
  <2>1. codes = CodesOf(P)
    BY EntryFacts
  <2>2. /\ Len(CodesOf(P)) = Len(P)
        /\ \A k \in 1 .. Len(P) : CodesOf(P)[k].does = P[Len(P) + 1 - k]
    <3>1. P \in Seq(Operations)
      BY <1>2
    <3>. HIDE DEF P
    <3>2. /\ Len(CodesOf(P)) = Len(P)
          /\ \A k \in 1 .. Len(P) : CodesOf(P)[k] = [at |-> Len(P) + 1 - k,
                                                     does |-> P[Len(P) + 1 - k]]
      BY <3>1, CodesFacts
    <3>3. ASSUME NEW k \in 1 .. Len(P) PROVE CodesOf(P)[k].does = P[Len(P) + 1 - k]
      <4> DEFINE d == P[Len(P) + 1 - k]
                 a == Len(P) + 1 - k
      <4>1. CodesOf(P)[k] = [at |-> a, does |-> d]
        BY <3>2
      <4>. SUFFICES CodesOf(P)[k].does = d
        OBVIOUS
      <4>. HIDE DEF a, d
      <4>. QED
        BY <4>1
    <3>. QED
      BY <3>2, <3>3
  <2>. HIDE DEF P, l, codes
  <2>. QED
    BY <1>2, <2>1, <2>2
<1>4. frame = FrameOf(P)
  BY EntryFacts
<1>5. UndoCodes(context, EntryOf(i), taken) = r[l]
  BY <1>3 DEF UndoCodes
<1>. HIDE DEF l, b, P, codes, frame
<1>6. ASSUME NEW k \in 1 .. l, Q[b + k].op = "SetFrame"
      PROVE  frame.register = Q[b + k].register /\ frame.offset = Q[b + k].amount
  <2>1. b + k \in 1 .. Len(Q) /\ Q[b + k] = P[k]
    BY <1>2
  <2>2. \A j \in 1 .. l : P[j].op = "SetFrame" => j = k
    <3>1. ASSUME NEW j \in 1 .. l, P[j].op = "SetFrame" PROVE j = k
      <4>1. b + j \in 1 .. Len(Q) /\ Q[b + j].op = "SetFrame"
        BY <1>2, <3>1
      <4>2. b + j = b + k
        BY <1>1, <1>6, <2>1, <4>1, FramePointerFacts
      <4>. QED
        BY <1>2, <4>2
    <3>. QED
      BY <3>1
  <2>3. FrameOf(P).register = P[k].register /\ FrameOf(P).offset = P[k].amount
    BY <1>2, <1>6, <2>1, <2>2, FrameFacts
  <2>. QED
    BY <1>4, <2>1, <2>3
<1>7. ASSUME NEW k \in 1 .. l, NEW x \in G[k - 1]
      PROVE  Step(k, x) \in G[k]
  <2> DEFINE m == b + (l + 1 - k)
  <2>1. t \in 0 .. l /\ k - 1 \in 0 .. l /\ k \in 0 .. l
    BY <1>2 DEF l
  <2>2. /\ l + 1 - k \in 1 .. l
        /\ l + 1 - k <= t => /\ b + Lesser(l - (k - 1), t) = m
                             /\ b + Lesser(l - k, t) = m - 1
                             /\ m \in 1 .. b + t
        /\ ~(l + 1 - k <= t) => Lesser(l - k, t) = Lesser(l - (k - 1), t)
    <3>1. l \in Nat /\ b \in Nat
      BY <1>2
    <3>. QED
      BY ONLY <2>1, <3>1, k \in 1 .. l, UndoCount
  <2>3. x \in Contexts /\ x.rip = context.rip /\ UnwoundTo(Q, b + Lesser(l - (k - 1), t), c, w, x)
    BY <1>7, <2>1
  <2>4. CASE ~(l + 1 - k <= t)
    <3>1. ~ taken[k]
      BY <2>4 DEF TakesUpTo, l
    <3>. QED
      BY <2>1, <2>2, <2>3, <2>4, <3>1
  <2>5. CASE l + 1 - k <= t
    <3>1. taken[k]
      BY <2>5 DEF TakesUpTo, l
    <3>2. UnwoundTo(Q, m, c, w, x)
      BY <2>2, <2>3, <2>5
    <3>3. codes[k].does = Q[m]
      BY <1>2, <1>3, <2>2
    <3>4. m \in 1 .. b + t /\ m \in 0 .. b + t /\ b + t \in 0 .. Len(Q)
      <4>1. m \in 1 .. b + t
        BY <2>2, <2>5
      <4>2. l \in Nat /\ b \in Nat /\ t \in Nat /\ t <= l /\ b + l <= Len(Q) /\ Len(Q) \in Nat
        BY <1>2, <2>1
      <4>. HIDE DEF m
      <4>. QED
        BY ONLY <4>1, <4>2
    <3>5. Known(Q, m, c)
      BY <3>4, KnownBelow DEF b
    <3>6. m \in 1 .. Len(Q)
      BY <1>2, <3>4
    <3>7. Q[m].op = "SetFrame" => frame.register = Q[m].register /\ frame.offset = Q[m].amount
      BY <1>6, <2>2
    <3> DEFINE y == Undo(x, frame, Q[m])
    <3>. HIDE DEF m
    <3>8. UnwoundTo(Q, m - 1, c, w, y) /\ y.rip = x.rip
      <4>1. FramedBy(Q, m, frame) /\ m # 0
        BY <3>6, <3>7 DEF FramedBy
      <4>. HIDE DEF F, G, Step
      <4>. QED
        BY <3>2, <3>5, <4>1, UndoStep
    <3>9. Step(k, x) = y
      BY <3>1, <3>3
    <3>10. b + Lesser(l - k, t) = m - 1
      BY <2>2, <2>5 DEF m
    <3>11. y \in Contexts
      BY <3>8 DEF UnwoundTo
    <3>. HIDE DEF Step, y
    <3>. QED
      BY <2>1, <2>3, <3>8, <3>9, <3>10, <3>11
  <2>. QED
    BY <2>4, <2>5
<1>8. context \in G[0]
  <2>1. b + Lesser(l - 0, t) = b + t /\ 0 \in 0 .. l
    <3>1. l - 0 = l /\ t \in 0 .. l
      BY <1>2 DEF l
    <3>. QED
      BY <1>2, <3>1 DEF Lesser
  <2>2. context \in Contexts /\ UnwoundTo(Q, b + t, c, w, context)
    BY DEF UnwoundTo, b
  <2>. QED
    BY <2>1, <2>2
<1>9. PICK g : IsPath(g, F, G, context, l)
  <2>1. \A k \in 1 .. l : \A x \in G[k - 1] : F[k][x] \in G[k]
    <3>1. ASSUME NEW k \in 1 .. l, NEW x \in G[k - 1] PROVE F[k][x] \in G[k]
      <4>1. F[k][x] = Step(k, x)
        <5>. HIDE DEF G, Step
        <5>. QED
          BY <3>1
      <4>. HIDE DEF F, Step, G
      <4>. QED
        BY <1>7, <3>1, <4>1
    <3>. HIDE DEF F, G
    <3>. QED
      BY <3>1
  <2>. HIDE DEF F, G
  <2>. QED
    BY <1>2, <1>8, <2>1, Path
<1>10. Spans(g)
  <2>1. g = [k \in 0 .. l |-> IF k = 0 THEN context ELSE F[k][g[k - 1]]]
        /\ \A k \in 0 .. l : g[k] \in G[k]
    <3>. HIDE DEF F, G
    <3>. QED
      BY <1>9 DEF IsPath
  <2>2. ASSUME NEW k \in 0 .. l, k # 0
        PROVE  F[k][g[k - 1]] = Step(k, g[k - 1])
    <3>1. k \in 1 .. l /\ k - 1 \in 0 .. l
      BY <1>2, <2>2
    <3>2. g[k - 1] \in G[k - 1]
      <4>. HIDE DEF F, G
      <4>. QED
        BY <2>1, <3>1
    <3>. HIDE DEF G, Step
    <3>. QED
      BY <3>1, <3>2
  <2>3. g = [k \in 0 .. l |-> IF k = 0 THEN context ELSE Step(k, g[k - 1])]
    <3>. HIDE DEF F, G, Step
    <3>. QED
      BY <2>1, <2>2
  <2>. QED
    BY <2>3
<1>11. Spans(r)
  <2>. HIDE DEF Spans
  <2>. QED
    BY <1>10
<1>. HIDE DEF r
<1>12. r[0] = context /\ \A k \in 1 .. l : r[k] = Step(k, r[k - 1])
  <2>1. 0 \in 0 .. l /\ \A k \in 1 .. l : k \in 0 .. l /\ k # 0
    BY <1>2
  <2>. QED
    BY <1>11, <2>1
<1>. HIDE DEF Spans
<1>13. \A k \in 0 .. l : r[k] \in G[k]
  <2>. HIDE DEF G, Step
  <2>1. \A k \in 1 .. l : r[k - 1] \in G[k - 1] => r[k] \in G[k]
    BY <1>7, <1>12
  <2>2. r[0] \in G[0]
    BY <1>8, <1>12
  <2>. QED
    BY <1>2, <2>1, <2>2, StaysIn
<1>14. UnwoundTo(Q, b, c, w, r[l]) /\ r[l].rip = context.rip
  <2>1. l \in 0 .. l /\ b + Lesser(l - l, t) = b
    <3>1. l - l = 0 /\ t \in 0 .. l
      BY <1>2 DEF l
    <3>. QED
      BY <1>2, <3>1 DEF Lesser
  <2>2. r[l] \in G[l]
    <3>. HIDE DEF G
    <3>. QED
      BY <1>13, <2>1
  <2>. QED
    BY <2>1, <2>2
<1>. QED
  BY <1>5, <1>14 DEF b

\* What is left to undo after an entry: the functions that its own is a part of.
Undoing(Q, c, w, address, n, s) ==
  /\ s.next \in 0 .. Len(image) /\ (s.next = 0 \/ s.next <= Len(image) - n)
  /\ Starts(Whole(image)[s.next], Q)
  /\ Known(Q, Len(Whole(image)[s.next]), c)
  /\ UnwoundTo(Q, Len(Whole(image)[s.next]), c, w, s.context)
  /\ s.context.rip = address

After(context, entry, taken) ==
  [context |-> UndoCodes(context, entry, taken), next |-> entry.chained]

LEMMA EntryUndone ==
  ASSUME image \in Images, NEW i, NEW t, NEW Q, NEW c, NEW w, NEW context,
         Within(i, t, Q, c, w, context), NEW taken, TakesUpTo(i, t, taken),
         NEW n, image[i].parent = 0 \/ image[i].parent <= Len(image) - n
  PROVE  Undoing(Q, c, w, context.rip, n, After(context, EntryOf(i), taken))
<1> DEFINE s == After(context, EntryOf(i), taken)
           p == image[i].parent
<1>1. /\ UnwoundTo(Q, Before(i), c, w, UndoCodes(context, EntryOf(i), taken))
      /\ UndoCodes(context, EntryOf(i), taken).rip = context.rip
  BY CodesUndone
<1>2. s.next = p /\ s.context = UndoCodes(context, EntryOf(i), taken)
  BY EntryFacts DEF After
<1>3. /\ i \in 1 .. Len(image) /\ t \in 0 .. Length(i)
      /\ Starts(Whole(image)[i], Q) /\ Known(Q, Before(i) + t, c)
      /\ Q \in Seq(Operations)
  BY DEF Within, Known
<1>4. /\ p \in 0 .. Len(image)
      /\ Starts(Whole(image)[p], Q) /\ Len(Whole(image)[p]) = Before(i)
      /\ Before(i) \in Nat /\ Length(i) \in Nat
  BY <1>3, StartsParent
<1>5. Before(i) \in 0 .. Before(i) + t
  BY <1>3, <1>4
<1>6. Known(Q, Before(i), c)
  BY <1>3, <1>5, KnownBelow
<1>. HIDE DEF s, p
<1>. QED
  BY <1>1, <1>2, <1>4, <1>6 DEF Undoing, s, p

LEMMA ChainUndone ==
  ASSUME image \in Images, NEW Q, NEW c, NEW w \in {0, 1}, NEW address,
         NEW n \in 1 .. Len(image), NEW s, Undoing(Q, c, w, address, n - 1, s), s.next # 0
  PROVE  Undoing(Q, c, w, address, n,
                 After(s.context, EntryOf(s.next),
                       [k \in DOMAIN EntryOf(s.next).codes |-> TRUE]))
<1> DEFINE j == s.next
           taken == [k \in DOMAIN EntryOf(j).codes |-> TRUE]
<1>1. Len(image) \in Nat
  BY ImageFacts
<1>2. j \in 1 .. Len(image) /\ j <= Len(image) - (n - 1)
  BY <1>1 DEF Undoing
<1>3. /\ Q \in Seq(Operations) /\ Starts(Whole(image)[j], Q)
      /\ Known(Q, Len(Whole(image)[j]), c)
      /\ UnwoundTo(Q, Len(Whole(image)[j]), c, w, s.context)
      /\ s.context.rip = address
  BY DEF Undoing, Known
<1>. HIDE DEF j
<1>4. /\ Length(j) \in Nat /\ Before(j) + Length(j) = Len(Whole(image)[j])
      /\ image[j].prologue \in Seq(Operations) /\ Length(j) = Len(image[j].prologue)
  BY <1>2, <1>3, StartsParent
<1>5. DOMAIN EntryOf(j).codes = 1 .. Length(j)
  BY <1>4, EntryFacts, CodesFacts
<1>6. TakesUpTo(j, Length(j), taken)
  BY <1>4, <1>5 DEF TakesUpTo
<1>7. image[j].parent = 0 \/ image[j].parent <= Len(image) - n
  <2>1. image[j].parent \in Nat /\ image[j].parent < j
    BY <1>2, ImageFacts
  <2>. QED
    BY <1>1, <1>2, <2>1
<1>8. Length(j) \in 0 .. Length(j)
  BY <1>4
<1>. HIDE DEF taken
<1>9. Within(j, Length(j), Q, c, w, s.context)
  BY <1>2, <1>3, <1>4, <1>8 DEF Within
<1>10. Undoing(Q, c, w, s.context.rip, n, After(s.context, EntryOf(j), taken))
  BY <1>6, <1>7, <1>9, EntryUndone
<1>. QED
  BY <1>3, <1>10 DEF j, taken

\* All that has run of a function and of those it is a part of.
LEMMA EntriesUndone ==
  ASSUME image \in Images, NEW i, NEW t, NEW Q, NEW c, NEW w, NEW context,
         Within(i, t, Q, c, w, context),
         TakesUpTo(i, t, Passed(EntryOf(i), context.rip))
  PROVE  /\ UnwoundTo(Q, 0, c, w, UndoEntries(context, EntryOf(i)))
         /\ UndoEntries(context, EntryOf(i)).rip = context.rip
<1> DEFINE N == Len(image)
           address == context.rip
           b == After(context, EntryOf(i), Passed(EntryOf(i), context.rip))
           Step(s) == IF s.next = 0 THEN s
                      ELSE After(s.context, EntryOf(s.next),
                                 [k \in DOMAIN EntryOf(s.next).codes |-> TRUE])
           S == [context : Contexts, next : 0 .. N]
           G == [n \in 0 .. N |-> {s \in S : Undoing(Q, c, w, address, n, s)}]
           StepsFrom(n) == [s \in G[n - 1] |-> Step(s)]
           F == [n \in 1 .. N |-> StepsFrom(n)]
           Spans(h) == h = [n \in 0 .. N |-> IF n = 0 THEN b ELSE Step(h[n - 1])]
           r == CHOOSE h : Spans(h)
<1>0. i \in 1 .. Len(image) /\ w \in {0, 1}
  BY DEF Within
<1>1. N \in Nat /\ image[i].parent \in Nat /\ image[i].parent < i
  BY <1>0, ImageFacts
<1>2. UndoEntries(context, EntryOf(i)) = r[N].context
  BY DEF UndoEntries, After
<1>3. \A cc, e, taken : UndoCodes(cc, e, taken) \in Contexts /\ e.chained \in 0 .. N =>
                        After(cc, e, taken) \in S
  BY DEF After
<1>4. \A n, cc, e, taken : Undoing(Q, c, w, address, n, After(cc, e, taken)) =>
                           After(cc, e, taken) \in S
  BY DEF After, Undoing, UnwoundTo
<1>5. b \in G[0]
  <2>1. image[i].parent = 0 \/ image[i].parent <= N - 0
    BY <1>0, <1>1
  <2>2. Undoing(Q, c, w, address, 0, b)
    <3>. HIDE DEF N
    <3>. QED
      BY <2>1, EntryUndone DEF N
  <2>3. b \in S
    BY <1>4, <2>2
  <2>4. 0 \in 0 .. N
    BY <1>1
  <2>. HIDE DEF S, b, N
  <2>. QED
    BY <2>2, <2>3, <2>4
<1>6. ASSUME NEW n \in 1 .. N, NEW s \in G[n - 1] PROVE Step(s) \in G[n]
  <2>1. n - 1 \in 0 .. N /\ n \in 0 .. N
    BY <1>1
  <2>2. s \in S /\ Undoing(Q, c, w, address, n - 1, s)
    <3>. HIDE DEF S
    <3>. QED
      BY <1>6, <2>1
  <2>3. CASE s.next = 0
    <3>1. Undoing(Q, c, w, address, n, s)
      BY <2>2, <2>3 DEF Undoing
    <3>. HIDE DEF S
    <3>. QED
      BY <2>1, <2>2, <2>3, <3>1
  <2>4. CASE s.next # 0
    <3>1. Undoing(Q, c, w, address, n, Step(s))
      <4>. HIDE DEF F, G
      <4>. QED
        BY <1>0, <2>2, <2>4, ChainUndone
    <3>2. Step(s) \in S
      BY <1>4, <2>4, <3>1
    <3>. HIDE DEF S, Step
    <3>. QED
      BY <2>1, <3>1, <3>2
  <2>. QED
    BY <2>3, <2>4
<1>7. PICK g : IsPath(g, F, G, b, N)
  <2>1. \A n \in 1 .. N : \A x \in G[n - 1] : F[n][x] \in G[n]
    <3>1. ASSUME NEW n \in 1 .. N, NEW x \in G[n - 1] PROVE F[n][x] \in G[n]
      <4>1. F[n][x] = Step(x)
        <5>. HIDE DEF G, Step, N, b, S
        <5>1. F[n] = StepsFrom(n)
          <6>. HIDE DEF StepsFrom
          <6>. QED
            BY <3>1, Zenon
        <5>2. StepsFrom(n)[x] = Step(x)
          BY <3>1, Zenon
        <5>. QED
          BY <5>1, <5>2
      <4>. HIDE DEF F, Step, G
      <4>. QED
        BY <1>6, <3>1, <4>1
    <3>. HIDE DEF F, G
    <3>. QED
      BY <3>1
  <2>. HIDE DEF F, G, N, b
  <2>. QED
    BY <1>1, <1>5, <2>1, Path
<1>. HIDE DEF N, b, S
<1>8. Spans(g)
  <2>1. g = [n \in 0 .. N |-> IF n = 0 THEN b ELSE F[n][g[n - 1]]]
        /\ \A n \in 0 .. N : g[n] \in G[n]
    <3>. HIDE DEF F, G
    <3>. QED
      BY <1>7 DEF IsPath
  <2>2. ASSUME NEW n \in 0 .. N, n # 0 PROVE F[n][g[n - 1]] = Step(g[n - 1])
    <3>1. n \in 1 .. N /\ n - 1 \in 0 .. N
      BY <1>1, <2>2
    <3>2. g[n - 1] \in G[n - 1]
      <4>. HIDE DEF F, G
      <4>. QED
        BY <2>1, <3>1
    <3>. HIDE DEF G, Step
    <3>. QED
      BY <3>1, <3>2
  <2>3. g = [n \in 0 .. N |-> IF n = 0 THEN b ELSE Step(g[n - 1])]
    <3>. HIDE DEF F, G, Step
    <3>. QED
      BY <2>1, <2>2
  <2>. QED
    BY <2>3
<1>9. Spans(r)
  <2>. HIDE DEF Spans
  <2>. QED
    BY <1>8
<1>. HIDE DEF r
<1>10. r[0] = b /\ \A n \in 1 .. N : r[n] = Step(r[n - 1])
  <2>1. 0 \in 0 .. N /\ \A n \in 1 .. N : n \in 0 .. N /\ n # 0
    BY <1>1
  <2>. HIDE DEF Step
  <2>. QED
    BY <1>9, <2>1
<1>. HIDE DEF Spans
<1>11. \A n \in 0 .. N : r[n] \in G[n]
  <2>. HIDE DEF G, Step
  <2>1. \A n \in 1 .. N : r[n - 1] \in G[n - 1] => r[n] \in G[n]
    BY <1>6, <1>10
  <2>2. r[0] \in G[0]
    BY <1>5, <1>10
  <2>. QED
    BY <1>1, <2>1, <2>2, StaysIn
<1>12. Undoing(Q, c, w, address, N, r[N])
  <2>1. N \in 0 .. N
    BY <1>1
  <2>2. r[N] \in G[N]
    <3>. HIDE DEF G
    <3>. QED
      BY <1>11, <2>1
  <2>. QED
    BY <2>1, <2>2
<1>13. r[N].next = 0
  BY <1>1, <1>12 DEF Undoing, N
<1>14. Len(Whole(image)[0]) = 0
  <2>1. Whole(image)[0] = <<>>
    BY WholeFacts
  <2>. QED
    BY <2>1
<1>. QED
  BY <1>2, <1>12, <1>13, <1>14 DEF Undoing

\* No stack has been given back since instruction n of those up to e.
Stands(Q, n, e) == \A k \in n + 1 .. e : Q[k].op \notin {"Push", "Allocate"}

LEMMA HeldSame ==
  ASSUME NEW Q \in Seq(Operations), WellFormed(Q), NEW e \in 0 .. Len(Q), NEW n \in 0 .. e,
         Stands(Q, n, e)
  PROVE  Held(Q)[e] = Held(Q)[n]
<1> DEFINE h == Held(Q)
           r == [k \in 0 .. e - n |-> h[n + k]]
           G == [k \in 0 .. e - n |-> {h[n]}]
           m == e - n
<1>1. /\ Len(Q) \in Nat /\ e \in Nat /\ n \in Nat /\ m \in Nat /\ n + m = e
      /\ 0 \in 0 .. m /\ m \in 0 .. m /\ n + 0 = n
  BY LenProperties
<1>2. \A k \in 1 .. m : h[n + k] = h[n + (k - 1)]
  <2>. TAKE k \in 1 .. m
  <2>1. n + k \in 1 .. Len(Q) /\ n + k \in n + 1 .. e /\ (n + k) - 1 = n + (k - 1)
    BY <1>1
  <2>2. Q[n + k].op \notin {"Push", "Allocate"}
    BY <2>1 DEF Stands
  <2>. QED
    BY <2>1, <2>2, InstructionFacts
<1>. HIDE DEF h, m
<1>3. \A k \in 0 .. m : r[k] = h[n + k] /\ G[k] = {h[n]}
  BY DEF m
<1>4. \A k \in 1 .. m : r[k - 1] \in G[k - 1] => r[k] \in G[k]
  <2>1. \A k \in 1 .. m : k \in 0 .. m /\ k - 1 \in 0 .. m
    BY <1>1
  <2>. QED
    BY <1>2, <1>3, <2>1
<1>. HIDE DEF r, G
<1>5. \A k \in 0 .. m : r[k] \in G[k]
  <2>1. r[0] \in G[0]
    BY <1>1, <1>3
  <2>. QED
    BY <1>1, <1>4, <2>1, StaysIn
<1>. QED
  BY <1>1, <1>3, <1>5 DEF h

ContextOf(address, at) ==
  [rip |-> address, rsp |-> at.rsp, registers |-> at.registers, error |-> "None"]

\* Where a call stands is where the unwinder begins.
LEMMA FrameUnwinds ==
  ASSUME NEW Q \in Seq(Operations), WellFormed(Q), NEW e \in 0 .. Len(Q), NEW n \in 0 .. e,
         NEW c, NEW at, FrameAt(Q, n, e, c, at, memory), Stands(Q, n, e), NEW address \in Int
  PROVE  Known(Q, e, c) /\ UnwoundTo(Q, e, c, at.allocated, ContextOf(address, at))
<1> DEFINE h == Held(Q)[e]
           slot == Slot(c)
           w == at.allocated
           x == at.rsp
<1>1. /\ Held(Q)[n] = h /\ h \in Nat
      /\ x \in Int /\ w \in {0, 1}
      /\ w = 1 => IsFramed(Q, n)
      /\ x + w = slot - Held(Q)[n] /\ x > 0
      /\ slot \in 1 .. StackSize /\ StackSize \in Nat
      /\ at.registers \in Registers /\ c.registers \in Registers
      /\ KeptAt(Q, e, c, memory)
      /\ UnsavedAt(Q, n, c, at.registers) /\ FramedAt(Q, n, e, c, at.registers)
  <2>1. Held(Q)[n] = h
    BY HeldSame
  <2>2. h \in Nat
    BY HeldFacts
  <2>. HIDE DEF h
  <2>. QED
    BY <2>1, <2>2, UnwinderAssumption DEF FrameAt, StackAt
<1>2. Len(Q) \in Nat /\ e \in Nat /\ n \in Nat /\ n <= e
  BY LenProperties
<1>3. h < slot /\ x = (slot - h) - w
  <2>. HIDE DEF h, slot, w, x
  <2>. QED
    BY <1>1
<1>4. Known(Q, e, c)
  BY <1>1, <1>3 DEF Known
<1>5. w = 1 => IsFramed(Q, e)
  <2>1. \A k \in 1 .. n : k \in 1 .. e
    BY <1>2
  <2>. QED
    BY <1>1, <2>1 DEF IsFramed
<1>6. MovedBy(Q, e, w) = w
  BY <1>1, <1>5 DEF MovedBy
<1>7. FramedAt(Q, e, e, c, at.registers)
  <2>1. ASSUME NEW k \in 1 .. e, Q[k].op = "SetFrame"
        PROVE  at.registers[Q[k].register] = (slot - Held(Q)[k]) + 2 * Q[k].amount
    <3>1. \A j \in n + 1 .. e : Q[j].op # "Push"
      BY DEF Stands
    <3>. QED
      BY <1>1, <2>1, <3>1 DEF FramedAt
  <2>. QED
    BY <2>1 DEF FramedAt
<1>8. UnsavedAt(Q, e, c, at.registers)
  <2>1. \A k \in Saving(Q) : k \in Int
    BY LenProperties DEF Saving
  <2>2. \A k \in Saving(Q) : k <= n => k <= e
    BY <1>2, <2>1
  <2>3. \A r : IsSaved(Q, n, r) => IsSaved(Q, e, r)
    BY <2>2 DEF IsSaved
  <2>. QED
    BY <1>1, <2>3 DEF UnsavedAt
<1> DEFINE context == ContextOf(address, at)
<1>9. /\ context \in Contexts /\ context.error = "None"
      /\ context.rsp = x /\ context.registers = at.registers
  <2> DEFINE regs == at.registers
  <2>1. context = [rip |-> address, rsp |-> x, registers |-> regs, error |-> "None"]
    BY DEF ContextOf
  <2>2. x \in Int /\ regs \in Registers
    BY <1>1
  <2>. HIDE DEF context, x, regs
  <2>3. context \in Contexts
    BY <2>1, <2>2 DEF Contexts
  <2>4. context.error = "None" /\ context.rsp = x /\ context.registers = regs
    BY <2>1
  <2>. QED
    BY <2>3, <2>4 DEF regs
<1>. HIDE DEF context, h, slot, w, x
<1>10. UnwoundTo(Q, e, c, w, context)
  BY <1>3, <1>6, <1>7, <1>8, <1>9 DEF UnwoundTo, h, slot
<1>. QED
  BY <1>4, <1>10 DEF w, context

\* The context as it is when all of a prologue is undone, and the return.
LEMMA ReturnsTo ==
  ASSUME NEW Q, NEW c, NEW w \in {0, 1}, NEW context, Known(Q, 0, c),
         UnwoundTo(Q, 0, c, w, context), c.rip \in Int, c.rsp \in Int
  PROVE  /\ PopReturnAddress(context).rip = c.rip /\ PopReturnAddress(context).rsp = c.rsp
         /\ context.error = "None" /\ PopReturnAddress(context).error = "None"
         /\ Exact(Q, w) => PopReturnAddress(context) = ContextOf(c.rip, c)
<1>1. /\ Q \in Seq(Operations) /\ context \in Contexts /\ context.error = "None"
      /\ context.rsp = (Slot(c) - Held(Q)[0]) - MovedBy(Q, 0, w)
      /\ Exact(Q, w) => UnsavedAt(Q, 0, c, context.registers)
      /\ c.registers \in Registers /\ Slot(c) \in 1 .. StackSize /\ KeptAt(Q, 0, c, memory)
  BY DEF UnwoundTo, Known
<1>2. Held(Q)[0] = 0 /\ MovedBy(Q, 0, w) = 0
  BY <1>1, HeldFacts DEF MovedBy, IsFramed
<1>3. Slot(c) = c.rsp - 1 /\ Slot(c) \in Int /\ StackSize \in Nat
  BY UnwinderAssumption DEF Slot
<1>4. context.rsp = Slot(c) /\ context.rsp + 1 = c.rsp
  BY <1>1, <1>2, <1>3
<1>5. Word(context.rsp) = c.rip
  BY <1>1, <1>4, WordFacts DEF KeptAt
<1> DEFINE next == PopReturnAddress(context)
<1>6. /\ next.rip = c.rip /\ next.rsp = c.rsp /\ next.error = "None"
      /\ next.registers = context.registers
      /\ next = [rip |-> next.rip, rsp |-> next.rsp, registers |-> next.registers,
                 error |-> next.error]
  <2> DEFINE word == Word(context.rsp)
  <2>1. next = [context EXCEPT !.rip = word, !.rsp = @ + 1] /\ word = c.rip
    BY <1>5 DEF PopReturnAddress
  <2>2. context = [rip |-> context.rip, rsp |-> context.rsp,
                   registers |-> context.registers, error |-> context.error]
    BY <1>1 DEF Contexts
  <2>. HIDE DEF word, next
  <2>. QED
    BY <1>1, <1>4, <2>1, <2>2
<1>7. ASSUME Exact(Q, w) PROVE context.registers = c.registers
  <2>1. \A k \in Saving(Q) : ~(k <= 0)
    BY <1>1, LenProperties DEF Saving
  <2>2. \A r \in Nonvolatile : context.registers[r] = c.registers[r]
    BY <1>1, <1>7, <2>1 DEF UnsavedAt, IsSaved
  <2>. QED
    BY <1>1, <2>2 DEF Registers, Contexts
<1>. HIDE DEF next
<1>8. Exact(Q, w) => next = ContextOf(c.rip, c)
  BY <1>6, <1>7 DEF ContextOf
<1>. QED
  BY <1>1, <1>6, <1>8 DEF next

\* A call of function i stands at offset o, and is to return to c.
CallAt(i, o, c, at) ==
  /\ i \in 1 .. Len(image) /\ o \in 0 .. 2 * Length(i) + 2
  /\ FrameAt(Whole(image)[i], Remaining(i, o), Executed(i, o), c, at, memory)
  /\ Stands(Whole(image)[i], Remaining(i, o), Executed(i, o))

Unwinds(context, c, exact) ==
  LET caller == VirtualUnwind(context)
  IN /\ caller.rip = c.rip /\ caller.rsp = c.rsp /\ caller.error = "None"
     /\ exact => caller = ContextOf(c.rip, c)

\* How many instructions of a function's own have run.
HasRun(b, l, o, t) ==
  /\ t \in 0 .. l /\ RunTo(b, l, o) = b + t
  /\ \A k \in 1 .. l : (o <= l => l + 1 - k <= o) <=> l + 1 - k <= t
  /\ UndoneTo(b, l, o) \in 0 .. RunTo(b, l, o) /\ RunTo(b, l, o) \in 0 .. b + l

LEMMA CountRun ==
  ASSUME NEW b \in Nat, NEW l \in Nat, NEW o \in 0 .. 2 * l + 2
  PROVE  \E t : HasRun(b, l, o, t)
<1> DEFINE t == IF o <= l THEN o ELSE l
<1>1. t \in 0 .. l /\ o \in Int
  OBVIOUS
<1>2. \A k \in 1 .. l : (o <= l => l + 1 - k <= o) <=> l + 1 - k <= t
  OBVIOUS
<1>3. RunTo(b, l, o) = b + t
  BY DEF RunTo
<1>4. UndoneTo(b, l, o) \in 0 .. b + t /\ b + t \in 0 .. b + l
  BY DEF UndoneTo
<1>. QED
  BY <1>1, <1>2, <1>3, <1>4 DEF HasRun

LEMMA CallWithin ==
  ASSUME image \in Images, NEW i, NEW o, NEW c, NEW at, CallAt(i, o, c, at)
  PROVE  LET context == ContextOf(BeginOf(i) + o, at)
         IN \E t : /\ Within(i, t, Whole(image)[i], c, at.allocated, context)
                   /\ TakesUpTo(i, t, Passed(EntryOf(i), context.rip))
<1> DEFINE Q == Whole(image)[i]
           l == Length(i)
           b == Before(i)
           address == BeginOf(i) + o
           context == ContextOf(address, at)
<1>1. /\ i \in 1 .. Len(image) /\ o \in 0 .. 2 * l + 2
      /\ FrameAt(Q, Remaining(i, o), Executed(i, o), c, at, memory)
      /\ Stands(Q, Remaining(i, o), Executed(i, o))
  BY DEF CallAt
<1>2. /\ Q \in Seq(Operations) /\ WellFormed(Q)
      /\ l \in Nat /\ b \in Nat /\ Len(Q) = b + l
      /\ image[i].prologue \in Seq(Operations) /\ l = Len(image[i].prologue)
      /\ BeginOf(i) \in Nat /\ Len(image) \in Nat
  <2>1. Len(image) \in Nat /\ i \in 0 .. Len(image) /\ i - 1 \in 0 .. Len(image)
    BY <1>1, ImageFacts
  <2>2. Q \in Seq(Operations)
    BY <2>1, WholeFacts
  <2>3. l \in Nat /\ b \in Nat /\ Len(Q) = b + l
    BY <1>1, LengthOfWhole
  <2>4. WellFormed(Q) /\ image[i].prologue \in Seq(Operations)
    BY <1>1, ImageFacts
  <2>5. BeginOf(i) \in Nat
    BY <2>1, EndFacts DEF BeginOf
  <2>. QED
    BY <2>1, <2>2, <2>3, <2>4, <2>5 DEF Length
<1>. HIDE DEF Q
<1>3. PICK t : HasRun(b, l, o, t)
  <2>. HIDE DEF l, b
  <2>. QED
    BY <1>1, <1>2, CountRun
<1>4. /\ Executed(i, o) = b + t /\ Executed(i, o) \in 0 .. Len(Q)
      /\ Remaining(i, o) \in 0 .. Executed(i, o)
  BY <1>2, <1>3 DEF HasRun, Executed, Remaining
<1>5. address \in Int /\ address - BeginOf(i) = o
  <2>1. o \in Int
    BY <1>1
  <2> DEFINE begin == BeginOf(i)
  <2>. HIDE DEF begin
  <2>2. begin \in Nat
    BY <1>2 DEF begin
  <2>3. begin + o \in Int /\ (begin + o) - begin = o
    BY <2>1, <2>2
  <2>. QED
    BY <2>3 DEF begin
<1>. HIDE DEF address
<1>6. Known(Q, Executed(i, o), c) /\ UnwoundTo(Q, Executed(i, o), c, at.allocated, context)
  BY <1>1, <1>2, <1>4, <1>5, FrameUnwinds
<1>7. at.allocated \in {0, 1}
  BY <1>1 DEF FrameAt, StackAt
<1>8. Starts(Q, Q)
  BY <1>2 DEF Starts
<1>9. Within(i, t, Q, c, at.allocated, context)
  BY <1>1, <1>3, <1>4, <1>6, <1>7, <1>8 DEF Within, HasRun, Q
<1>10. TakesUpTo(i, t, Passed(EntryOf(i), context.rip))
  <2> DEFINE codes == EntryOf(i).codes
             P == image[i].prologue
  <2>1. context.rip = address /\ EntryOf(i).begin = BeginOf(i) /\ EntryOf(i).prologSize = l
    BY <1>2, EntryFacts DEF ContextOf
  <2>2. Passed(EntryOf(i), context.rip) = [k \in DOMAIN codes |-> o <= l => codes[k].at <= o]
    BY <1>5, <2>1 DEF Passed
  <2>3. codes = CodesOf(P)
    BY EntryFacts
  <2>4. DOMAIN codes = 1 .. l /\ \A k \in 1 .. l : codes[k].at = l + 1 - k
    <3>1. /\ DOMAIN CodesOf(P) = 1 .. Len(P)
          /\ \A k \in 1 .. Len(P) : CodesOf(P)[k] = [at |-> Len(P) + 1 - k,
                                                     does |-> P[Len(P) + 1 - k]]
      BY <1>2, CodesFacts
    <3>2. P \in Seq(Operations) /\ Len(P) = l
      BY <1>2
    <3>. HIDE DEF P, codes, l
    <3>3. ASSUME NEW k \in 1 .. l PROVE CodesOf(P)[k].at = l + 1 - k
      <4> DEFINE d == P[l + 1 - k]
                 a == l + 1 - k
      <4>1. CodesOf(P)[k] = [at |-> a, does |-> d]
        BY <3>1, <3>2
      <4>. SUFFICES CodesOf(P)[k].at = a
        OBVIOUS
      <4>. HIDE DEF a, d
      <4>. QED
        BY <4>1
    <3>. QED
      BY <2>3, <3>1, <3>2, <3>3
  <2>. HIDE DEF codes, P, l
  <2>5. \A k \in 1 .. l : Passed(EntryOf(i), context.rip)[k] <=> (o <= l => l + 1 - k <= o)
    BY <2>2, <2>4
  <2>6. \A k \in 1 .. l : Passed(EntryOf(i), context.rip)[k] <=> l + 1 - k <= t
    BY <1>3, <2>5 DEF HasRun, l
  <2>. QED
    BY <2>6 DEF TakesUpTo, l
<1>. QED
  BY <1>9, <1>10 DEF Q, address

\* One call unwound.
LEMMA CallUnwinds ==
  ASSUME image \in Images, Valid, NEW i, NEW o, NEW c, NEW at, CallAt(i, o, c, at)
  PROVE  Unwinds(ContextOf(BeginOf(i) + o, at), c, Exact(Whole(image)[i], at.allocated))
<1> DEFINE Q == Whole(image)[i]
           address == BeginOf(i) + o
           context == ContextOf(address, at)
           entry == EntryOf(i)
<1>1. /\ i \in 1 .. Len(image) /\ o \in 0 .. 2 * Length(i) + 2
      /\ FrameAt(Q, Remaining(i, o), Executed(i, o), c, at, memory)
      /\ Len(image) \in Nat /\ i - 1 \in 0 .. Len(image)
  BY ImageFacts DEF CallAt
<1>2. address \in BeginOf(i) .. EndOf(i) - 1 /\ InImage(address)
  <2>1. Length(i) \in Nat /\ BeginOf(i) \in Nat /\ EndOf(i) = BeginOf(i) + (2 * Length(i) + 3)
    BY <1>1, ImageFacts, EndFacts DEF BeginOf, Length
  <2>2. address \in BeginOf(i) .. EndOf(i) - 1
    <3> DEFINE begin == BeginOf(i)
               end == EndOf(i)
               l == Length(i)
    <3>1. l \in Nat /\ begin \in Nat /\ end = begin + (2 * l + 3) /\ o \in 0 .. 2 * l + 2
      BY <1>1, <2>1
    <3>. SUFFICES begin + o \in begin .. end - 1
      OBVIOUS
    <3>. HIDE DEF begin, end, l
    <3>. QED
      BY <3>1
  <2>. HIDE DEF address
  <2>3. 1 <= address /\ address < ImageEnd
    BY <1>1, <2>2, OneFunction
  <2>4. address \in Int /\ ImageEnd \in Nat
    <3>1. ImageEnd \in Nat
      <4>1. Len(image) \in 0 .. Len(image)
        BY <1>1
      <4>. QED
        BY <4>1, EndFacts DEF ImageEnd
    <3>2. address \in Int
      BY <2>1, <2>2
    <3>. QED
      BY <3>1, <3>2
  <2>. QED
    BY <2>2, <2>3, <2>4 DEF InImage
<1>3. /\ at.allocated \in {0, 1} /\ at.rsp \in Int
      /\ c.rip \in Int /\ c.rsp \in Int /\ c.registers \in Registers
  BY <1>1 DEF FrameAt, StackAt
<1>4. context.rip = address /\ context.rsp = at.rsp /\ context.error = "None"
  BY DEF ContextOf
<1>5. at.rsp < c.rsp
  <2>1. /\ Q \in Seq(Operations) /\ Length(i) \in Nat /\ Before(i) \in Nat
        /\ Len(Q) = Before(i) + Length(i)
    <3>1. i \in 0 .. Len(image)
      BY <1>1
    <3>. QED
      BY <1>1, <3>1, WholeFacts, LengthOfWhole
  <2>2. Remaining(i, o) \in 0 .. Executed(i, o) /\ Executed(i, o) \in 0 .. Len(Q)
    <3> DEFINE b == Before(i)
               l == Length(i)
    <3>1. b \in Nat /\ l \in Nat /\ o \in 0 .. 2 * l + 2
      BY <1>1, <2>1
    <3>. HIDE DEF b, l
    <3>2. UndoneTo(b, l, o) \in 0 .. RunTo(b, l, o) /\ RunTo(b, l, o) \in 0 .. b + l
      BY <3>1, CountRun DEF HasRun
    <3>. QED
      BY <2>1, <3>2 DEF b, l, Remaining, Executed
  <2>. HIDE DEF Q
  <2>. QED
    BY <1>1, <2>1, <2>2, FrameReaches
<1>. HIDE DEF address, context, Q
<1>6. CASE image[i].leaf
  <2>1. LookupRuntimeFunction(address) = 0
    BY <1>1, <1>2, <1>6, LookupFinds
  <2>2. VirtualUnwind(context) = PopReturnAddress(context)
    BY <1>2, <1>4, <2>1 DEF VirtualUnwind
  <2>3. Q = <<>> /\ Length(i) = 0 /\ Before(i) = 0
    <3>1. image[i].prologue = <<>> /\ image[i].parent = 0
      BY <1>1, <1>6, ImageFacts
    <3>2. Whole(image)[0] = <<>>
      BY WholeFacts
    <3>3. Whole(image)[i] = Whole(image)[image[i].parent] \o image[i].prologue
      BY <1>1, WholeFacts
    <3>4. Q = <<>> \o <<>>
      BY <3>1, <3>2, <3>3 DEF Q
    <3>. QED
      BY <3>1, <3>2, <3>4 DEF Length, Before
  <2>4. Remaining(i, o) = 0 /\ Executed(i, o) = 0
    <3>1. o \in 0 .. 2
      BY <1>1, <2>3
    <3>. QED
      BY <2>3, <3>1 DEF Remaining, Executed, RunTo, UndoneTo
  <2>5. /\ at.rsp = c.rsp - 1 /\ at.rsp \in 1 .. StackSize
        /\ memory[at.rsp] = c.rip /\ at.registers = c.registers
    <3>1. Q \in Seq(Operations) /\ 0 \in 0 .. Len(Q)
      BY <2>3
    <3>. QED
      BY <1>1, <2>4, <3>1, FrameReturned
  <2>6. Word(at.rsp) = c.rip
    <3>1. memory \in Memories
      BY <1>1 DEF FrameAt, KeptAt
    <3>. QED
      BY <2>5, <3>1, WordFacts
  <2>7. PopReturnAddress(context) = ContextOf(c.rip, c)
    <3>1. context = [rip |-> address, rsp |-> at.rsp, registers |-> c.registers,
                     error |-> "None"]
      BY <2>5 DEF context, ContextOf
    <3>2. at.rsp + 1 = c.rsp
      BY <1>3, <2>5
    <3> DEFINE word == Word(at.rsp)
               x == at.rsp
               regs == c.registers
    <3>3. PopReturnAddress(context) = [context EXCEPT !.rip = word, !.rsp = @ + 1]
      BY <1>4 DEF PopReturnAddress
    <3>4. context = [rip |-> address, rsp |-> x, registers |-> regs, error |-> "None"]
      BY <3>1
    <3>. HIDE DEF word, x, regs
    <3>5. PopReturnAddress(context)
            = [rip |-> word, rsp |-> x + 1, registers |-> regs, error |-> "None"]
      BY <3>3, <3>4
    <3>. QED
      BY <2>6, <3>2, <3>5 DEF ContextOf, word, x, regs
  <2>8. ContextOf(c.rip, c).rip = c.rip /\ ContextOf(c.rip, c).rsp = c.rsp
        /\ ContextOf(c.rip, c).error = "None"
    BY DEF ContextOf
  <2>. QED
    BY <2>2, <2>7, <2>8 DEF Unwinds, context, address
<1>7. CASE ~ image[i].leaf
  <2> DEFINE found == LookupRuntimeFunction(address)
             undone == UndoEntries(context, entry)
             caller == PopReturnAddress(undone)
  <2>1. found # 0 /\ Functions[found] = entry
    <3>1. found \in 1 .. Len(Functions) /\ Functions[found] = entry
      BY <1>1, <1>2, <1>7, LookupFinds
    <3>2. 0 \notin 1 .. Len(Functions)
      OBVIOUS
    <3>. HIDE DEF found
    <3>. QED
      BY <3>1, <3>2
  <2>2. PICK t : /\ Within(i, t, Q, c, at.allocated, context)
                 /\ TakesUpTo(i, t, Passed(EntryOf(i), context.rip))
    BY CallWithin DEF Q, context, address
  <2>3. UnwoundTo(Q, 0, c, at.allocated, undone)
    BY <2>2, EntriesUndone
  <2>4. Known(Q, 0, c)
    <3>1. Known(Q, Before(i) + t, c) /\ t \in 0 .. Length(i)
      BY <2>2 DEF Within
    <3>2. Before(i) \in Nat
      BY <1>1, LengthOfWhole
    <3>3. 0 \in 0 .. Before(i) + t
      BY <3>1, <3>2
    <3>. QED
      BY <3>1, <3>3, KnownBelow
  <2>. HIDE DEF found, undone, entry
  <2>5. /\ caller.rip = c.rip /\ caller.rsp = c.rsp
        /\ undone.error = "None" /\ caller.error = "None"
        /\ Exact(Q, at.allocated) => caller = ContextOf(c.rip, c)
    BY <1>3, <2>3, <2>4, ReturnsTo
  <2>6. ~(caller.rsp <= context.rsp)
    BY <1>3, <1>4, <1>5, <2>5
  <2>7. VirtualUnwind(context) = caller
    <3>. HIDE DEF caller
    <3>. QED
      BY <1>2, <1>4, <2>1, <2>5, <2>6 DEF VirtualUnwind, found, undone, caller
  <2>. HIDE DEF caller
  <2>. QED
    BY <2>5, <2>7 DEF Unwinds, context, address, Q
<1>. QED
  BY <1>6, <1>7

\* A thread whose stack is whole stands as the unwinder takes it to.
LEMMA NotDismantled ==
  ASSUME ThreadInv, NEW i, NEW o, StandsAt(i, o), ~ Dismantled
  PROVE  CallAt(i, o, Last(callers), Here)
<1> DEFINE Q == Whole(image)[i]
           l == Length(i)
           b == Before(i)
           n == Remaining(i, o)
           e == Executed(i, o)
<1>1. /\ i \in 1 .. Len(image) /\ o \in 0 .. 2 * l + 2
      /\ Offset = o /\ Len(Prologue) = l /\ l \in Nat /\ b \in Nat
      /\ FrameAt(Q, n, e, Last(callers), Here, memory)
      /\ Prologue \in Seq(Operations)
      /\ \A k \in 1 .. l : Q[b + k] = Prologue[k]
  <2>. HIDE DEF Q, l, b, n, e
  <2>. QED
    BY Standing DEF Q, l, b, n, e
<1>2. \A k \in 1 .. l : k > l - (o - l - 2) => Prologue[k].op \notin {"Push", "Allocate"}
  <2>1. DOMAIN Prologue = 1 .. l
    BY <1>1, LenProperties
  <2>. HIDE DEF l
  <2>. QED
    BY <1>1, <2>1 DEF Dismantled
<1>3. n = UndoneTo(b, l, o) /\ e = RunTo(b, l, o)
  BY DEF Remaining, Executed
<1>. HIDE DEF Q, l, b, n, e
<1>4. ASSUME NEW x \in n + 1 .. e PROVE Q[x].op \notin {"Push", "Allocate"}
  <2>1. /\ x - b \in 1 .. l /\ x - b > l - (o - l - 2) /\ b + (x - b) = x
    BY <1>1, <1>3 DEF RunTo, UndoneTo
  <2>. QED
    BY <1>1, <1>2, <2>1
<1>5. Stands(Q, n, e)
  BY <1>4 DEF Stands
<1>. QED
  BY <1>1, <1>5 DEF CallAt, Q, l, n, e

LEMMA ExactUnlessDisplaced ==
  ASSUME image \in Images, NEW i \in 1 .. Len(image), NEW w \in {0, 1}, ~ Displaced(w, i)
  PROVE  Exact(Whole(image)[i], w)
<1> DEFINE Q == Whole(image)[i]
<1>1. Q \in Seq(Operations)
  <2>1. i \in 0 .. Len(image)
    BY ImageFacts
  <2>. QED
    BY <2>1, WholeFacts
<1>2. \A k \in 1 .. Len(Q) : Q[k] \in Range(Q)
  BY <1>1, LenProperties DEF Range
<1>3. w = 0 \/ \A p \in Range(Q) : p.op # "Save"
  BY DEF Displaced, Does
<1>. QED
  BY <1>2, <1>3 DEF Exact

\* The innermost call.
LEMMA FirstUnwinds ==
  ASSUME ThreadInv, Valid, ~ Dismantled
  PROVE  /\ Running \in 1 .. Len(image) /\ image \in Images /\ allocated \in {0, 1}
         /\ callers \in Seq(Callers) /\ callers # <<>> /\ Calls(callers, memory)
         /\ Unwinds(Current, Last(callers), Exact(Whole(image)[Running], allocated))
<1>1. PICK i, o : StandsAt(i, o)
  BY DEF ThreadInv
<1>2. /\ image \in Images /\ callers \in Seq(Callers) /\ callers # <<>>
      /\ Calls(callers, memory)
      /\ i \in 1 .. Len(image) /\ Running = i /\ rip = BeginOf(i) + o /\ allocated \in {0, 1}
  BY <1>1, Standing
<1>3. CallAt(i, o, Last(callers), Here)
  BY <1>1, NotDismantled
<1>4. Unwinds(ContextOf(BeginOf(i) + o, Here), Last(callers),
              Exact(Whole(image)[i], Here.allocated))
  BY <1>2, <1>3, CallUnwinds
<1>5. Here.allocated = allocated /\ ContextOf(rip, Here) = Current
  BY DEF Here, ContextOf, Current
<1>. QED
  BY <1>2, <1>4, <1>5

\* The calls further out.
LEMMA OuterUnwinds ==
  ASSUME image \in Images, Valid, NEW c, NEW outer, CalledFrom(c, outer, memory)
  PROVE  /\ c.function \in 1 .. Len(image) /\ c.allocated \in {0, 1}
         /\ Unwinds(ContextOf(c.rip, c), outer, Exact(Whole(image)[c.function], c.allocated))
<1> DEFINE f == c.function
           Q == Whole(image)[f]
           o == Length(f) + 1
<1>1. /\ f \in 1 .. Len(image) /\ c.rip = BeginOf(f) + o
      /\ FrameAt(Q, Len(Q), Len(Q), outer, c, memory)
  BY DEF CalledFrom
<1>2. /\ Length(f) \in Nat /\ Before(f) \in Nat /\ Len(Q) = Before(f) + Length(f)
  BY <1>1, LengthOfWhole
<1>3. /\ o \in 0 .. 2 * Length(f) + 2
      /\ Executed(f, o) = Len(Q) /\ Remaining(f, o) = Len(Q)
  BY <1>2, EndCount
<1>4. Stands(Q, Len(Q), Len(Q))
  BY <1>2 DEF Stands
<1>5. CallAt(f, o, outer, c)
  <2>. HIDE DEF f, Q, o
  <2>. QED
    BY <1>1, <1>3, <1>4 DEF CallAt, Q
<1>6. Unwinds(ContextOf(BeginOf(f) + o, c), outer, Exact(Q, c.allocated))
  <2>. HIDE DEF f, o
  <2>. QED
    BY <1>5, CallUnwinds
<1>7. c.allocated \in {0, 1}
  BY <1>1 DEF FrameAt, StackAt
<1>. QED
  BY <1>1, <1>6, <1>7

LEMMA WayIsKept == ThreadInv => FramePointerKeepsTheWay
<1>. SUFFICES ASSUME ThreadInv, Valid, ~ Dismantled
              PROVE  /\ VirtualUnwind(Current).error = "None"
                     /\ VirtualUnwind(Current).rip = Last(callers).rip
                     /\ VirtualUnwind(Current).rsp = Last(callers).rsp
  BY DEF FramePointerKeepsTheWay
<1>. QED
  BY FirstUnwinds DEF Unwinds

\* The walk exists, however long.
Walks(f, d) ==
  f = [n \in 0 .. d |-> IF n = 0 THEN Current ELSE VirtualUnwind(f[n - 1])]

LEMMA WalkExists ==
  ASSUME NEW d \in Nat
  PROVE  \E f : Walks(f, d)
<1> DEFINE T == {m \in Nat : \E f : Walks(f, m)}
<1>1. 0 \in T
  <2> DEFINE f == [n \in 0 .. 0 |-> Current]
  <2>1. f = [n \in 0 .. 0 |-> IF n = 0 THEN Current ELSE VirtualUnwind(f[n - 1])]
    OBVIOUS
  <2>. QED
    BY <2>1 DEF Walks
<1>2. ASSUME NEW m \in Nat, m \in T PROVE m + 1 \in T
  <2>1. PICK f : Walks(f, m)
    BY <1>2
  <2> DEFINE g == [n \in 0 .. m + 1 |-> IF n = m + 1 THEN VirtualUnwind(f[m]) ELSE f[n]]
  <2>2. \A n \in 0 .. m : f[n] = IF n = 0 THEN Current ELSE VirtualUnwind(f[n - 1])
    BY <2>1 DEF Walks
  <2>3. ASSUME NEW n \in 0 .. m + 1
        PROVE  g[n] = IF n = 0 THEN Current ELSE VirtualUnwind(g[n - 1])
    <3>1. CASE n = m + 1
      <4>1. n # 0 /\ n - 1 = m /\ m \in 0 .. m + 1 /\ m # m + 1
        BY <3>1
      <4>2. g[n - 1] = f[m] /\ g[n] = VirtualUnwind(f[m])
        BY <3>1, <4>1
      <4>. HIDE DEF g
      <4>. QED
        BY <4>1, <4>2
    <3>2. CASE n # m + 1
      <4>1. n \in 0 .. m /\ (n # 0 => n - 1 \in 0 .. m + 1 /\ n - 1 # m + 1)
        BY <3>2
      <4>2. g[n] = f[n] /\ (n # 0 => g[n - 1] = f[n - 1])
        BY <3>2, <4>1
      <4>. HIDE DEF g
      <4>. QED
        BY <2>2, <4>1, <4>2
    <3>. QED
      BY <3>1, <3>2
  <2>4. g = [n \in 0 .. m + 1 |-> g[n]]
    OBVIOUS
  <2>. HIDE DEF g
  <2>5. g = [n \in 0 .. m + 1 |-> IF n = 0 THEN Current ELSE VirtualUnwind(g[n - 1])]
    BY <2>3, <2>4
  <2>. QED
    BY <2>5 DEF Walks
<1>. HIDE DEF T
<1>3. Nat \subseteq T
  BY <1>1, <1>2, NatSetInduction
<1>. QED
  BY <1>3 DEF T

LEMMA WalkIsRight == ThreadInv => WalkFindsEveryCaller
<1>. SUFFICES ASSUME ThreadInv, Valid PROVE WalkFindsEveryCaller
  BY DEF WalkFindsEveryCaller
<1> DEFINE depth == Len(callers)
           walk == CHOOSE f : Walks(f, depth)
           sound(n) == /\ ~ Dismantled
                       /\ ~ Displaced(allocated, Running)
                       /\ \A k \in depth - n + 2 .. depth :
                            ~ Displaced(callers[k].allocated, callers[k].function)
           Right(n) == LET caller == callers[depth - n + 1]
                       IN walk[n] = ContextOf(caller.rip, caller)
<1>1. SUFFICES \A n \in 1 .. depth : sound(n) => Right(n)
  BY DEF WalkFindsEveryCaller, Walks, ContextOf
<1>2. depth \in Nat /\ \A k \in 1 .. depth : callers[k] \in Callers
  BY LenProperties DEF ThreadInv
<1>3. Walks(walk, depth)
  <2>. HIDE DEF depth
  <2>. QED
    BY <1>2, WalkExists
<1>. HIDE DEF walk
<1>4. walk[0] = Current /\ \A n \in 1 .. depth : walk[n] = VirtualUnwind(walk[n - 1])
  <2>1. 0 \in 0 .. depth /\ \A n \in 1 .. depth : n \in 0 .. depth /\ n # 0
    BY <1>2
  <2>. HIDE DEF depth
  <2>. QED
    BY <1>3, <2>1 DEF Walks
<1> DEFINE T == {n \in Nat : n + 1 <= depth /\ sound(n + 1) => Right(n + 1)}
<1>5. 0 \in T
  <2>1. SUFFICES ASSUME 0 + 1 <= depth, sound(0 + 1) PROVE Right(0 + 1)
    OBVIOUS
  <2>2. /\ Running \in 1 .. Len(image) /\ image \in Images /\ allocated \in {0, 1}
        /\ Unwinds(Current, Last(callers), Exact(Whole(image)[Running], allocated))
    BY <2>1, FirstUnwinds
  <2>3. Exact(Whole(image)[Running], allocated)
    BY <2>1, <2>2, ExactUnlessDisplaced
  <2>4. VirtualUnwind(Current) = ContextOf(Last(callers).rip, Last(callers))
    BY <2>2, <2>3 DEF Unwinds
  <2>5. 0 + 1 = 1 /\ depth - 1 + 1 = depth /\ 1 \in 1 .. depth /\ 1 - 1 = 0
    BY <1>2, <2>1
  <2>6. callers[depth] = Last(callers)
    BY DEF Last
  <2>7. walk[1] = VirtualUnwind(Current)
    BY <1>4, <2>5
  <2>. HIDE DEF depth
  <2>. QED
    BY <2>4, <2>5, <2>6, <2>7
<1>6. ASSUME NEW n \in Nat, n \in T PROVE n + 1 \in T
  <2>1. SUFFICES ASSUME (n + 1) + 1 <= depth, sound((n + 1) + 1) PROVE Right((n + 1) + 1)
    OBVIOUS
  <2> DEFINE k == depth - n
  <2>2. /\ n + 1 <= depth /\ k \in 2 .. depth /\ k \in depth - ((n + 1) + 1) + 2 .. depth
        /\ (n + 1) + 1 \in 1 .. depth /\ ((n + 1) + 1) - 1 = n + 1
        /\ depth - (n + 1) + 1 = k /\ depth - ((n + 1) + 1) + 1 = k - 1
        /\ \A j \in depth - (n + 1) + 2 .. depth : j \in depth - ((n + 1) + 1) + 2 .. depth
    BY <1>2, <2>1
  <2>3. sound(n + 1)
    BY <2>1, <2>2
  <2>4. Right(n + 1)
    BY <1>6, <2>2, <2>3
  <2> DEFINE c == callers[k]
             outer == callers[k - 1]
  <2>5. walk[n + 1] = ContextOf(c.rip, c)
    BY <2>2, <2>4
  <2>6. CalledFrom(c, outer, memory) /\ image \in Images
    BY <2>2 DEF ThreadInv, Calls
  <2>7. ~ Displaced(c.allocated, c.function)
    BY <2>1, <2>2
  <2>. HIDE DEF c, outer, k, depth, T, sound
  <2>8. /\ c.function \in 1 .. Len(image) /\ c.allocated \in {0, 1}
        /\ Unwinds(ContextOf(c.rip, c), outer, Exact(Whole(image)[c.function], c.allocated))
    BY <2>6, OuterUnwinds
  <2>9. Exact(Whole(image)[c.function], c.allocated)
    BY <2>6, <2>7, <2>8, ExactUnlessDisplaced
  <2>10. VirtualUnwind(walk[n + 1]) = ContextOf(outer.rip, outer)
    BY <2>5, <2>8, <2>9 DEF Unwinds
  <2>11. walk[(n + 1) + 1] = VirtualUnwind(walk[n + 1])
    BY <1>4, <2>2
  <2>12. callers[depth - ((n + 1) + 1) + 1] = outer
    BY <2>2 DEF outer
  <2>. QED
    BY <2>10, <2>11, <2>12
<1>. HIDE DEF T
<1>7. Nat \subseteq T
  BY <1>5, <1>6, NatSetInduction
<1>8. ASSUME NEW n \in 1 .. depth, sound(n) PROVE Right(n)
  <2>1. n - 1 \in Nat /\ (n - 1) + 1 = n /\ n <= depth
    BY <1>2
  <2>2. n - 1 \in T
    BY <1>7, <2>1
  <2>3. (n - 1) + 1 <= depth /\ sound((n - 1) + 1) => Right((n - 1) + 1)
    <3>. HIDE DEF sound, Right
    <3>. QED
      BY <2>2 DEF T
  <2>. HIDE DEF sound, Right, depth
  <2>. QED
    BY <1>8, <2>1, <2>3
<1>. QED
  BY <1>8

\* From the registers of a thread and its stack, and whatever it does, the
\* unwinder finds every caller (VirtualUnwind).
THEOREM WalkIsFound == ThreadSpec => []WalkFindsEveryCaller
<1>1. ThreadSpec => []ThreadInv
  BY ThreadKeepsItsFrames
<1>2. ThreadInv => WalkFindsEveryCaller
  BY WalkIsRight
<1>. QED
  BY <1>1, <1>2, PTL

\* The frame pointer is enough for the way to the caller (VirtualUnwind).
THEOREM WayIsFound == ThreadSpec => []FramePointerKeepsTheWay
<1>1. ThreadSpec => []ThreadInv
  BY ThreadKeepsItsFrames
<1>2. ThreadInv => FramePointerKeepsTheWay
  BY WayIsKept
<1>. QED
  BY <1>1, <1>2, PTL
=============================================================================
