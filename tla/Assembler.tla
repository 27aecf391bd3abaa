----------------------------- MODULE Assembler -----------------------------
(* X64::Assembly: a Program of sections, labels and nodes that is put      *)
(* together one node at a time, and Assemble, which lays the nodes out,    *)
(* asks the encoder how long every instruction is at its address, and      *)
(* starts over until no length changes or the passes are used up.          *)
EXTENDS Integers, FiniteSets, SequencesExt

CONSTANTS
  Alignments,     \* powers of two
  DataSizes,      \* the sizes of data, and of instructions that do not branch
  Mnemonics,      \* "Jmp", "Jcc"
  Widths,         \* "Automatic", "Width8", "Width32"
  Addresses,      \* the addresses that branches without a label go to
  BaseAddress,
  Reach,          \* a short branch reaches -Reach - 1 .. Reach
  NearReach,      \* a near branch reaches -NearReach - 1 .. NearReach
  MaximumLength,  \* the length every instruction is given at first, none is longer
  MaximumPasses,
  MaxLabels, MaxNodes, MaxSections  \* bounds on the programs that are explored

\* External: the lengths of a branch, as the encoder of Zydis gives them.
ShortSize == 2
NearSize(mnemonic) == IF mnemonic = "Jcc" THEN 6 ELSE 5

ASSUME AssemblerAssumption ==
  /\ Alignments \cup DataSizes \subseteq Nat \ {0}
  /\ Addresses \subseteq Nat /\ BaseAddress \in Nat
  /\ Reach \in Nat /\ NearReach \in Nat
  /\ MaximumLength \in Nat /\ NearSize("Jcc") <= MaximumLength
  /\ MaximumPasses \in Nat \ {0}
  /\ MaxLabels \in Nat /\ MaxNodes \in Nat /\ MaxSections \in Nat
  /\ Mnemonics \subseteq {"Jmp", "Jcc"}
  /\ Widths \subseteq {"Automatic", "Width8", "Width32"}

VARIABLES
  sections,  \* Program::Sections_: the alignment and the nodes of each
  current,   \* Program::CurrentSection_, 0 when there is none
  labels,    \* Program::Labels_: for each label, whether it is bound
  phase,     \* where Assemble stands, "Idle" when it does not run
  sizes,     \* NodeSizes
  passes,    \* the passes that have ended
  result     \* what Assemble returned last: a layout, an error, or nothing yet

program  == <<sections, current, labels>>
assembly == <<phase, sizes, passes, result>>
vars == <<program, assembly>>

-----------------------------------------------------------------------------
(* Program                                                                 *)

Answer(status) == [status |-> status, sizes |-> <<>>, relocations |-> {}]

LabelNode(l)  == [kind |-> "Label", label |-> l]
Anywhere      == 0   \* the label of a branch to an address

\* Jmp and Jcc, to a label or to an address.  A Call is as long as a Jmp of
\* Width32; what has no encoding at all is refused like a branch of Width8 to an
\* address that it does not reach.
BranchNodes   == [kind : {"Branch"}, mnemonic : Mnemonics, width : Widths,
                  label : DOMAIN labels, address : {0}] \cup
                 [kind : {"Branch"}, mnemonic : Mnemonics, width : Widths,
                  label : {Anywhere}, address : Addresses]
PlainNodes    == [kind : {"Data"}, size : DataSizes] \cup
                 [kind : {"Plain"}, size : {n \in DataSizes : n <= MaximumLength}]
AlignNodes    == [kind : {"Align"}, alignment : Alignments]

\* Section::Append on the current section.  Without a section, and without the
\* memory for the node, the program stays as it is and the caller is told.
AppendNode(node) ==
  /\ current # 0
  /\ FoldSeq(LAMBDA s, n : n + Len(s.nodes), 0, sections) < MaxNodes
  /\ sections' = [sections EXCEPT ![current].nodes = Append(@, node)]

CreateSection ==
  /\ Len(sections) < MaxSections
  /\ \E a \in Alignments :
       sections' = Append(sections, [alignment |-> a, nodes |-> <<>>])
  /\ UNCHANGED <<current, labels>>

SwitchSection ==
  /\ current' \in 1 .. Len(sections) \ {current}
  /\ UNCHANGED <<sections, labels>>

CreateLabel ==
  /\ Len(labels) < MaxLabels
  /\ labels' = Append(labels, FALSE)
  /\ UNCHANGED <<sections, current>>

\* A label is bound once; it may be the target of branches before and after.
Bind ==
  /\ \E l \in DOMAIN labels :
       /\ ~ labels[l]
       /\ AppendNode(LabelNode(l))
       /\ labels' = [labels EXCEPT ![l] = TRUE]
  /\ UNCHANGED current

\* AppendInstruction with and without a label, AppendData and Align.
AppendOther ==
  /\ \E node \in BranchNodes \cup PlainNodes \cup AlignNodes : AppendNode(node)
  /\ UNCHANGED <<current, labels>>

Build ==
  /\ phase = "Idle"
  /\ CreateSection \/ SwitchSection \/ CreateLabel \/ Bind \/ AppendOther
  /\ result' = Answer("None")
  /\ UNCHANGED <<phase, sizes, passes>>

-----------------------------------------------------------------------------
(* Layout and encoding                                                     *)

\* All nodes in the order they are laid out, each section behind a mark.
Items ==
  FlattenSeq([s \in DOMAIN sections |->
    <<[kind |-> "Section", alignment |-> sections[s].alignment]>>
      \o sections[s].nodes])

\* The items of a kind, by their place.
Places(kind) == {i \in DOMAIN Items : Items[i].kind = kind}

AlignUp(offset, alignment) == ((offset + alignment - 1) \div alignment) * alignment

\* ComputeLayout: the offset behind every item, and so before the next one.
Behind(size) ==
  LET items == Items
      behind[i \in 0 .. Len(items)] ==
        CASE i = 0 -> 0
          [] i > 0 /\ items[i].kind \in {"Section", "Align"} ->
               AlignUp(behind[i - 1], items[i].alignment)
          [] OTHER -> behind[i - 1] + size[i]
  IN behind

LabelPlaces(l) == {i \in Places("Label") : Items[i].label = l}

\* ResolveInstruction: the offset a branch goes to, beyond the code or before
\* it for most addresses.
Target(behind, i) ==
  IF Items[i].label # Anywhere THEN behind[Max(LabelPlaces(Items[i].label))]
  ELSE Items[i].address - BaseAddress

\* A branch holds the distance to its target from the address behind it, and
\* so has a form of a size only where the distance fits.
Fits(behind, i, size, reach) ==
  Target(behind, i) - (behind[i - 1] + size) \in - reach - 1 .. reach

MayBeShort(behind, i) ==
  Items[i].width # "Width32" /\ Fits(behind, i, ShortSize, Reach)

MayBeNear(behind, i) ==
  Items[i].width # "Width8" /\ Fits(behind, i, NearSize(Items[i].mnemonic), NearReach)

\* What keeps a pass from its end: a label that no node binds, or a target that
\* no form reaches.
FaultOf(behind, i) ==
  IF Items[i].kind # "Branch" THEN "None"
  ELSE IF Items[i].label # Anywhere /\ LabelPlaces(Items[i].label) = {}
       THEN "UnboundLabel"
  ELSE IF ~ MayBeShort(behind, i) /\ ~ MayBeNear(behind, i) THEN "EncodingFailure"
  ELSE "None"

FaultsAt(behind) == {i \in DOMAIN Items : FaultOf(behind, i) # "None"}

\* EncodeSize, at its place, of an instruction; data keeps its size, and the
\* other nodes take none of their own.
EncodedSize(behind, i) ==
  CASE Items[i].kind = "Branch" ->
         IF MayBeShort(behind, i) THEN ShortSize ELSE NearSize(Items[i].mnemonic)
    [] Items[i].kind \in {"Plain", "Data"} -> Items[i].size
    [] OTHER -> 0

Encoded(behind) == [i \in DOMAIN Items |-> EncodedSize(behind, i)]

-----------------------------------------------------------------------------
(* Assemble                                                                *)

Return(answer) ==
  phase' = "Idle" /\ result' = answer /\ sizes' = <<>> /\ passes' = 0

\* Deliberate error: every instruction is given the least length first.
ShortestFirst == ShortSize

\* The length every instruction is given first.
FirstLength == MaximumLength

FirstSizes ==
  [i \in DOMAIN Items |->
     CASE Items[i].kind \in {"Branch", "Plain"} -> FirstLength
       [] Items[i].kind = "Data" -> Items[i].size
       [] OTHER -> 0]

Assemble ==
  /\ phase = "Idle"
  /\ IF sections = <<>>
     THEN Return(Answer("InvalidSection"))
     ELSE /\ phase' = "Passes"
          /\ sizes' = FirstSizes
          /\ passes' = 0
          /\ result' = Answer("None")
  /\ UNCHANGED program

\* Deliberate error: a pass that only makes instructions shorter is the last.
NoneGrew(old, new) == \A i \in DOMAIN old : new[i] <= old[i]

\* A pass that changes no length is the last.
Settled(old, new) == new = old

\* Deliberate error: the last pass is not made.
UsedUpBefore(count) == count + 1 >= MaximumPasses

UsedUp(count) == count = MaximumPasses

\* One pass, or the end of the passes.
Pass ==
  LET behind == Behind(sizes)
      faults == FaultsAt(behind)
  IN /\ phase = "Passes"
     /\ IF UsedUp(passes) THEN Return(Answer("LayoutDidNotConverge"))
        ELSE IF faults # {} THEN Return(Answer(FaultOf(behind, Min(faults))))
        ELSE /\ sizes' = Encoded(behind)
             /\ passes' = passes + 1
             /\ phase' = IF Settled(sizes, Encoded(behind)) THEN "Emission" ELSE "Passes"
             /\ UNCHANGED result
     /\ UNCHANGED program

\* The second Encode of an instruction, into its place, and its relocation.
Emit ==
  LET behind == Behind(sizes)
  IN /\ phase = "Emission"
     /\ Return(IF FaultsAt(behind) # {} \/ Encoded(behind) # sizes
               THEN Answer("EncodingFailure")
               ELSE [status |-> "Assembled", sizes |-> sizes,
                     relocations |-> {<<i, Target(behind, i)>> : i \in Places("Branch")}])
     /\ UNCHANGED program

\* The vectors of the layout or of the result cannot be had.
RunOutOfMemory ==
  /\ phase # "Idle"
  /\ Return(Answer("AllocationFailure"))
  /\ UNCHANGED program

\* The constructor makes the section .text, unless it has no memory for it.
Init ==
  /\ \/ sections = <<[alignment |-> 16, nodes |-> <<>>]>> /\ current = 1
     \/ sections = <<>> /\ current = 0
  /\ labels = <<>>
  /\ phase = "Idle" /\ sizes = <<>> /\ passes = 0 /\ result = Answer("None")

Next == Build \/ Assemble \/ Pass \/ Emit \/ RunOutOfMemory

Spec == Init /\ [][Next]_vars

-----------------------------------------------------------------------------
(* Properties                                                              *)

\* Nothing in the program makes the distance of two nodes depend on where they
\* stand.
Unpadded ==
  /\ \A i \in Places("Align") : Items[i].alignment = 1
  /\ \A i \in Places("Section") \ {1} : Items[i].alignment = 1

\* A branch to an address may become longer when the code before it shrinks, if
\* the address is ahead of it, behind what it reaches from the front of the code
\* and not behind what it reaches from its first place.
Stretches(i) ==
  /\ Items[i].label = Anywhere /\ Items[i].width = "Automatic"
  /\ Items[i].address - BaseAddress - ShortSize
       \in Reach + 1 .. Reach + Behind(FirstSizes)[i - 1]

\* Nothing in the program gets longer when something before it gets shorter.
Contracting == Unpadded /\ \A i \in Places("Branch") : ~ Stretches(i)

\* When the passes end because no length changed, the layout that is emitted
\* is one in which every branch reaches its target with the length it was given
\* and no shorter one would do: the second encoding cannot fail.
ConvergedIsStable ==
  phase = "Emission" =>
    LET behind == Behind(sizes)
    IN \A i \in Places("Branch") :
         IF sizes[i] = ShortSize THEN MayBeShort(behind, i)
         ELSE ~ MayBeShort(behind, i) /\ MayBeNear(behind, i)

\* A pass never makes an instruction longer again, unless padding grows or an
\* address moves out of reach when the code before it shrinks.
ShrinksIfContracting ==
  [][phase = "Passes" /\ phase' # "Idle" /\ Contracting
       => \A i \in DOMAIN sizes : sizes'[i] <= sizes[i]]_vars

\* So the passes suffice for such a program: one for the first lengths, one for
\* each branch that becomes short later, and one that changes nothing.  Only a
\* program with padding, with a branch to an address that stretches, or with
\* nearly as many branches as there are passes, is refused because its layout
\* does not settle.
ConvergesIfContracting ==
  result.status = "LayoutDidNotConverge" =>
    ~ Contracting \/ Cardinality(Places("Branch")) + 2 > MaximumPasses
=============================================================================
