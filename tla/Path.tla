-------------------------------- MODULE Path --------------------------------
(* FileSystem::Path: an owned text that names a file, and the operations   *)
(* that split, normalize, join and relate such texts.  A text is a         *)
(* sequence of characters, of which the code tells apart the backslash,    *)
(* the slash, the dot and all the others.  The empty text is also what the *)
(* operations return when the memory for their result is missing.          *)
EXTENDS Integers, SequencesExt

CONSTANTS
  Letters,    \* the characters that are neither separators nor dots
  Leftovers   \* the characters that may be found in storage that was freed

Backslash == "\\"
Slash     == "/"
Dot       == "."
Separators == {Backslash, Slash}
Characters == Separators \cup {Dot} \cup Letters

Here == <<Dot>>
Up   == <<Dot, Dot>>

ASSUME LettersAssumption == Letters \cap (Separators \cup {Dot}) = {}

ASSUME LeftoversAssumption == Leftovers \subseteq Characters

-----------------------------------------------------------------------------
IsAbsolute(t) == t # <<>> /\ Head(t) = Backslash

IsRoot(t) == t = <<Backslash>>

\* The maximal runs of characters outside S, in order: the names before the
\* running one, and what there is of that one.
Split(t, S) ==
  LET Names(s) == IF s.name = <<>> THEN s.names ELSE Append(s.names, s.name)
      AddCharacter(s, c) ==
        IF c \in S THEN [names |-> Names(s), name |-> <<>>]
        ELSE [s EXCEPT !.name = Append(@, c)]
  IN Names(FoldLeft(AddCharacter, [names |-> <<>>, name |-> <<>>], t))

Components(t) == Split(t, {Backslash})

\* Deliberate error: ".." names the directory above only below the root.
ResolveKeepsUp(absolute, names, name) ==
  IF name = Here THEN names
  ELSE IF name = Up /\ names # <<>> THEN Front(names) ELSE Append(names, name)

\* A name between separators is dropped, takes back the name before it, or is
\* kept.  Any name can be taken back, a ".." that had to be kept included.
Resolve(absolute, names, name) ==
  CASE name = Here -> names
    [] name = Up /\ names # <<>> -> Front(names)
    [] name = Up /\ names = <<>> /\ absolute -> names
    [] OTHER -> Append(names, name)

Concatenated(absolute, names) ==
  LET AddName(text, name) ==
        IF text = <<>> \/ Last(text) = Backslash
        THEN text \o name
        ELSE text \o <<Backslash>> \o name
  IN FoldLeft(AddName, IF absolute THEN <<Backslash>> ELSE <<>>, names)

\* Deliberate error: slashes are not separators.
NormalizedBySplitting(t) ==
  LET AddName(names, name) == Resolve(IsAbsolute(t), names, name)
  IN Concatenated(IsAbsolute(t), FoldLeft(AddName, <<>>, Components(t)))

Normalized(t) ==
  LET AddName(names, name) == Resolve(IsAbsolute(t), names, name)
  IN Concatenated(IsAbsolute(t), FoldLeft(AddName, <<>>, Split(t, Separators)))

Join(left, right) ==
  IF left = <<>> \/ right = <<>>
  THEN left \o right
  ELSE LET between == IF Last(left) = Backslash THEN <<>> ELSE <<Backslash>>
       IN Normalized(left \o between \o right)

\* All that Join may return: the copy of left can be missing without a word,
\* and what is appended to it then makes an absolute path of its own.
Joins(left, right) ==
  {Join(left, right), <<>>}
    \cup (IF left = <<>> \/ right = <<>> THEN {} ELSE {Join(<<Backslash>>, right)})

\* The position of the last c in t, 0 where there is none.
LastPosition(t, c) == SelectLastInSeq(t, LAMBDA x : x = c)

\* Deliberate error: forgets that the root is its own name in "\name".
ParentAtFirst(t) ==
  LET normal == Normalized(t)
  IN SubSeq(normal, 1, LastPosition(normal, Backslash) - 1)

Parent(t) ==
  LET normal == Normalized(t)
      last   == LastPosition(normal, Backslash)
  IN CASE normal = <<>> \/ IsRoot(normal) -> normal
       [] last = 1 /\ ~IsRoot(normal) -> <<Backslash>>
       [] OTHER -> SubSeq(normal, 1, last - 1)

FileName(t) ==
  IF IsRoot(t) THEN <<>> ELSE SubSeq(t, LastPosition(t, Backslash) + 1, Len(t))

\* The position in a name of the dot before its extension, 0 without one.
ExtensionDot(name) == LastPosition(name, Dot)

Extension(t) ==
  LET name == FileName(t)
  IN IF ExtensionDot(name) = 0 THEN <<>>
     ELSE SubSeq(name, ExtensionDot(name) + 1, Len(name))

Stem(t) ==
  LET name == FileName(t)
  IN IF ExtensionDot(name) = 0 THEN name ELSE SubSeq(name, 1, ExtensionDot(name) - 1)

NameCount(t) == Len(Split(t, Separators))

\* Deliberate error: looks for the dot in the whole text.
ReplaceExtensionAnywhere(t, extension) ==
  LET dot  == LastPosition(t, Dot)
  IN (IF dot = 0 THEN t ELSE SubSeq(t, 1, dot - 1))
       \o (IF extension = <<>> THEN <<>> ELSE <<Dot>> \o extension)

ReplaceExtension(t, extension) ==
  LET dot  == ExtensionDot(FileName(t))
      kept == IF dot = 0 THEN t
              ELSE SubSeq(t, 1, Len(t) - Len(FileName(t)) + dot - 1)
  IN kept \o (IF extension = <<>> THEN <<>> ELSE <<Dot>> \o extension)

RemoveExtension(t) == ReplaceExtension(t, <<>>)

\* What one reading of a component finds whose text was freed before: as many
\* characters, and any of them may have been overwritten since.
Stale(name) ==
  {read \in [DOMAIN name -> Range(name) \cup Leftovers] :
     \A k \in DOMAIN name : read[k] \in {name[k]} \cup Leftovers}

\* How many components in front the loop may find equal.
Commons(target, base) ==
  {common \in 0 .. Len(target) :
     /\ common <= Len(base)
     /\ \A i \in 1 .. common : Stale(target[i]) \cap Stale(base[i]) # {}
     /\ common < Len(target) /\ common < Len(base) =>
          \E x \in Stale(target[common + 1]), y \in Stale(base[common + 1]) : x # y}

\* The names of the way from one component vector to another, each as the set
\* of what may be read for it: up out of what only the base has, down into what
\* only the target has.
Way(target, base, common) ==
  [i \in 1 .. Len(base) - common |-> {Up}]
    \o [i \in 1 .. Len(target) - common |-> Stale(target[common + i])]

\* Result.Join with what is read for one name, or with nothing, when that
\* cannot be copied.
JoinOne(texts, names) ==
  UNION {Joins(text, name) : text \in texts, name \in names \cup {<<>>}}

\* All that RelativeTo may return.  Its components are views of the normalized
\* texts, which are freed before the first component is looked at.  A component
\* vector without memory is empty.
RelativeTo(t, base) ==
  UNION {UNION {FoldLeft(JoinOne, {<<>>}, Way(target, from, common)) :
                  common \in Commons(target, from)} :
           target \in {Components(Normalized(t)), <<>>},
           from \in {Components(Normalized(base)), <<>>}}

\* What a text names, walked from the root or from some directory: how many
\* directories above the start, and the names that lead down from there.
Meaning(t) ==
  LET Walk(place, name) ==
        CASE name = Here -> place
          [] name = Up /\ place.names # <<>> ->
               [place EXCEPT !.names = Front(@)]
          [] name = Up /\ place.names = <<>> ->
               IF IsAbsolute(t) THEN place ELSE [place EXCEPT !.above = @ + 1]
          [] OTHER -> [place EXCEPT !.names = Append(@, name)]
  IN FoldLeft(Walk, [above |-> 0, names |-> <<>>], Split(t, Separators))
=============================================================================
