--------------------------- MODULE PathOperations ---------------------------
(* A path and what its owner makes of it: every operation of Path on a text *)
(* that may hold anything.                                                  *)
EXTENDS Path

CONSTANTS
  MaxLength,  \* bound on the length of the texts that are explored
  Operands    \* the texts that are joined, and related to

VARIABLES
  path        \* Path::Path_

ASSUME PathAssumption ==
  /\ MaxLength \in Nat
  /\ Operands \subseteq Seq(Characters)

ShortTexts == UNION {[1 .. n -> Characters] : n \in 0 .. MaxLength}

PathInit == path = <<>>

\* operator=(StringView)
Assign == \E t \in ShortTexts : path' = t

\* Normalize, Join, Parent, RelativeTo and the extension of the owner's path.
Normalize  == path' \in {Normalized(path), <<>>}
\* A copy of the path that cannot be had is empty, and still gets the extension.
JoinWith   == \E t \in Operands : path' \in Joins(path, t)
GoToParent == path' \in {Parent(path), <<>>}
Relate     == \E t \in Operands : path' \in RelativeTo(path, t)
Rename     == \E t \in Operands :
                path' \in {ReplaceExtension(path, t), ReplaceExtension(<<>>, t), <<>>}

PathNext ==
  /\ \/ Assign
     \/ Normalize
     \/ JoinWith
     \/ GoToParent
     \/ Relate
     \/ Rename
  /\ Len(path') <= MaxLength

PathSpec == PathInit /\ [][PathNext]_path

-----------------------------------------------------------------------------
\* A normalized text is canonical: normalizing changes nothing any more, and
\* its parts are exactly its components, with no "." and no ".." but in front
\* of a relative text.
CanonicalForm ==
  LET normal == Normalized(path)
      names  == Components(normal)
  IN /\ Normalized(normal) = normal
     /\ Concatenated(IsAbsolute(path), names) = normal
     /\ \A i \in 1 .. Len(names) :
          /\ names[i] # Here
          /\ names[i] = Up => i = 1 /\ ~IsAbsolute(path)

\* Normalizing keeps what a text names, unless it names something more than
\* one directory above its start: ".." then takes back the ".." before it.
NormalizedNamesTheSame ==
  Meaning(path).above <= 1 =>
    /\ Meaning(Normalized(path)) = Meaning(path)
    /\ IsAbsolute(Normalized(path)) = IsAbsolute(path)

\* Normalizing gives one text for what a path names, and keeps what it names.
NormalFormHolds == CanonicalForm /\ NormalizedNamesTheSame

\* The parent of a path has one name less, and joined with the file name it is
\* the path again, for every path that names something but the root.
ParentAndNameJoin ==
  LET normal == Normalized(path)
  IN normal # <<>> /\ ~IsRoot(normal) =>
       /\ Join(Parent(path), FileName(normal)) = normal
       /\ NameCount(Parent(path)) = NameCount(normal) - 1

\* Taking the extension off and putting it back, or another on, changes no
\* other part of the text.
ExtensionIsTheRest ==
  /\ ExtensionDot(FileName(path)) # 0 =>
       /\ RemoveExtension(path) \o <<Dot>> \o Extension(path) = path
       /\ Stem(path) \o <<Dot>> \o Extension(path) = FileName(path)
  /\ \A e \in Seq(Letters) \cap Operands : e # <<>> =>
       /\ Extension(ReplaceExtension(path, e)) = e
       /\ Stem(ReplaceExtension(path, e)) = Stem(path)

\* What a path is taken apart into makes the path again.
PartsRejoin == ParentAndNameJoin /\ ExtensionIsTheRest
=============================================================================
