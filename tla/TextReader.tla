----------------------------- MODULE TextReader -----------------------------
(***************************************************************************)
(* IO::TextReader over a BufferedSource, and the requests of Scan and of   *)
(* operator>> that go back where they began when they fail.  A byte is     *)
(* known by its number in the source and has a kind; a "Lead" begins a     *)
(* code point of two bytes, a "Cont" ends one.  A character of the text is *)
(* the number of its first byte, negative when it is the replacement       *)
(* character.  KeepTerminator is left out, except that it may fail.        *)
(***************************************************************************)
EXTENDS BufferedSource

CONSTANTS
  Files,       \* what the source may hold: the kinds of its bytes
  Limits,      \* MaximumSize of the callers
  DefaultLimit \* MaximumSize of a request

Kinds == {"Letter", "Space", "CR", "LF", "Lead", "Cont"}

ASSUME TextReaderAssumption ==
  /\ Files \subseteq [1..Size -> Kinds]
  /\ Limits \subseteq Nat
  /\ DefaultLimit \in Nat

VARIABLES
  file,       \* the source's bytes
  task,       \* the loop the running call is in
  policy,     \* InvalidEncodingPolicy
  lead,       \* the Utf8Decoder's pending byte, or 0
  text,       \* Line, Token or the code point
  room,       \* MaximumSize less the size of the text
  fields,     \* how many values a request has still to read
  checkpoint, \* its Checkpoint
  result,     \* how the last call ended
  start,      \* for the properties: the first byte of the text
  origin      \* for the properties: the byte before which a request began

text_vars == <<file, task, policy, lead, text, room, fields, checkpoint,
               result, start, origin>>
vars == <<source_vars, text_vars>>

Init ==
  /\ SourceInit
  /\ file \in Files
  /\ task = "None"
  /\ policy = "Reject"
  /\ lead = 0
  /\ text = <<>>
  /\ room = 0
  /\ fields = 0
  /\ checkpoint = 0
  /\ result = "None"
  /\ start = 0
  /\ origin = 0

White == {"Space", "CR", "LF"}
NextByte == IF Available(0) THEN Ahead(0) ELSE sourcePosition + 1
Stay == UNCHANGED <<sourcePosition, buffer, position, logicalPosition, end, base>>
-----------------------------------------------------------------------------
\* The three ways on: a call that fails, one that has its text, and one more
\* character of the text.
Fails ==
  /\ IF fields > 0 THEN task' = "Restore" /\ result' = result
     ELSE task' = "None" /\ result' = "Failed"
  /\ lead' = 0
  /\ text' = <<>>
  /\ room' = 0
  /\ start' = 0
  /\ UNCHANGED <<fields, checkpoint>>

\* A request parses the token, which may fail, and reads the next.
Gives(t) ==
  /\ lead' = 0
  /\ \/ /\ fields <= 1
        /\ task' = "None"
        /\ result' = IF task = "AfterCR" THEN "Line" ELSE task
        /\ text' = t
        /\ room' = 0
        /\ fields' = 0
        /\ UNCHANGED <<start, checkpoint>>
     \/ /\ fields > 1
        /\ task' = "Skip"
        /\ text' = <<>>
        /\ room' = DefaultLimit
        /\ start' = 0
        /\ fields' = fields - 1
        /\ UNCHANGED <<checkpoint, result>>
     \/ fields > 0 /\ Fails

Width(c) == IF c < 0 THEN 3 ELSE IF file[c] = "Lead" THEN 2 ELSE 1

\* A character that is read may be too wide, or the text fails to grow.
Adds(c) ==
  IF task = "CodePoint" THEN Gives(<<c>>)
  ELSE \/ Fails
       \/ /\ Width(c) <= room
          /\ lead' = 0
          /\ text' = Append(text, c)
          /\ room' = room - Width(c)
          /\ UNCHANGED <<task, fields, checkpoint, result, start>>
-----------------------------------------------------------------------------
\* Deliberate error: the byte is taken.
InterruptedSwallows(b) ==
  lead # 0 /\ file[b] # "Cont" /\ policy = "Replace" /\ Take /\ Adds(-lead)

\* A byte that cannot go on with the code point is left for the next.
Interrupted(b) ==
  lead # 0 /\ file[b] # "Cont" /\ policy = "Replace" /\ Stay /\ Adds(-lead)

\* Feed, and Consume when it says so.
Decode(b) ==
  \/ /\ lead = 0
     /\ file[b] \notin {"Lead", "Cont"}
     /\ Take
     /\ Adds(b)
  \/ /\ lead = 0
     /\ file[b] = "Lead"
     /\ Take
     /\ lead' = b
     /\ UNCHANGED <<task, text, room, fields, checkpoint, result, start>>
  \/ lead = 0 /\ file[b] = "Cont" /\ policy = "Replace" /\ Take /\ Adds(-b)
  \/ lead # 0 /\ file[b] = "Cont" /\ Take /\ Adds(lead)
  \/ Interrupted(b)
  \/ /\ (file[b] = "Cont") = (lead = 0)
     /\ policy = "Reject"
     /\ Stay
     /\ Fails

\* Deliberate error: white space is not consumed.
SkipSpaceStays(b) ==
  /\ task = "Skip"
  /\ Stay
  /\ IF file[b] \in White THEN UNCHANGED <<task, start>>
     ELSE task' = "Token" /\ start' = b
  /\ UNCHANGED <<lead, text, room, fields, checkpoint, result>>

\* The loops of ReadToken and ReadLine.
SkipSpace(b) ==
  /\ task = "Skip"
  /\ IF file[b] \in White THEN Take /\ UNCHANGED <<task, start>>
     ELSE Stay /\ task' = "Token" /\ start' = b
  /\ UNCHANGED <<lead, text, room, fields, checkpoint, result>>

EndToken(b) ==
  /\ task = "Token"
  /\ lead = 0
  /\ file[b] \in White
  /\ Stay
  /\ Gives(text)

EndLine(b) ==
  /\ task = "Line"
  /\ lead = 0
  /\ file[b] \in {"CR", "LF"}
  /\ Take
  /\ \/ Fails
     \/ file[b] = "LF" /\ Gives(text)
     \/ /\ file[b] = "CR"
        /\ task' = "AfterCR"
        /\ UNCHANGED <<lead, text, room, fields, checkpoint, result, start>>

AfterCR(b) ==
  /\ task = "AfterCR"
  /\ IF file[b] = "LF" THEN Take /\ (Gives(text) \/ Fails)
     ELSE Stay /\ Gives(text)

ReadCharacter(b) ==
  /\ \/ task = "CodePoint"
     \/ lead # 0
     \/ (task = "Token" /\ file[b] \notin White)
     \/ (task = "Line" /\ file[b] \notin {"CR", "LF"})
  /\ IF task # "CodePoint" /\ lead = 0 /\ room = 0 THEN Stay /\ Fails
     ELSE Decode(b)

\* Deliberate error: the decoder is not asked for what it holds back.
AtEndForgets ==
  IF task = "AfterCR" \/ (task \in {"Token", "Line"} /\ text # <<>>)
  THEN Gives(text)
  ELSE Fails

\* The end of the source.
AtEnd ==
  IF lead # 0 THEN IF policy = "Replace" THEN Adds(-lead) ELSE Fails
  ELSE IF task = "AfterCR" \/ (task \in {"Token", "Line"} /\ text # <<>>)
  THEN Gives(text)
  ELSE Fails

\* A step of the running call.
Step ==
  /\ task \notin {"None", "Restore"}
  /\ \/ /\ Available(0)
        /\ got' = got
        /\ \E b \in {Ahead(0)} :
             \/ SkipSpace(b)
             \/ EndToken(b)
             \/ EndLine(b)
             \/ AfterCR(b)
             \/ ReadCharacter(b)
     \/ /\ Fetch(0)
        /\ UNCHANGED <<got, task, lead, text, room, fields, checkpoint, result, start>>
     \/ FindsEnd(0) /\ AtEnd
     \/ PeekFails(0) /\ IF task = "AfterCR" THEN Gives(text) ELSE Fails
  /\ UNCHANGED <<file, policy, origin, call, ahead, left, closed>>

\* Restore, which may fail.
Restore ==
  /\ task = "Restore"
  /\ task' = "None"
  /\ fields' = 0
  /\ \/ SeekTo(checkpoint) /\ result' = "Restored"
     \/ Stay /\ result' = "Failed" /\ UNCHANGED <<got, closed>>
  /\ UNCHANGED <<file, policy, lead, text, room, checkpoint, start, origin,
                 call, ahead, left>>
-----------------------------------------------------------------------------
Idle == task = "None" /\ call = "None"

Begin(t, p, n) ==
  /\ Idle
  /\ task' = t
  /\ policy' = p
  /\ room' = n
  /\ text' = <<>>
  /\ result' = "None"
  /\ start' = IF t = "Line" THEN NextByte ELSE 0
  /\ UNCHANGED <<source_vars, file, lead>>

ReadCodePoint ==
  /\ \E p \in {"Reject", "Replace"} : Begin("CodePoint", p, 0)
  /\ UNCHANGED <<fields, checkpoint, origin>>

ReadLine ==
  /\ \E p \in {"Reject", "Replace"}, n \in Limits : Begin("Line", p, n)
  /\ UNCHANGED <<fields, checkpoint, origin>>

ReadToken ==
  /\ \E p \in {"Reject", "Replace"}, n \in Limits : Begin("Skip", p, n)
  /\ UNCHANGED <<fields, checkpoint, origin>>

\* reader >> Read<T>, reader >> Read<T, U> and Scan<T, U>.
Request ==
  /\ Begin("Skip", "Reject", DefaultLimit)
  /\ fields' \in {1, 2}
  /\ checkpoint' = logicalPosition
  /\ origin' = NextByte

\* Calls of the BufferedSource itself, which Source hands out.
Direct ==
  /\ task = "None"
  /\ SourceNext
  /\ text' = <<>>
  /\ result' = "None"
  /\ start' = 0
  /\ UNCHANGED <<file, task, policy, lead, room, fields, checkpoint, origin>>

Next ==
  \/ Step
  \/ Restore
  \/ ReadCodePoint
  \/ ReadLine
  \/ ReadToken
  \/ Request
  \/ Direct

\* A call runs until it returns.
Spec ==
  /\ Init /\ [][Next]_vars
  /\ WF_vars(Step)
  /\ WF_vars(Restore)
  /\ WF_vars(Direct /\ Round)
-----------------------------------------------------------------------------
TypeOK ==
  /\ SourceTypeOK
  /\ file \in Files
  /\ task \in {"None", "CodePoint", "Skip", "Token", "Line", "AfterCR", "Restore"}
  /\ policy \in {"Reject", "Replace"}
  /\ lead \in 0..Size
  /\ text \in Seq(Int)
  /\ room \in Nat
  /\ fields \in 0..2
  /\ checkpoint \in 0..Size
  /\ result \in {"None", "CodePoint", "Token", "Line", "Restored", "Failed"}
  /\ start \in 0..(Size + 1)
  /\ origin \in 0..(Size + 1)

\* Reference: the characters of the bytes a to b, decoded as a whole, and the
\* first byte from a on that is of a kind.
CharacterAt(p, a, b) ==
  CASE file[p] = "Cont" -> IF p > a /\ file[p - 1] = "Lead" THEN 0 ELSE -p
    [] file[p] = "Lead" -> IF p < b /\ file[p + 1] = "Cont" THEN p ELSE -p
    [] OTHER -> p

Characters(a, b) ==
  LET among[n \in 0..(b + 1 - a)] ==  \* those of the first n bytes
        IF n = 0 THEN <<>>
        ELSE IF CharacterAt(a + n - 1, a, b) = 0 THEN among[n - 1]
        ELSE Append(among[n - 1], CharacterAt(a + n - 1, a, b))
  IN among[b + 1 - a]

FirstOf(a, kinds) ==
  CHOOSE e \in a..(Size + 1) :
    /\ e <= Size => file[e] \in kinds
    /\ \A p \in a..(e - 1) : file[p] \notin kinds

(***************************************************************************)
(* A line that ReadLine returns holds every character from where the       *)
(* reader stood up to the first terminator or the end, however the bytes   *)
(* arrived; and the reader stands behind the terminator, the LF of a CR LF *)
(* included unless it could not be read.                                   *)
(***************************************************************************)
LineIsWhole ==
  result = "Line" =>
    LET e == FirstOf(start, {"CR", "LF"})
    IN /\ text = Characters(start, e - 1)
       /\ \/ NextByte = IF e <= Size THEN e + 1 ELSE e
          \/ /\ e < Size
             /\ file[e] = "CR"
             /\ file[e + 1] = "LF"
             /\ NextByte = e + 2

(***************************************************************************)
(* A token that ReadToken returns is a whole run of characters that are    *)
(* not white space, and what ends it is left to be read.                   *)
(***************************************************************************)
TokenIsWhole ==
  result = "Token" =>
    /\ text = Characters(start, FirstOf(start, White) - 1)
    /\ text # <<>>
    /\ NextByte = FirstOf(start, White)

\* What a request for text returns is whole, a line as well as a token.
RequestsReturnWhole == LineIsWhole /\ TokenIsWhole

(***************************************************************************)
(* A request that failed and went back leaves the reader where it was,     *)
(* also when it had read some of its values, if the reader counted its     *)
(* position from the beginning of the source when the request began.       *)
(***************************************************************************)
RestoresUnlessOffset ==
  result = "Restored" /\ origin = checkpoint + 1 => NextByte = origin

(***************************************************************************)
(* A call returns, however little the source hands out at a time.          *)
(***************************************************************************)
CallsReturn == task # "None" ~> task = "None"
=============================================================================
