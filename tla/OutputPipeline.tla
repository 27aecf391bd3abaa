--------------------------- MODULE OutputPipeline ---------------------------
(***************************************************************************)
(* The two output pipelines of IO::IoContext, a BufferedSink over a        *)
(* NewlineSink with the CRLF policy over the console or the serial port.   *)
(* The sink of the module BufferedSink is here the code of NewlineSink,    *)
(* which passes on one byte at a time.  The data are characters of one     *)
(* byte and one UTF-16 unit; decoding them is not modelled here.           *)
(***************************************************************************)
EXTENDS BufferedSink, Integers

CONSTANTS
  WideCapacity, \* WideBufferCapacity of ConsoleSink (128 in the code)
  MaxFailures   \* bound on the failures of the device

ASSUME PipelineAssumption ==
  /\ WideCapacity \in Nat \ {0}
  /\ MaxFailures \in Nat

Kinds == {"LF", "CR", "Other"}

VARIABLES
  device,      \* which of the two pipelines this is
  attached,    \* ConsoleSink has an Output_ to write to
  text,        \* the characters that will be written
  taken,       \* Accepted of NewlineSink's running WriteSome
  crWritten,   \* it has inserted the CR of the character it is at
  previousCR,  \* PreviousWasCarriageReturn_
  wide,        \* WideBuffer_[0 .. WideLength_) of ConsoleSink
  screen,      \* what the device has put out: n for character n, -n for the
               \* carriage return inserted before it
  failures     \* how many calls of the device have failed

device_vars == <<wide, screen, failures>>
newline_vars == <<taken, crWritten, previousCR>>
buffered_vars == <<buffer, written, op, phase, size, accepted, result,
                   sinkOpen, acknowledged, delivered, drainFailed, lost>>
pipeline_vars ==
  <<buffered_vars, newline_vars, device_vars, device, attached, text>>

PipelineInit ==
  /\ Init
  /\ device \in {"Console", "Serial"}
  /\ attached = FALSE
  /\ text \in [1..MaxBytes -> Kinds]
  /\ taken = 0
  /\ crWritten = FALSE
  /\ previousCR = FALSE
  /\ wide = <<>>
  /\ screen = <<>>
  /\ failures = 0
-----------------------------------------------------------------------------
FailOnce == failures < MaxFailures /\ failures' = failures + 1

\* Deliberate error: a flush forgets to clear the wide buffer's length.
ConsoleAcceptsTwice(c) ==
  /\ screen' = screen \o Append(wide, c)
  /\ wide' = Append(wide, c)
  /\ UNCHANGED failures

(***************************************************************************)
(* ConsoleSink::WriteSome of one character: Append makes room in the wide  *)
(* buffer if there is none, then FlushWide.  OutputString may fail in      *)
(* either place; in the second the character stays in the wide buffer.     *)
(***************************************************************************)
ConsoleAccepts(c) ==
  /\ screen' = screen \o Append(wide, c)
  /\ wide' = <<>>
  /\ UNCHANGED failures

ConsoleFailsAfter(c) ==
  /\ \/ Len(wide) < WideCapacity /\ wide' = Append(wide, c) /\ screen' = screen
     \/ Len(wide) = WideCapacity /\ wide' = <<c>> /\ screen' = screen \o wide
  /\ FailOnce

ConsoleFailsBefore(c) ==
  /\ Len(wide) = WideCapacity
  /\ FailOnce
  /\ UNCHANGED <<wide, screen>>

\* SerialSink::WriteSome of one byte: it goes out, or the polls run out.
SerialAccepts(c) ==
  /\ screen' = Append(screen, c)
  /\ UNCHANGED <<wide, failures>>

SerialFails(c) ==
  /\ FailOnce
  /\ UNCHANGED <<wide, screen>>

\* Without an Output_, WriteSome of the console fails before it does anything.
ConsoleIsClosed == ~attached /\ UNCHANGED device_vars

DeviceAccepts(c) ==
  \/ device = "Console" /\ attached /\ ConsoleAccepts(c)
  \/ device = "Serial" /\ SerialAccepts(c)

DeviceFails(c) ==
  \/ device = "Console" /\ attached /\ (ConsoleFailsAfter(c) \/ ConsoleFailsBefore(c))
  \/ device = "Console" /\ ConsoleIsClosed
  \/ device = "Serial" /\ SerialFails(c)
-----------------------------------------------------------------------------
\* The character NewlineSink is at.
At == buffer[written + taken + 1]

\* Deliberate error: the state is that of the previous line feed.
NeedsCRInverted == text[At] = "LF" /\ previousCR /\ ~crWritten

NeedsCR == text[At] = "LF" /\ ~previousCR /\ ~crWritten

\* NewlineSink::WriteSome inserts a carriage return before a line feed.
InsertCR ==
  /\ Draining
  /\ NeedsCR
  /\ DeviceAccepts(-At)
  /\ crWritten' = TRUE
  /\ UNCHANGED <<taken, previousCR, buffered_vars>>

\* It passes the character on, and returns when that was the last one.
PassOn ==
  /\ Draining
  /\ ~NeedsCR
  /\ DeviceAccepts(At)
  /\ crWritten' = FALSE
  /\ previousCR' = (text[At] = "CR")
  /\ \/ /\ taken + 1 = Len(Unsent)
        /\ taken' = 0
        /\ SinkTakes(taken + 1)
     \/ /\ taken + 1 < Len(Unsent)
        /\ taken' = taken + 1
        /\ UNCHANGED buffered_vars

\* Deliberate error: the character that failed counts as accepted.
WriteFailsCountsLast ==
  /\ Draining
  /\ DeviceFails(IF NeedsCR THEN -At ELSE At)
  /\ taken' = 0
  /\ crWritten' = FALSE
  /\ previousCR' = previousCR
  /\ SinkTakes(taken + 1)

\* The device fails: NewlineSink returns what it accepted, else the failure.
WriteFails ==
  /\ Draining
  /\ DeviceFails(IF NeedsCR THEN -At ELSE At)
  /\ taken' = 0
  /\ crWritten' = FALSE
  /\ previousCR' = previousCR
  /\ \/ taken > 0 /\ SinkTakes(taken)
     \/ taken = 0 /\ SinkStops

\* Flush of the console shows what is left in the wide buffer.
FlushDevice ==
  /\ SinkFlush
  /\ \/ /\ result' = "Ok"
        /\ screen' = screen \o wide
        /\ wide' = <<>>
        /\ failures' = failures
     \/ /\ result' = "Failure"
        /\ wide # <<>>
        /\ FailOnce
        /\ UNCHANGED <<wide, screen>>
  /\ UNCHANGED newline_vars

\* The context writes and flushes; it never closes or replaces a pipeline.
PipelineNext ==
  /\ \/ /\ WriteSome \/ Flush \/ Copy \/ Drained
        /\ UNCHANGED <<newline_vars, device_vars>>
     \/ InsertCR
     \/ PassOn
     \/ WriteFails
     \/ FlushDevice
  /\ UNCHANGED <<device, attached, text>>
-----------------------------------------------------------------------------
PipelineTypeOK ==
  /\ TypeOK
  /\ device \in {"Console", "Serial"}
  /\ attached \in BOOLEAN
  /\ text \in [1..MaxBytes -> Kinds]
  /\ taken \in 0..Capacity
  /\ crWritten \in BOOLEAN
  /\ previousCR \in BOOLEAN
  /\ wide \in Seq(Int)
  /\ Len(wide) <= WideCapacity
  /\ screen \in Seq(Int)
  /\ failures \in 0..MaxFailures

CharacterOf(c) == IF c < 0 THEN -c ELSE c

\* Everything written to the device or waiting for it.
Output == screen \o wide

\* Characters may be repeated, but none is overtaken or skipped.
NoneSkipped ==
  /\ Output # <<>> => CharacterOf(Output[1]) = 1
  /\ \A i \in 1..(Len(Output) - 1) :
       CharacterOf(Output[i + 1]) - CharacterOf(Output[i]) \in {0, 1}

IsCR(c) == c < 0 \/ text[c] = "CR"

\* On the serial port, and on a console that never failed, every line feed
\* comes right after a carriage return.
LineFeedAfterCR ==
  device = "Serial" \/ failures = 0 =>
    \A i \in 1..Len(Output) :
      Output[i] > 0 /\ text[Output[i]] = "LF"
        => i > 1 /\ IsCR(Output[i - 1])

\* However often the device fails and a write is tried again, its output is
\* the text in order, with the line endings NewlineSink promises.
OutputInOrder == NoneSkipped /\ LineFeedAfterCR

\* Nothing is put out twice by a device that has not failed; on the serial
\* port a retry can only repeat an inserted carriage return.
RepeatsOnlyAfterFailure ==
  \A i, j \in 1..Len(Output) :
    i # j /\ Output[i] = Output[j]
      => failures > 0 /\ (device = "Serial" => Output[i] < 0)
=============================================================================
