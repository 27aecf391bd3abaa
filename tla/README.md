# A verification of UEFIpp

UEFIpp is a freestanding C++ library for x64 UEFI programs. This directory
holds TLA+ modules translated from its source, TLC configurations that check
them on small instances, and proofs checked by TLAPS. `PROJECT.json` ties
everything together: which lines each definition stands for, what each run
checks, which deliberate error breaks each property, and where the code is
exposed to which hazard.

    tlasany M.tla                          parse a module
    tlc -workers 2 -config X.cfg M         model-check a configuration
    tlapm M.tla                            check a module's proofs

The modules with proofs are `EventProofs`, `OutputProofs`, `InputProofs`,
`LoggerProofs`, `TerminalProofs`, `X64Proofs`, `LineEditorProofs` and
`FileProofs`.

## The system

A UEFI program runs one thread of control. What makes the library hard is not
parallelism but what happens in between: callbacks that call back into the
object that called them, coroutines resumed by an event loop, event
notifications that preempt the program at a raised task priority level, writes
that are taken in part, firmware calls of which any may fail, and an exit of
boot services after which half of the system is gone.

### Components

For each component: the state it keeps, its operations, and what makes it
correct. "Modelled in" names the module, or says that there is none.

| Component | State | Operations | What would make it wrong | Modelled in |
|---|---|---|---|---|
| `Library::BasicEvent`, `StopEvent` | vector of handlers, next identifier, depth of emission | Connect, ConnectOnce, Disconnect, DisconnectAll, Enable, Disable, Emit | a callback that changes the vector under a running `Emit`; a handler called after its removal, twice, or skipped | `Event`, `EventProofs` |
| `IO::BufferedSink` | buffer, length, sink | WriteSome, Flush, Close, move assignment | a sink that takes part of a write, nothing, or fails: bytes lost, repeated, reordered; an endless loop | `BufferedSink`, `ByteStream`, `OutputProofs` |
| `IO::BufferedSource` | buffer, position, logical position, end | ReadSome, Peek, Consume, Seek, Close | a buffer, a count and a source that disagree after a failed read, a lookahead or a seek | `BufferedSource`, `ByteReader`, `InputProofs` |
| Output pipelines of `IO::IoContext` | the buffer, the state of the newline policy, the console's wide buffer | WriteSome, Flush | a retry after a failure that repeats or drops output | `OutputPipeline`, `OutputProofs` |
| `IO::EventLoop` | array of registrations | Register, RunOnce | a coroutine forgotten, resumed twice or suspended unregistered; a timer left open; a cancellation never seen | `TimedWait`, `EventLoop`, `TerminalProofs` |
| `IO::Terminal` input | pending high surrogate, one queued event | PollKey, WaitKey, NextEventAsync | a key lost or seen twice by readers that share the terminal | `Terminal`, `TerminalProofs` |
| `IO::LineEditor` | line, cursor, history and its index | ReadLine, ClearHistory, SetCompletion | a cursor inside a character; a line over its limit; an index that outlives the history | `LineEditor`, `LineEditorProofs` |
| `IO::Logger`, `PanicWriter` | sinks, severity, module, lock | Log, LogFields, AddSink, ClearSinks | interleaved records; a sink that fails hides another's failure; a lock that is waited for by who interrupted its holder | `Logger`, `LoggerProofs` |
| `Foundation::SpinLock`, `Atomic` | one word | TryLock, Lock, Unlock | two holders | `SpinLock`, `LoggerProofs` |
| `UEFI::Context`, `IO::IoContext` | system table, boot services, image handle, the attached console | Attach, Normalize, PrepareExitBootServices, ExitBootServicesSucceeded, Flush | two contexts that disagree on whether the console can be used; output that is lost with the boot services | `Context`, `OutputProofs` |
| `FileSystem::File`, `IO::FileSource`, `IO::FileSink` | handle, volume, cached information; open and append flags | Open, OpenAny, Read, Write, Append, Resize, Delete, Flush, Close, moves; ReadSome, WriteSome, WriteAt, Seek, Truncate | a sequence of firmware calls that stops half-way and leaks a handle, or leaves the position or the cached size wrong | `File`, `FileProofs` |
| `FileSystem::Path` | an owned text | Normalize, Join, Parent, RelativeTo, ReplaceExtension, parts | a normal form that names something else; parts that do not make the path again; views of a text that is gone | `Path`, `PathOperations` |
| Adapters (`Tee`, `Prefix`, `Hashing`, `RateLimited`, `FaultInjecting`, `RingBuffer`, `FixedBuffer`, `Memory`) | counters, positions, a window | WriteSome, Flush, Close, Clear, Replay | a partial write or a retry that skips bytes, loses a prefix, hashes what was not written or exceeds a budget; wrap-around | `Adapters`, `OutputProofs` |
| `IO::TextReader`, `Scan`, `operator>>` | the decoder's pending byte, the text so far, a checkpoint | ReadCodePoint, ReadLine, ReadToken, Save, Restore, requests | a decoder that takes a byte of the next character; a text cut where the buffer ended; a request that goes back to the wrong place | `TextReader`, `InputProofs` |
| UTF codecs apart, `Format` | none between calls | encode, decode, format | pure functions of their input | the decoder of two bytes inside `TextReader` |
| Containers, strings, functions, ownership | heap buffers | value semantics | aliasing of an argument with the container | `Vector`'s growth and erase inside `Event` |
| x64 `Assembler`, `Program` | sections, labels, nodes; the layout of a pass | Append*, Bind, Align, Assemble | branch sizes that never settle; a layout that is not the one that was measured | `Assembler`, `X64Proofs` |
| x64 `Unwinder` | the table of functions | Lookup, VirtualUnwind | a caller's register, stack pointer or address recovered wrongly from an instruction in a prologue, a segment or a leaf | `Unwinder`, `X64Proofs` |
| x64 disassembly, PE, `Reverse` | caches | decoding of data | tables | not modelled |
| Memory, CRT heap | block headers | allocate, reallocate, free | a block that does not fit what the pool gave for it | not modelled |
| Protocols, UEFI tables, Zydis | none | declarations | none | not modelled: the firmware is the environment |

`PROJECT.json` lists 28 components, finer than this table, each with its
sources and the reason when it is not modelled.

### Interactions

- An application writes text to `Io.StandardOutput()` or `Io.Serial()`. Each is
  a `BufferedSink` over a `NewlineSink` over a `ConsoleSink` or `SerialSink`,
  nested by template. A call goes down through `WriteSome` of each layer, and a
  partial count or an error comes back up; two of the three layers keep bytes
  of their own, which is why a failure is hard to get right.
- A `TextReader` owns a source and puts a `BufferedSource` over it, which it
  also hands out: reads of text, lookahead, seeks and reads of bytes share one
  buffer. `Scan` and `operator>>` save the adapter's position and seek back to
  it.
- A `Terminal` reads the firmware's key protocol. It is read by `PollKey`, by
  the blocking `WaitKey`, and by coroutines through `EventLoop`, all of which
  share one queued event and one pending surrogate.
- `EventLoop::RunOnce` and `Terminal::WaitKey` wait with the same construction:
  `WaitForEvent` over an array with their own events first, a one-shot deadline
  timer and a periodic tick on which they look at a `CancellationToken`.
- `Terminal::OnKey` and `LineEditor::OnLine` are `Library::Event`s. A handler
  may connect, disconnect or emit on the event it is called from.
- The logger writes every record to every sink while it holds a spin lock; the
  context creates the process-wide IO context under another.
- `UEFI::Context` tells `IO::IoContext` when the image attaches to a system
  table and when the boot services are gone, and flushes the pipelines before.
- A `FileSource` or `FileSink` owns a `File` and calls the firmware's handle
  beside it; whoever uses the inner `File` shares the handle's position.
- `Assemble` lays a `Program` out and asks Zydis' encoder for each length; the
  unwinder runs on the tables of a mapped image.

### Hard behaviours

- *Reentrancy*: callbacks of an event, coroutines that register again while
  `RunOnce` compacts its array, completion functions of the line editor.
- *Partial failure*: every firmware call can fail, and a sink may take any part
  of a write. What was done before the failure has to be accounted for.
- *Timing*: a signal, a deadline, a tick and a cancellation may come together;
  events of UEFI are consumed by the wait that returns them.
- *Limits*: 32 registrations, 128 wide characters, buffers of fixed capacity.
- *Progress*: waits must end on cancellation, loops on sinks that take nothing.

## The modules

### Event

`Event.tla` models both event classes, told apart by `class`. `handlers` is
`Handlers_`, an entry carrying the fields of the code; `capacity` is the
vector's, because growth frees the buffer over which a running range-for
iterates. A running `Emit` is a *frame*: the index of the entry being called
and the captured end. Control is with the client at the top level and inside
each callback, where it may do any operation, `Emit` included; `Emit` and
`Return` run the code's loop up to the next callback. `Connect` may fail in
its allocation after it took an identifier. A callback that returns into a
freed buffer ends the modelled behaviour (`undefined`).

The run `event` has three connections, emissions nested two deep and a first
allocation of two, so that the third connection outgrows it. With three
handlers one may run, one lie before and one behind it; nested two deep, the
inner emission already removes what the outer one iterates over. It checks
that the loop's place stays valid whatever is removed, and that the vector
holds just the connections that were not removed, a mark being gone once the
outermost emission ends (`StableIteration`); that nobody is called after
removal (`NoCallAfterRemoval`), that every handler that stays callable is
reached (`EveryHandlerReached`), and that a one-shot is called again only by
itself (`OnceUnlessReentered`). `UseAfterFreeNeedsRegrowth` marks the border of
all that: an event that never grows beyond its first allocation while it emits
cannot iterate over a freed buffer.

### ByteStream, BufferedSink

`ByteStream.tla` is the promise of a buffering adapter: bytes 1, 2, 3, ...
that are handed over come out once each, in order, at most `Lag` of them late.
`BufferedSink.tla` is the code: `WriteSome`'s loop (`Copy`), `FlushBuffer`'s
loop (`SinkTakes`, `SinkStops`, `Drained`), `Flush`, `Close` and the move
assignment, which replaces the sink. One step is one round of a loop or one
call of the sink, which may take any number of bytes, none, or fail. Bytes are
numbered in the order of writing, so that loss, repetition and reordering all
show; a failed `WriteSome` is followed by whatever the caller does next, and
the caller resumes behind the bytes reported as accepted.

Its run is that of the adapters below, with a buffer of two bytes and writes
of up to five, which fill it twice in one call: enough for a failure in the
first and in a later drain, with and without earlier bytes in the buffer. It
checks exact delivery (`ExactlyOnceInOrder`), that the adapter refines the byte
stream (`ImplementsByteStream`), and that every call returns (`CallsReturn`).
That a loss follows a failed drain (only the move assignment can lose), and
that a successful flush leaves nothing behind, are proved.

### Adapters

`Adapters.tla` puts each of eight adapters below a `BufferedSink`: the sink of
that module is here the `WriteSome` of `kind`, and below it are sinks that take
any part, nothing, or fail. `adapter` holds the members of all kinds, and what
the sinks below have taken. `TeeSink` and `PrefixSink` run `WriteAll` below
them, one call of the sink at a time: `pos` is what the running `WriteSome` has
passed on, and is forgotten where it returns. The clock of `RateLimitedSink`
goes on at any time.

The run `adapters` writes five bytes. A prefix of two can be written in part, a
window of two ticks and a clock that reaches three can end once and be looked
at late, a ring of three bytes is overwritten by the fourth, a budget of two
ends in the middle of a drain. One failure that leaves something
behind (`MaxHalfway`) makes the retry that repeats it; two would repeat it
again. `AdaptersPassOn` says that whatever was reported as written is in every
sink below, none overtaken; that bytes are there twice only after `TeeSink` or
`PrefixSink` failed behind them; that every line has its whole prefix; that the
hash is that of the bytes taken; and that the ring has the latest bytes since
it was cleared. `BudgetIsKept` bounds what gets through in a window, in any
time as long as one, and in all.

### OutputPipeline

`OutputPipeline.tla` extends `BufferedSink`: its sink becomes `NewlineSink`
with the CRLF policy over a device, the console with its wide buffer or the
serial port. The sink's steps are the code of `NewlineSink::WriteSome`, one
character at a time (`InsertCR`, `PassOn`, `WriteFails`), the device either
takes a character or fails before or after it entered the wide buffer.
Characters are numbered as before; -n is the carriage return inserted before
character n.

### Context

`Context.tla` extends `OutputPipeline` by `UEFI::Context` and the part of
`IO::IoContext` that attaches and resets the console. Its calls come between
the calls of the pipeline; `PrepareExitBootServices` is a flush of the pipeline
whose end becomes the answer. `attached` is the console's, and what is written
while it is false fails.

The run `context` lets a device fail four times, once more than fills the wide
buffer of three, on any text of three characters through a buffer of two. Of
three system tables one is unusable, one has no console and one has all; two
handles are a first and a second image. It checks that the output is the text
in order, with a carriage return before every line feed as far as the newline
policy can promise it (`OutputInOrder`), when a repetition is possible at all
(`RepeatsOnlyAfterFailure`), that the contexts agree on the console and that
nothing is kept for one that is gone (`ContextsAgree`), and that an image that
leaves after a successful `PrepareExitBootServices` has shown everything
(`PreparedExitShowsAll`).

The context flushes two pipelines; a behaviour of the model has one of them,
the console's or the serial port's. What `Attach` does to the terminal, the
event loop and the logger is not modelled here, nor is the memory type of the
CRT.

### ByteReader, BufferedSource, TextReader

`ByteReader.tla` is the promise of the input side: a reader stands at a place
of a source whose bytes are 1, 2, ..., `Size`, hands out what follows, and
reports the end only there or when it was closed. `BufferedSource.tla` is the
code: `buffer` is `Buffer_[0 .. Length_)`, `position`, `logicalPosition` and
`end` are the members. `ReadSome`, `Seek` and `Close` are single steps, for
they ask the source once; `Peek` and `Consume` loop over it, and a step is one
round: `Fetch` compacts and reads, `FindsEnd` and `PeekFails` are the ways out,
`Take` consumes a byte. The source may hand out any number of bytes, report the
end with the last ones or later, or fail before each of these.

`TextReader.tla` composes it with `TextReader`: `task` is the loop that runs,
`Step` a round of it, which peeks at a byte and consumes it (`SkipSpace`,
`EndToken`, `EndLine`, `AfterCR`, `ReadCharacter`), fetches, or meets the end
or a failure. `Decode` is `Utf8Decoder::Push` as the reader uses it, with
its pending byte in `lead`: a byte that cannot go on with a code point is
rejected, or yields a replacement character and is left for the next. `Request`
is `Read<T>`, `Read<T, U>` or `Scan<T, U>`: it saves, reads its tokens, parses
each, which may fail, and goes back when anything did (`Restore`, which may
itself fail). `Direct` lets the owner use the buffered source between reads of
text, as `Source()` allows. Any allocation may fail.

The run `text_reader` puts sources of three bytes behind a buffer of two, so
that a line or a code point may span two fetches and `Peek` may
have to compact. Eight files stand for the texts that differ in what the loops
look at: a line end of two bytes at the start and at the end, a code point of
two bytes, one cut short by a line end, by another and by the end, two tokens,
and letters only. Limits of two and six are one that bounds the text (a
replacement character is three bytes wide) and one that does not. The source
starts at any place. It checks that a line and a token are what a decoder
of the whole text would give, with the reader left behind it
(`RequestsReturnWhole`), that the adapter refines the reader
(`ImplementsByteReader`), that a failed request that went back stands where
it began if positions counted from the beginning of the source
(`RestoresUnlessOffset`), and that every call returns (`CallsReturn`).

`RestoresUnlessOffset` needs its condition: `Save` hands out
`LogicalPosition_`, which starts at 0 wherever the wrapped source stands, and
`Restore` seeks the source to that number from its beginning. A request on a
source that was moved before it was wrapped fails and goes back to another
place than it began at.

Left out: code points of three and four bytes, so that `lead` is one byte;
`KeepTerminator`, which adds to the text what was consumed, and here only fails
as that addition may; `ReadAll`; the parsers, of which only the failure
matters; the move of a whole source, which takes the buffer with it. `Scan<T>`
of one value is `ReadToken` and a parse, without going back.

### TimedWait, EventLoop, Terminal

`TimedWait.tla` is the environment (driver events, keys, timers, cancellation)
and the construction that `EventLoop::RunOnce` and `Terminal::WaitKey` share:
each of the calls `CreateEvent` and `SetTimer` for the deadline and the tick is
an action that may fail and then closes what was opened before. `EventLoop.tla`
adds the registrations and coroutines, `Terminal.tla` the keys and composes
all of it. `pc` is the place in the function that waits; nobody else of the
program runs meanwhile, but the environment acts between any two steps.
`WaitForEvent` takes the first signalled event of the array, as the firmware's
specification says.

The run `terminal` has three coroutines for an array of two places, so that it
is full and a third has to be turned away, one event of a driver beside the
key event, and two keys: a surrogate pair, a broken pair, or a key that is
queued. It checks that the suspended coroutines are those registered and that
what is resumed is a registration (`SuspendedAreRegistered`), that timers are
closed on every path (`NoTimerLeaks`), that readers that share the terminal
return each character once and in order (`KeysExactlyOnce`), and that a wait
whose token is cancelled or that has a deadline ends (`WaitsEnd`).

The run `terminal_wakeup` shows a flaw: `RunOnce` looks at the token once more
after `WaitForEvent` has returned a registered event, and returns `Cancelled`
with the signal consumed, so that no later `RunOnce` resumes the coroutine
unless the driver signals again.

### SpinLock, Logger

`SpinLock.tla` is the word and the two nested loops of `Lock`: the exchange
and the reading of the word between two exchanges are steps of their own.
Threads are the program, another processor, and a notification function of the
firmware: the relation `Interrupts` names who stops whom, and `CanRun` holds a
thread back until what interrupted it has returned. `Logger.tla` is
`WriteRecord` under that lock: the loop over the sinks, `WriteAll`'s loop in
each, `Flush`, and the error that is kept. `WriteAll` is modelled one byte at
a time, which covers every split a sink may choose; a sink may fail, or take
nothing, before any byte and in its flush. A record is numbered when it takes
the lock, so that what a sink received is a sequence of pairs of a record and
a position, and mixing, repetition and reordering all show.

The run `logger` has three threads, of which one is a notification that
interrupts the program and one another processor, two sinks, records of two
bytes, and three records in all. Two bytes are the fewest that can be mixed,
two sinks the fewest of which one can fail before the other. It checks that
no sink sees records mixed, twice, or in another order (`SerializedFanOut`),
that every sink
is attempted and the first failure is what the caller gets
(`EverySinkAttempted`), and that every call returns unless a notification logs
while it interrupts the holder, whereupon both wait for ever (`LogReturns`).
That exception, `Stuck`, is what the lock's construction entails: it does not
raise the task priority level. The number of records is bounded, so the run
does not speak of a thread that loses every exchange to others for ever; the
lock is not a fair one.

`AddSink`, `ClearSinks` and the setters take no lock and are set-up; a sink
that logs through the logger it belongs to would wait for itself and is left
out. Callers may stop logging, so the run does not check for deadlock.

### LineEditor

`LineEditor.tla` models `ReadLine` key by key, with a history that outlives
the call and options chosen anew for each. The line is a sequence of UTF-8
bytes of which the model keeps what `PreviousBoundary` and `NextBoundary` look
at, whether a byte continues a character, and for a leading byte the width.
The cursor is the code's offset, from 0. `Changed` is an edit followed by
`Redraw`, which may fail and end the call; `ReadFails` stands for Escape and
for every error that ends the call without an edit. `ClearHistory` may come
between two calls or from a completion function during one, which is the case
in which the index is left pointing behind the history.

The run `line_editor` has characters of one and three bytes, limits of one and
four bytes, a history of two lines and lines of up to five bytes: a character
that does not fit the smaller limit, one that fits the larger with a byte to
spare, and a recalled line longer than the smaller. It checks that the line
keeps whole characters with the cursor at the border of one and that the
history index stays within a history that is not empty (`PlacesAreValid`), and
that only a recalled line can be over the
limit of its call (`LongOnlyIfRecalled`): `Up` recalls a line that was entered
under a larger limit without measuring it, and `Enter` returns it.

What a completion function returns is assumed to be valid UTF-8. What `Redraw`
puts on the screen, and a callback that calls `ReadLine` of the same editor,
are not modelled.

### Path, PathOperations

`Path.tla` is a library of operators, one for each function of `Path`, over
texts as sequences of characters; the code's copies into a fresh buffer are
`Split`, `Resolve` and `Concatenated`. `Meaning` is the reference: what a text
names, as directories above its start and names below that. `PathOperations.tla`
has the path as its variable and the functions that assign to it as actions,
each of which may run out of memory. Most then give the empty text; `Join` and
`ReplaceExtension` first copy the path, and when that copy fails without a word
but what follows does not, they return what was appended to nothing (`Joins`,
`Rename`). `RelativeTo` compares and joins components of texts that were freed
before: each reading of a component may find any of the `Leftovers` in place of
a character (`Stale`), so that the result is a set of texts, of which only the
type is promised.

The run `path` starts from the empty text and reaches every text of up to five
characters over two letters, the dot and both separators; seven operands are
absolute and relative, up to two deep, one of them "..". Five characters hold
two levels of ".." or a name between two separators. Its properties
hold of every such text: the normal form is one and keeps the meaning unless
the text climbs twice (`NormalFormHolds`), and the parts make the text again (`PartsRejoin`). What
takes the place of freed characters is a separator or a letter; no property is
about the texts that `RelativeTo` returns, but what is done with them later is
checked like any other text.

### File

`File.tla` models `File`, `FileSource` and `FileSink` over the firmware's file
protocol. An operation makes several calls of the firmware and nothing runs
between them, so it is an operator that gives, for the machine it finds, the
set of machines it may leave, one for each call that may fail: what the calls
before the failure did is in it, also what a write delivered in part. An
action is a choice from such a set. `class` says whether an object is a `File`
or the inner `File` of a transport, which can be used beside it. The
firmware is external: volumes of one file and one directory, and handles
with a node and a position.

The run `file` has two `File`s, which can be moved into each other, or one
transport, on two volumes, with paths to the file, to a directory and to
nothing, and files of up to two bytes. It checks that each open handle has one
owner (`HandlesOwned`), that a successful open has what the path means
(`OpensWhatItNames`), that a read is whole unless the size changed behind the
back of the object (`ReadReturnsWhole`), that a resize keeps position and bytes
(`ResizeKeepsPosition`), and that a transport that reports its `File`'s status
reports an error (`ErrorsNameTheirStatus`). Without memory for a path's normal
form, `OpenFile` gets the empty text and opens the root; this and other
missing memory are not modelled.

### Assembler

`Assembler.tla` has a `Program` that is built node by node and `Assemble`: the
first lengths, the passes, the second encoding. A branch goes to a label or,
like `Jmp(Uint64)`, to an address; either way the code hands the encoder an
address and the place of the instruction, and the length depends on both. A
call is as long as a jump of 32 bits. The encoder is external: a branch has
its short or its near form only where the distance `Fits` and its width allows
(`MayBeShort`, `MayBeNear`), the short one first, and none is an
`EncodingFailure`. `Behind` is `ComputeLayout`, with the sections one behind
another.

A length may grow from one pass to the next for two reasons. Padding before a
label or a branch may become more when the code before it becomes less. And a
branch to an address ahead of the code is farther from it the nearer it moves
to the front: it `Stretches` if its address is out of reach from the front of
the code but was in reach, or nearer, from its first place. A program is
`Contracting` if it has neither.

The run `assembler` explores every program of four nodes in two sections with
one label and one address, which is 12 bytes behind the base: out of the short
reach of 5 bytes from the front of the code, within it from behind one
instruction of the first length, 15. So there are branches that shrink, some that
grow again, for either reason, and programs whose branches to the address go
round until the passes are used up; the same with padding takes longer
programs, and the theorems below. Four passes are enough for two branches of
which the second becomes short in the second pass. A near reach of 40 bytes is
exceeded in the first pass by a branch over two instructions and the padding
between them.
`ConvergedIsStable` says that in a layout that is emitted every branch reaches
its target and none could be shorter; `ShrinksIfContracting` that in a program
that contracts no length grows again; and so `ConvergesIfContracting`, that such a
program fails to settle only with nearly as many branches as passes.

Left out: the widths of 16 and 64 bits, operands relative to `rip`, whose
instructions are taken to keep their length, the bytes, fills, and the decoding
that checks the encoder.

### Unwinder

`Unwinder.tla` has two sides. The image and the processor are external:
functions with prologues, a body that uses the registers it saved, allocates
or calls, what undoes the prologue, leaves without an entry, and segments
with a chained entry. `VirtualUnwind` and what it calls are the code. The
processor remembers what each caller shall see when it is returned to, and the
property compares the walk with it at every instruction.

The run `unwinder` has eight images of four parts: four prologues, with pushes,
allocation, a frame pointer and saves by offset, each with one of two called
functions, a leaf and a segment of its own; three calls deep, so that the walk
has a caller of a caller inside the image. `WalkFindsEveryCaller` is exact up to the
points at which the code gives a wrong answer, which it names: an epilogue that
has begun to give back the stack, and a function that saves by offset and has
moved the stack pointer since. `FramePointerKeepsTheWay` says that in the
latter case the caller's address and stack are right all the same.

Malformed data, versions and ranges are refused by the code and left out, as
are the values of XMM registers.

### Fairness

- `BufferedSink`: weak fairness of `Run`, the steps of an operation under way.
  The code runs on, and a sink returns from every call. No caller has to begin
  an operation and the sink may fail for ever.
- `Terminal`: weak fairness of `Waiting`, the steps of a wait under way, and of
  each open timer elapsing, which is what the firmware promises of a timer
  that is set. Drivers, users, cancellations and applications are not fair.
- `Logger`: weak fairness of each thread's `Step`. A step is enabled only while
  nothing that interrupts the thread is in a call, so that fairness asks of
  a processor to go on, and never of an interrupted program. Nobody has to log.
- `TextReader`: weak fairness of `Step`, of `Restore` and of the rounds of a
  direct call. The code runs on; a source returns from every call, with bytes,
  the end or an error. No owner has to call.
- `Adapters`: weak fairness of `AdapterRun`, as for `BufferedSink`. The clock
  need not go on.
- `Event`, `Context`, `LineEditor`, `File`, `Path` and `Unwinder` state no
  liveness: a callback may run for ever, nobody has to press a key, and
  operations are single steps. `Assemble` is bounded by its passes.

## Proofs

`OutputProofs.tla` holds all that is proved of output. Over any sink below,
for every capacity, every number of bytes and every size of write:

| Theorem | Statement |
|---|---|
| `Invariance` | `Spec => []Inv` |
| `TypeCorrectness` | `Spec => []TypeOK` |
| `DeliveryIsExact` | `Spec => []ExactlyOnceInOrder` |
| `LossOnlyAfterFailure` | `Spec => []LossNeedsFailure` |
| `FlushIsComplete` | `Spec => FlushPublishes` |
| `Refinement` | `Spec => ImplementsByteStream` |

The only assumption is `BufferedSinkAssumption`, which types the constants. The
argument is an induction over the steps. `ExactlyOnceInOrder` is
not inductive by itself: that a flush which ends well has emptied the buffer
needs to know that `SinkFlush` is reached only behind a complete drain, that
no bytes are counted as accepted outside of a write and that the sink is open
while an operation runs. `Control` states that, and
`Inv == TypeOK /\ Control /\ ExactlyOnceInOrder /\ LossNeedsFailure`. Each
action has a lemma that it preserves `Inv`. The refinement maps
`sent` to the bytes handed over, the accepted part of a running write included,
and `received` to the bytes the sink took: `Copy` is a `Send`, `SinkTakes` a
`Receive`, `Assign`'s return a `Restart`, and all else stutters.

Over the pipelines of a context, for every capacity, text, set of system tables
and device, however often it fails:

| Theorem | Statement |
|---|---|
| `ContextInvariance` | `ContextSpec => []IInv` |
| `ContextsAgreeCorrect` | `ContextSpec => []ContextsAgree` |
| `PreparedExitCorrect` | `ContextSpec => PreparedExitShowsAll` |
| `OutputOrderInvariance` | `ContextSpec => []OrderInv` |
| `OutputInOrderCorrect` | `ContextSpec => []OutputInOrder` |
| `RepeatsOnlyAfterFailureCorrect` | `ContextSpec => []RepeatsOnlyAfterFailure` |

The assumptions are those of `BufferedSink`, `OutputPipeline` and `Context`,
which type the constants and order the sets of tables. All that the pipeline
does to the adapter are steps of `BufferedSink` (`TakesStep`, `StopsStep`), so
the adapter's invariant is the one above. `NothingDropped` adds
that until the boot services end whatever the device was given is on the screen
or in the wide buffer, and `ContextInv` that an exit is prepared only with both
buffers empty: together they are `PreparedExitShowsAll`.

A step puts at most one character behind the output, and `OutputInOrder` is
kept by it only if that character is the right one. `OrderInv` says so:
as long as anything may still be put out (`Live`), the last character on the
device is the last one the adapter passed on or the one after it (`Reached`),
none is ahead of what was passed on (`NoneAhead`), without a failure every
character is there once (`LastExact`), and a carriage return was inserted
where nothing follows yet (`InsertedIsLast`).

Over the adapters, for every prefix, budget, window, ring and fixed buffer:

| Theorem | Statement |
|---|---|
| `AdapterInvariance` | `AdapterSpec => []AdapterInv` |
| `AdaptersPassOnCorrect` | `AdapterSpec => []AdaptersPassOn` |
| `BudgetIsKeptCorrect` | `AdapterSpec => []BudgetIsKept` |
| `DeliveryAboveAdapters` | `AdapterSpec => []ExactlyOnceInOrder` |
| `RefinementAboveAdapters` | `AdapterSpec => ImplementsByteStream` |

`AdaptersAssumption` types the constants. `AdapterIsSink` shows that each
step of an adapter is a step of `BufferedSink` over some sink, or the close of a
sink that has nothing to close: the last two theorems are that and the
theorems above. `AdapterInv` has a part for each kind of adapter.
`TextInv` says what every sink below has for certain, the bytes which the
running call has passed on included, where `AdaptersPassOn` speaks of the bytes
reported only; `HashInv` that the hash is of the bytes passed on. `RingHolds`
says which cells have the latest bytes; that `WriteSome` of several bytes keeps
it is an induction over the bytes offered, by a least counterexample.
`LinesHold` adds to the prefixes how the lines so far ended, without which the
next byte could not be known to stand behind a whole one. `LimitedHolds` adds
that what was passed on since the window began and what is left of the
budget are at most one budget, and so is what any time that reaches into this
window had got before it began: two windows of the sink are the most that
a time of the same length can meet.

`InputProofs.tla` holds all that is proved of input. Of the adapter, for every
capacity and every size of the source:

| Theorem | Statement |
|---|---|
| `SourceTypeCorrect` | `SourceSpec => []SourceTypeOK` |
| `AlignedCorrect` | `SourceSpec => []Aligned` |
| `SourceRefinement` | `SourceSpec => ImplementsByteReader` |

The assumption is `BufferedSourceAssumption`, which types the constants.
`Aligned` says nothing of an adapter that was closed, and a step of a closed
one could do anything; `Emptied` states that it has no bytes and finds the end.
`SourceInv` is both, the types, and that a running `Consume` has bytes left.
What every step leaves of the buffer is `Buffered`: bytes that end where the
source stands. Lemmas derive it for a fetch, for compaction and for a read, and
`Assembled` puts the invariant together from it. The refinement maps `place` to
`base + logicalPosition`, and `open` to not having been closed; a fetch
stutters, a `Take` is a `Skip`, the others map by name.

Of the adapter under a text reader, for every set of files and of limits:

| Theorem | Statement |
|---|---|
| `AlignedUnderReader` | `Spec => []Aligned` |
| `RefinementUnderReader` | `Spec => ImplementsByteReader` |
| `FailedRequestsGoBack` | `Spec => []RestoresUnlessOffset` |
| `RequestsCorrect` | `Spec => []RequestsReturnWhole` |

It adds `TextReaderAssumption`, which types its constants. A step of the text
reader fetches, takes a byte, compacts or leaves the adapter alone, and each of
these keeps `SourceInv` by the lemmas above; `Restore` seeks, for which
`ReaderInv` knows the checkpoint to lie in the source. That the reader stands
at the checkpoint after `Restore` follows from `SeekTo`; `RestoreInv` adds that
no running call has the result `Restored`, so that whatever moves the reader
has replaced it first.

`RequestsReturnWhole` compares what a loop over single bytes has put together
with a reference that decodes the text as a whole, `Characters`, a recursive
function. `WholeInv` says, for each loop, what the text read so far, a lead
byte held back and the reader's place have to do with each other: `ReadingAt`
in a line or a token, where nothing read ends it and a lead byte held back is
not in the text yet; `TokenAt`, where the first byte is no white space;
`BehindCR`, where the line ends before the `CR` whether an `LF` follows or not.
Lemmas say how the reference grows by a byte and by a pair of bytes, and what
the first byte of a kind is; each iteration then has its own lemma for what it
adds to the text.

`LoggerProofs.tla` proves, for every set of threads, every relation of who
interrupts whom, every number of sinks, every length and number of records:

| Theorem | Statement |
|---|---|
| `Invariance` | `Spec => []Inv` |
| `TypeCorrectness` | `Spec => []TypeOK` |
| `Exclusion` | `Spec => []MutualExclusion` |
| `FanOutIsSerial` | `Spec => []SerializedFanOut` |
| `FanOutIsComplete` | `Spec => EverySinkAttempted` |

Its assumptions are `SpinLockAssumption`, that an interruption is a pair of two
different threads, and `LoggerAssumption`, which types the constants. Neither
`SerializedFanOut` nor `EverySinkAttempted` is inductive. A byte that is
appended follows all that the sink has only if nothing of the current record
or a later one is there yet, and a sink that the holder has passed has the
whole record only if nobody else wrote meanwhile. So `Inv` says what the holder
of the lock has done so far: where it is (`Places`), that its record is the
newest and what a sink has of it is what the loop has written (`Newest`),
that each sink passed has all of the record or is among the failed
(`Attempted`), and which failure is kept (`FirstKept`). `MutualExclusion`
makes "the holder" one thread.

`EventProofs.tla` proves, for either class of event, any number of connections,
any nesting and any first allocation:

| Theorem | Statement |
|---|---|
| `EventTypeCorrect` | `Spec => []TypeOK` |
| `IterationIsStable` | `Spec => []StableIteration` |
| `UseAfterFreeOnlyWhenRegrown` | `Spec => []UseAfterFreeNeedsRegrowth` |
| `NothingRemovedIsCalled` | `Spec => NoCallAfterRemoval` |
| `OneShotsRunOnce` | `Spec => OnceUnlessReentered` |
| `EmissionIsComplete` | `Spec => EveryHandlerReached` |

`EventAssumption` types the constants. The invariant has three parts. `Holds`
relates the vector to what clients were told: sorted by identifier, its
unmarked entries are the connections not removed. `Fits` and `Runs` say
what a running emission relies on: its end lies inside, its entry is at its
index, and the handlers it owes a call are ahead of it. The vector only grows
or gets marks while an emission runs, which is why they survive every step.
`Spent` says that a one-shot that was called is gone or still running.

`TerminalProofs.tla` proves, for any events, coroutines, places and keys:

| Theorem | Statement |
|---|---|
| `TerminalTypeCorrect` | `Spec => []TypeOK` |
| `TimersClosed` | `Spec => []NoTimerLeaks` |
| `SuspendedCorrect` | `Spec => []SuspendedAreRegistered` |
| `KeysCorrect` | `Spec => []KeysExactlyOnce` |

`TimersByPlace` names the timers that are open at each place of a wait,
`CallersByPlace` the function that can be there, and `SelectedByPlace` what a
wait can have been woken by: only with it is a registration never confused with
a timer's place behind them. For the keys, `KeptIsLast` ties the kept surrogate
and the queued event to the last keys read.

`X64Proofs.tla` proves of `Assembler`, for every program, reach, set of lengths
and number of passes:

| Theorem | Statement |
|---|---|
| `FixedPointHolds` | `Spec => []FixedPoint` |
| `ConvergedCorrect` | `Spec => []ConvergedIsStable` |
| `EmissionCorrect` | the second encoding never fails |
| `AssemblerInvariance` | `Spec => []AssemblerInv` |
| `ShrinksCorrect` | `Spec => ShrinksIfContracting` |
| `ConvergesCorrect` | `Spec => []ConvergesIfContracting` |

`FixedPoint` is the argument for the first three: the pass that changes nothing
has measured the very layout it leaves. The others are about programs that
contract. Without padding `BehindSums` makes every offset the sum of the lengths
before it (the layout is a recursive function, which `Recursion` shows to exist),
and `Distances` says that shorter lengths move no two places apart. So a branch that
fits its short form goes on to: a label ahead comes nearer, though never nearer
than the branch is long, and one behind comes nearer too (`LabelStays`). An
address does not move with the code; but the place of the branch stays between the
front of the code and its first place (`Begun`), and only what `Stretches` is
within reach from the one and beyond it from the other (`AddressStays`). If the
encoder would lengthen nothing that has a form at all, it will lengthen
nothing after the pass either (`Shrinks`), and a pass that changes anything makes a
long branch short (`ShortBranchesGrow`): `LayoutInv` counts the passes against the
short branches. `AssemblerAssumption` states what this needs of the encoder, that
the first length is no less than any.

And of `Unwinder`, for any images, stack and depth of calls:

| Theorem | Statement |
|---|---|
| `ThreadKeepsItsFrames` | `ThreadSpec => []ThreadInv` |
| `WalkIsFound` | `ThreadSpec => []WalkFindsEveryCaller` |
| `WayIsFound` | `ThreadSpec => []FramePointerKeepsTheWay` |

`UnwinderAssumption` says what a compiler makes: a leaf has no prologue, a
segment saves in the room of its parent, and a prologue, together with those of
the functions it is a part of, is `WellFormed`. It saves a register once, in a
word of its own that it has taken, and the frame pointer is one it has pushed,
behind which it pushes nothing. What happens at run time is not assumed: that
no body and no callee writes over a saved register is a part of what is proved.

`ThreadInv` describes the stack. Of the running function it says how many
instructions of its prologue are not undone and how many have been run at all,
and by that where the stack pointer is, which words hold registers of the
caller, which registers still do, and what the frame pointer points at
(`FrameAt`); of every active call that the stack held all of that when it was
made (`CalledFrom`), below the calls before it, which is why what a function
writes leaves the words of its callers alone. Each action of the processor has a
lemma that it keeps the invariant.

The unwinder goes the same way back. The binary search ends at the entry around
the address, because what `Left` says of the part of the table that is left holds
after every look (`LookKeeps`, `LookupFinds`), and there is none around a leaf.
`UnwoundTo` says of a context what is known when the codes down to an instruction
are taken back: one code keeps it (`UndoStep`), so the codes of an entry do
(`CodesUndone`), so the entries it is chained to do (`EntriesUndone`), and where
nothing is left the stack points at the return address (`CallUnwinds`). A moved
stack pointer is a part of it, which is where the two properties differ: the
frame pointer makes up for it, the registers saved by offset are lost. The walk
is an induction over the callers (`WalkIsRight`).

`LineEditorProofs.tla` proves, for every alphabet, limit, history, completion
and length of line:

| Theorem | Statement |
|---|---|
| `EditorInvariance` | `Spec => []EditorInv` |
| `PlacesAreValidCorrect` | `Spec => []PlacesAreValid` |
| `LongOnlyIfRecalledCorrect` | `Spec => []LongOnlyIfRecalled` |

`EditorInv` has a part about the line, one about the history and one about the
call that is running. That the cursor stays between two characters rests on
what `PreviousBoundary` and `NextBoundary` return, which are loops over the
units of the line: a boundary, and no other lies between it and the cursor. Their
lemmas take the least number of units at which the loop stops. The lines of the
history are whole characters as well (`HistoryInv`), so recalling one leaves
the cursor at a boundary; between calls the line is empty (`CallInv`), so no
line over its limit outlives the call that recalled it.

`FileProofs.tla` proves of `PathOperations`, for texts of any length over any
letters, whatever the operands are:

| Theorem | Statement |
|---|---|
| `NormalFormCorrect` | `PathSpec => []NormalFormHolds` |
| `PartsRejoinCorrect` | `PathSpec => []PartsRejoin` |

`LettersAssumption` keeps the letters apart from the separators and the dot,
`PathAssumption` types the operands. The invariant is only that the path is a
text (`PathTypes`); that it has these properties is a fact about any text.
The operators are folds, for which there are lemmas about the empty sequence
and about one element more (`SplitSteps`, `ResolvedSteps`, `ConcatenatedSteps`,
`WalkedSteps`), on which inductions over the names rest. What has
been resolved is in normal form (`ResolvedIsNormal`) and is resolved to itself;
what was put together from names is split into the same names
(`RejoinedAlways`). Walking a text and resolving its names go side by side
(`FollowsAlways`): the resolved names are those that lead down, behind one ".."
when an odd number of them was kept. That `RelativeTo` returns texts, whatever it
reads in place of its components, is `RelativeTypes`.

And of `File`, for every set of volumes, of files and of places, and a firmware
whose every call may fail:

| Theorem | Statement |
|---|---|
| `FileInvariance` | `Spec => []FileInv` |
| `HandlesOwnedCorrect` | `Spec => []HandlesOwned` |
| `OpensWhatItNamesCorrect` | `Spec => []OpensWhatItNames` |
| `ReadReturnsWholeCorrect` | `Spec => []ReadReturnsWhole` |
| `ResizeKeepsPositionCorrect` | `Spec => []ResizeKeepsPosition` |
| `ErrorsNameTheirStatusCorrect` | `Spec => []ErrorsNameTheirStatus` |

`FileAssumption` types the constants and says that there are finitely many
files and at least one volume. An operation is one step of the model and a
sequence of firmware calls in the code; the model is a composition of functions
on the machine, and so is the proof. `Sound` is what every call leaves of
the machine, whatever it answers: each handle that is open was opened for the
`File` that has it. Each operation has a lemma that it keeps `Sound`, and one for
what it says when it says that it succeeded. `OpenAny` tries one volume after the
other, a fold over the volumes; its lemma takes the shortest prefix of them that
would break it. That the node found under a normalized path is the one the path
names (`NodeIsNamed`) rests on `FollowsAlways`: with a ".." in front nothing is
found. `Known` ties the information that a `File` keeps to the file
it was read from.

Three things are out of the prover's reach: liveness, `ENABLED`, and the
library's theorems of induction, which take an operator as a parameter. What
needs an induction over data is proved from a least counterexample instead, which
the well-founded order of the natural numbers gives, or by an induction that is
proved that way once, for sets: a set with 0 and with every successor of its
numbers has all of them (`NatSetInduction`), and so for sequences
(`SeqSetInduction`).

Only model-checked is liveness, which is out of reach: `CallsReturn` of the
adapters and of the text reader, `LogReturns` and `WaitsEnd`. Every other
property that a passing run checks is stated by a theorem.

## Bounds and abstractions

Every bound is a constant: `MaxConnections`, `MaxDepth` and `FirstCapacity` of
`Event` (8 in the code); `Capacity`, `MaxBytes`, `MaxWrite` of `BufferedSink`;
`MaxTicks` and `MaxHalfway` of the adapters; `Capacity`, `Size`, `Files`,
`Limits` and `DefaultLimit` of the text reader; `WideCapacity` (128) and
`MaxFailures` of `OutputPipeline`; `Events`, `MaxKeys`, `Coroutines` and
`MaximumRegistrations` (32) of the event loop; `Sinks`, `RecordSize` and
`MaxRecords` of the logger; `Widths`, `Limits`, `MaxHistory` and `MaxLine` of
the line editor; `MaxLength` of paths and `MaxSize` of files; `MaxLabels`,
`MaxNodes`, `MaxSections`, `MaximumPasses` (32), `Reach` (127), `NearReach`
(2^31 - 1) and `Addresses` of the assembler; `Leftovers` of `RelativeTo`; `Images`, `StackSize` and `MaxDepth` of the unwinder. The capacities
keep the shape of the code's, with the boundary reachable; the others bound how
much the environment does and appear in guards only.

- Bytes and characters are numbers, keys have the kind of their UTF-16 unit.
  Decoding of UTF-8 in the console is not modelled: a character is one byte
  and one unit.
- A handler of an event is its identifier; what it does is any operation.
- A driver signals its event once. The code of `RunOnce` handles others, but
  then a lost signal would not be noticed.
- `CancellationToken::Reset` happens at rest only. Resetting it during a wait
  would make the code's two looks at the token differ; the hazard is listed.
- A coroutine that `RunOnce` resumes does not call `RunOnce` itself.
- Handlers of `Terminal::OnKey` are the business of `Event`.

## Where the code departs from what it says

One disagreement is a run of its own, `terminal_wakeup`. The properties of the
others are stated so that they hold, with the exception named; what they
except is:

- A one-shot handler that emits its own event is called a second time, because
  it is marked used only after its callback returned (`Event.hpp:283`).
- A failed console write counts characters as transferred which stay in the
  wide buffer as well (`Console.cpp:33`): the retry shows them twice.
- A failed request of several values goes back to the wrong place when the
  source did not stand at its beginning (`Buffered.hpp:299`, `Reader.hpp:156`).
- A failure to read the byte behind a CR is dropped (`Reader.hpp:75`).
- `PrefixSink` returns the failure of a later line's prefix without the count
  of the bytes before it (`Advanced.hpp:22`), and `TeeSink` a failure of
  its second sink although the first has everything (`Utility.hpp:142`): what
  is offered again is there twice.
- `Path::Normalize` takes back a ".." that it had to keep, so that "..\.."
  becomes empty; `FileName` and `Components` know the backslash only.
- `Path::RelativeTo` keeps views of the components of two temporaries
  (`Path.cpp:287`), whose texts are freed at the end of the statement, and then
  compares and joins them. `filesystem.md:24` says that such views do not outlive
  their path. What the function returns is whatever the memory holds by
  then; nothing is promised of it here.
- `File::Delete` returns true on a warning, after which the file may be there;
  a `Write` whose information cannot be read afterwards reports a failure
  though the bytes are there; short transfers return false with the status of
  a success, as does `OpenAny` of the empty path; `Read` on a closed file leaves
  the status; `FileSource::Open` leaves the source open when its seek fails.
- With padding, a branch can be short in one pass and long in the next for
  ever: `jmp l1; jcc l2; 5 bytes; l1: align 8; l2:` does not assemble. Without
  padding a branch to an address ahead can do the same: ten `nop`s and
  `jmp base+200` begin with a short jump and end with a near one, and
  `jmp l; 122 bytes; jcc base+255; l:` goes round for ever. A forced
  short branch that reaches in the final layout is refused when it does not in
  the first, in which every instruction has 15 bytes; and chains of more than 30
  branches can use up the passes.
- The unwinder does not recognise epilogues, and counts the offsets of saved
  registers from the moved stack pointer: after a dynamic allocation it returns
  a wrong register without an error. The return address behind a call that
  ends a function is looked up as the next function's.
- `UEFI::Context::Attach` after the exit of boot services reports success and
  attaches nothing (`Context.cpp:16`).

## Not modelled

The map of `PROJECT.json` covers 8 % of the repository's lines. A quarter of
those lines is one vendored header (`Zydis.h`), and much of the rest has no
state to go wrong between two calls:

- `Zydis.h`, the firmware's tables and protocols, the instruction mnemonics and
  CRT headers are declarations.
- The instruction decoder's wrappers, PE and PDB parsers, the symbol database
  and the signature matcher are sequential functions of large binary data,
  correct when they agree with a file format; a model would be a second
  parser.
- `Format` is layout of text.
- Strings, containers, smart pointers, type erasure (`WriterRef`, `AnyIO`) and
  function wrappers hold one object each. `Vector`'s growth and erasure are part of
  `Event`, where they matter.
- `LineEditor::Redraw` computes cells of the screen, of which no later step of
  the editor depends; `AddSink` and `ClearSinks` of the logger are set-up.
- Allocators pass through to the firmware's pool. The CRT heap adds a header
  before each block and rounds addresses up; each of its calls stands alone but
  for that header.
- `MemorySource`, `NullSink`, `CountingSink` and the escape sequences of
  `AnsiTerminalSink` are single assignments.

What could still be added: the CRT heap over addresses modulo 2^64; the two
output pipelines of one context together; UTF-8 of three and four bytes in the
text reader.
