-------------------------------- MODULE File --------------------------------
(* FileSystem::File over the firmware's file protocol, and the transports  *)
(* FileSource and FileSink over File.  An operation is a sequence of       *)
(* firmware calls each of which may fail, and leaves behind what the calls *)
(* before the failure did: an operator gives, for the machine one File     *)
(* sees, the set of machines it may leave.                                 *)
EXTENDS Path

CONSTANTS
  Files,    \* the File objects
  Classes,  \* what each may be: a File, or the File_ of a transport, or None
  Volumes,  \* the simple file systems, in the order they are located
  Bytes,
  Texts,    \* the paths that are opened
  MaxSize,  \* bound on the size of the file on a volume
  None      \* no handle, no volume, no file

ASSUME FileAssumption ==
  /\ IsFiniteSet(Files)
  /\ Classes \subseteq [Files -> {"File", "FileSource", "FileSink", None}]
  /\ Volumes \in Seq(ToSet(Volumes)) \ {<<>>}
  /\ Bytes # {}
  /\ Texts \subseteq Seq(Characters)
  /\ MaxSize \in Nat
  /\ None \notin Nat \cup ToSet(Volumes) \cup Seq(Bytes)

VARIABLES
  class,     \* the class of each object
  disk,      \* external: the content of the one file of each volume
  handles,   \* external: the firmware's open handles
  files,     \* the File objects and the transports around them
  bypassed   \* history: the size changed without a successful call of the File

vars == <<class, disk, handles, files, bypassed>>

Sources == {f \in Files : class[f] = "FileSource"}
Sinks   == {f \in Files : class[f] = "FileSink"}

Zero == CHOOSE b \in Bytes : TRUE
End  == -1            \* Uint64(-1): the position behind the last byte
Modes == {"Read", "ReadWrite", "CreateReadWrite"}

NoInfo == [size |-> 0, directory |-> FALSE]

NewFile ==
  [handle |-> None, volume |-> None, info |-> NoInfo, open |-> FALSE,
   append |-> FALSE]

-----------------------------------------------------------------------------
(* The firmware.  A machine m is what one call sees and returns: the disk,  *)
(* the handles, its File, the Bool, the bytes and LastStatus, "Stale" until *)
(* the call sets it.                                                        *)

\* External: the root of every volume holds the directory d, and at most the
\* file f.
Node(names) ==
  CASE names = << <<"f">> >> -> "file"
    [] names \in {<<>>, << <<"d">> >>} -> "directory"
    [] OTHER -> None

Fresh(m) == CHOOSE h \in 1 .. Cardinality(Files) + 1 : h \notin DOMAIN m.handles

OpenHandle(m, volume, node, mode) ==
  [m EXCEPT
     !.handles = [h \in DOMAIN @ \cup {Fresh(m)} |->
       IF h # Fresh(m) THEN @[h]
       ELSE [volume |-> volume, node |-> node, position |-> 0,
             writable |-> mode # "Read"]],
     !.disk[volume] = IF node = "file" /\ @ = None THEN <<>> ELSE @]

CloseHandle(m, h) == [m EXCEPT !.handles = Restrict(@, DOMAIN @ \ {h})]

Own(m)     == m.handles[m.file.handle]
Content(m) == m.disk[Own(m).volume]

\* A file that was deleted through another handle answers no call any more.
Answers(m) == Own(m).node = "file" => Content(m) # None

Writable(m) == Own(m).node = "file" /\ Own(m).writable

IsFile(m) == Own(m).node = "file"

Moved(m, position) ==
  [m EXCEPT !.handles[m.file.handle].position =
     CASE position # End -> position
       [] position = End /\ IsFile(m) -> Len(Content(m))
       [] OTHER -> 0]

Overwritten(old, position, bytes) ==
  [i \in 1 .. Max({Len(old), position + Len(bytes)}) |->
     CASE i \in position + 1 .. position + Len(bytes) -> bytes[i - position]
       [] i \notin position + 1 .. position + Len(bytes) /\ i <= Len(old) -> old[i]
       [] OTHER -> Zero]

Wrote(m, bytes) ==
  LET position == Own(m).position
  IN Moved([m EXCEPT !.disk[Own(m).volume] =
              IF bytes = <<>> THEN @ ELSE Overwritten(@, position, bytes)],
           position + Len(bytes))

\* The bytes a read of count bytes delivers from where the handle stands.
Ahead(m, count) ==
  IF Own(m).node # "file" THEN <<>>
  ELSE SubSeq(Content(m), Own(m).position + 1,
              Min({Own(m).position + count, Len(Content(m))}))

Sized(m, size) ==
  [m EXCEPT !.disk[Own(m).volume] =
     [i \in 1 .. size |-> IF i <= Len(@) THEN @[i] ELSE Zero]]

-----------------------------------------------------------------------------
(* FileSystem::File                                                        *)

Returns(m, ok, status) == [m EXCEPT !.ok = ok, !.status = status]
Succeeded(m) == Returns(m, TRUE, "Success")
Failed(m)    == Returns(m, FALSE, "Error")

IsValid(m)    == m.file.handle # None
Unusable(m) == ~IsValid(m) \/ m.file.info.directory

\* QueryInfo, called on a handle that answers, and its cache.
Informed(m) ==
  [m EXCEPT !.file.info =
     [size |-> IF Own(m).node = "file" THEN Len(Content(m)) ELSE 0,
      directory |-> Own(m).node = "directory"]]

\* Deliberate error: a failure to close leaves LastStatus as it was.
CloseSilently(m) ==
  LET closed == [CloseHandle(m, m.file.handle) EXCEPT
                   !.file.handle = None, !.file.info = NoInfo]
  IN {Succeeded(closed)} \cup (IF IsValid(m) THEN {[closed EXCEPT !.ok = FALSE]} ELSE {})

Close(m) ==
  LET closed == [CloseHandle(m, m.file.handle) EXCEPT
                   !.file.handle = None, !.file.info = NoInfo]
  IN {Succeeded(closed)} \cup (IF IsValid(m) THEN {Failed(closed)} ELSE {})

Delete(m) ==
  IF ~IsValid(m) THEN {Failed(m)}
  ELSE LET closed  == [CloseHandle(m, m.file.handle) EXCEPT
                         !.file.handle = None, !.file.info = NoInfo]
           removed == [closed EXCEPT !.disk[Own(m).volume] = None]
       IN {Failed(closed), Returns(closed, TRUE, "Warning")}
            \cup (IF Own(m).node = "file" THEN {Succeeded(removed)} ELSE {})

Flush(m) == IF IsValid(m) THEN {Failed(m), Succeeded(m)} ELSE {Failed(m)}

Position(m) == Flush(m)   \* a call that changes nothing, like Flush

\* Deliberate error: the position is left where the resize found it.
ResizeInPlace(m, size) ==
  IF Unusable(m) \/ ~Answers(m) THEN {Failed(m)}
  ELSE {Failed(m), Failed(Sized(m, size)), Succeeded(Informed(Sized(m, size)))}

\* Position, information, new information, the cache, the position again.
Resize(m, size) ==
  IF Unusable(m) \/ ~Answers(m) THEN {Failed(m)}
  ELSE LET informed == Informed(Sized(m, size))
       IN {Failed(m), Failed(Sized(m, size)), Failed(informed),
           Succeeded(Moved(informed, Min({Own(m).position, size})))}

\* As many bytes as the cached size says, from the beginning of the file.
ReadAll(m) ==
  IF m.file.info.size = 0 THEN {[m EXCEPT !.ok = TRUE]}
  ELSE IF ~Answers(m) THEN {Failed(m)}
  ELSE LET start == Moved(m, 0)
           bytes == Ahead(start, m.file.info.size)
           read  == Moved(m, Len(bytes))
       IN {Failed(m), Failed(start),
           IF Len(bytes) # m.file.info.size THEN Returns(read, FALSE, "Success")
           ELSE [Succeeded(read) EXCEPT !.data = bytes]}

ReadVector(m) == IF Unusable(m) THEN {[m EXCEPT !.ok = FALSE]} ELSE ReadAll(m)
ReadBuffer(m) == IF Unusable(m) THEN {Failed(m)} ELSE ReadAll(m)

\* What the firmware may have written when a write ends early.
WroteSome(m, bytes) ==
  IF Writable(m) THEN {Wrote(m, SubSeq(bytes, 1, n)) : n \in 0 .. Len(bytes)}
  ELSE {m}

\* Deliberate error: the cached information is not asked for again.
WriteUninformed(m, place, bytes) ==
  IF Unusable(m) \/ ~Answers(m) THEN {Failed(m)}
  ELSE LET start == Moved(m, place)
       IN {Failed(m)} \cup (IF Writable(m) THEN {Succeeded(Wrote(start, bytes))}
                            ELSE {Failed(start)})

\* Write at the start or at a position, and Append at the End: the position,
\* the bytes, the cache.
Write(m, place, bytes) ==
  IF Unusable(m) \/ ~Answers(m) THEN {Failed(m)}
  ELSE LET start == Moved(m, place)
           whole == Wrote(start, bytes)
       IN {Failed(m)}
            \cup (IF bytes = <<>> THEN {Succeeded(start)}
                  ELSE {Failed(w) : w \in WroteSome(start, bytes)})
            \cup (IF bytes = <<>> \/ ~Writable(m) THEN {}
                  ELSE {Returns(w, FALSE, "Success") :
                          w \in WroteSome(start, bytes) \ {whole}}
                         \cup {Succeeded(Informed(whole))})

\* Deliberate error: the file is looked for under its name alone.
NodeOfName == [t \in Texts |-> Node(<<FileName(t)>>)]

\* What the firmware is asked for: the normalized path.
NodeOf == [t \in Texts |-> Node(Components(Normalized(t)))]

\* Deliberate error: a file whose information cannot be read stays open.
OpenClosedLeaking(m, text, volume, mode) ==
  IF text = <<>> \/ volume = None THEN {Failed(m)}
  ELSE LET root   == Fresh(m)
           rooted == OpenHandle(m, volume, "directory", "Read")
           node   == NodeOf[text]
           opened == CloseHandle(OpenHandle(rooted, volume, node, mode), root)
           owner  == [opened EXCEPT !.file.handle = Fresh(rooted), !.file.volume = volume]
       IN {Failed(m)} \cup (IF node = None \/ (node = "file" /\ m.disk[volume] = None)
                           THEN {} ELSE {Failed(opened), Succeeded(Informed(owner))})

\* Open on a File that was closed: the root, the file, its information.  The
\* root is closed in any case, the file when its information is missing.
OpenClosed(m, text, volume, mode) ==
  IF text = <<>> \/ volume = None THEN {Failed(m)}
  ELSE LET root   == Fresh(m)
           rooted == OpenHandle(m, volume, "directory", "Read")
           node   == NodeOf[text]
           exists == node = "file" => m.disk[volume] # None \/ mode = "CreateReadWrite"
           h      == Fresh(rooted)
           opened == CloseHandle(OpenHandle(rooted, volume, node, mode), root)
           owner  == [opened EXCEPT !.file.handle = h, !.file.volume = volume]
       IN {Failed(m), Failed(CloseHandle(rooted, root))}
            \cup (IF node = None \/ ~exists THEN {}
                  ELSE {Failed(CloseHandle(opened, h)), Succeeded(Informed(owner))})

Open(m, text, volume, mode) ==
  UNION {IF c.ok THEN OpenClosed(c, text, volume, mode) ELSE {c} : c \in Close(m)}

\* The volume of the running image, where its protocol can be asked.
CurrentVolumes == {Volumes[1], None}

OpenCurrent(m, text, mode) ==
  UNION {Open(m, text, v, mode) : v \in CurrentVolumes}

\* The other volumes, in the order they are located, until one has the file.
OpenElsewhere(m, text, current, mode) ==
  LET TryNext(tried, volume) ==
        UNION {IF t.ok \/ volume = current THEN {t}
               ELSE Open(t, text, volume, mode) : t \in tried}
  IN FoldLeft(TryNext, {m}, Volumes)

\* The current volume first, then the others, if they can be located.
OpenAny(m, text, mode) ==
  LET Try(c, current) ==
        UNION {IF t.ok THEN {t} ELSE {t} \cup OpenElsewhere(t, text, current, mode) :
                 t \in Open(c, text, current, mode)}
  IN UNION {IF ~c.ok THEN {c}
            ELSE IF text = <<>> THEN {[c EXCEPT !.ok = FALSE]}
            ELSE UNION {Try(c, v) : v \in CurrentVolumes} : c \in Close(m)}

-----------------------------------------------------------------------------
(* IO::FileSource and IO::FileSink                                         *)

IsOpen(m) == m.file.open /\ IsValid(m)

\* A transport that is closed fails without asking the File.
Refused(m) == [m EXCEPT !.ok = FALSE]

CloseTransport(m) ==
  IF ~m.file.open /\ ~IsValid(m) THEN {[m EXCEPT !.ok = TRUE]}
  ELSE Close([m EXCEPT !.file.open = FALSE])

\* The calls on the firmware's handle bypass the File and its LastStatus.
SeekHandle(m, position) ==
  IF ~IsOpen(m) THEN {Refused(m)}
  ELSE {Refused(m)} \cup (IF Answers(m) THEN {[Moved(m, position) EXCEPT !.ok = TRUE]}
                          ELSE {})

OpenTransport(m, text, mode) ==
  LET Reopen(c) ==
        {[o EXCEPT !.file.open = @ \/ o.ok] : o \in OpenCurrent(c, text, mode)}
  IN UNION {IF c.ok THEN Reopen(c) ELSE {c} : c \in CloseTransport(m)}

\* A FileSource goes to the start, and stays open where that fails.
OpenSource(m, text, mode) ==
  UNION {IF o.ok THEN SeekHandle(o, 0) ELSE {o} : o \in OpenTransport(m, text, mode)}

OpenSink(m, text, mode, append) ==
  {[o EXCEPT !.file.append = IF o.ok THEN append ELSE @] :
     o \in OpenTransport(m, text, mode)}

ReadSome(m, count) ==
  IF ~IsOpen(m) THEN {Refused(m)}
  ELSE IF count = 0 THEN {[m EXCEPT !.ok = TRUE]}
  ELSE IF ~Answers(m) THEN {Refused(m)}
  ELSE LET bytes == Ahead(m, count)
       IN {Refused(m), [Moved(m, Own(m).position + Len(bytes))
                          EXCEPT !.ok = TRUE, !.data = bytes]}

WriteSome(m, bytes) ==
  IF ~IsOpen(m) THEN {Refused(m)}
  ELSE IF bytes = <<>> THEN {[m EXCEPT !.ok = TRUE]}
  ELSE IF ~Answers(m) THEN {Refused(m)}
  ELSE LET start == IF m.file.append THEN Moved(m, End) ELSE m
       IN {Refused(m)}
            \cup {Refused(w) : w \in WroteSome(start, bytes)}
            \cup (IF Writable(m)
                  THEN {[w EXCEPT !.ok = TRUE] : w \in WroteSome(start, bytes)}
                  ELSE {})

\* The append mode is set aside for the write, and set again whatever became
\* of it.
WriteAt(m, position, bytes) ==
  UNION {IF ~s.ok THEN {s}
         ELSE {[w EXCEPT !.file.append = m.file.append] :
                 w \in WriteSome([s EXCEPT !.file.append = FALSE], bytes)} :
           s \in SeekHandle(m, position)}

Truncate(m, size) == IF IsOpen(m) THEN Resize(m, size) ELSE {Refused(m)}

\* Tell, and Flush of a sink.
AskHandle(m) ==
  {Refused(m)} \cup (IF IsOpen(m) THEN {[m EXCEPT !.ok = TRUE]} ELSE {})

-----------------------------------------------------------------------------
Machine(f) ==
  [disk |-> disk, handles |-> handles, file |-> files[f], ok |-> FALSE,
   data |-> <<>>, status |-> "Stale"]

SizeOn(d, v) == IF d[v] = None THEN None ELSE Len(d[v])

\* The calls that change the file without the File that made the handle.
Around == {"WriteSome", "WriteAt"}

\* A call of f returns and leaves the machine r.
Returned(f, call, r) ==
  /\ disk' = r.disk
  /\ handles' = r.handles
  /\ files' = [files EXCEPT ![f] = r.file]
  /\ bypassed' = [g \in Files |->
       LET v == files'[g].volume
       IN IF g = f /\ call = "Open" /\ r.ok THEN FALSE
          ELSE \/ bypassed[g]
               \/ /\ files'[g].handle # None
                  /\ SizeOn(r.disk, v) # SizeOn(disk, v)
                  /\ g # f \/ ~r.ok \/ call \in Around]

Data  == UNION {[1 .. n -> Bytes] : n \in 0 .. MaxSize}
Sizes == 0 .. MaxSize

Call(f, call, outcomes) == \E r \in outcomes : Returned(f, call, r)

Init ==
  /\ class \in Classes
  /\ disk \in [ToSet(Volumes) -> {None, <<>>}]
  /\ handles = <<>>
  /\ files = [f \in Files |-> NewFile]
  /\ bypassed = [f \in Files |-> FALSE]

\* The inner File of a transport is at its user's hand, like any other File.
OpenFile(f) ==
  \E t \in Texts, mode \in Modes :
    \/ \E v \in ToSet(Volumes) \cup {None} :
         Call(f, "Open", Open(Machine(f), t, v, mode))
    \/ Call(f, "Open", OpenAny(Machine(f), t, mode))
CloseFile(f)  == Call(f, "Close", Close(Machine(f)))
DeleteFile(f) == Call(f, "Delete", Delete(Machine(f)))
FlushFile(f)  == Call(f, "Flush", Flush(Machine(f)))
TellFile(f)   == Call(f, "Position", Position(Machine(f)))
ResizeFile(f) == \E n \in Sizes : Call(f, "Resize", Resize(Machine(f), n))
ReadFile(f)   == Call(f, "Read", ReadVector(Machine(f)) \cup ReadBuffer(Machine(f)))
WriteFile(f)  ==
  \E place \in Sizes \cup {End}, bytes \in Data :
    Call(f, "Write", Write(Machine(f), place, bytes))

\* operator=(File&&): closes, takes what the other has, and leaves it empty.
\* A transport that is moved from keeps its own flags.
MoveFile(f, g) ==
  \E c \in Close(Machine(f)) :
    /\ handles' = c.handles
    /\ files' = [files EXCEPT ![f] = files[g],
                              ![g] = [NewFile EXCEPT !.open = files[g].open,
                                                     !.append = files[g].append]]
    /\ bypassed' = [bypassed EXCEPT ![f] = bypassed[g]]
    /\ UNCHANGED disk

UseSource(f) ==
  \/ \E t \in Texts, mode \in Modes : Call(f, "Open", OpenSource(Machine(f), t, mode))
  \/ \E n \in Sizes : Call(f, "ReadSome", ReadSome(Machine(f), n))
UseSink(f) ==
  \/ \E t \in Texts, mode \in Modes, append \in BOOLEAN :
       Call(f, "Open", OpenSink(Machine(f), t, mode, append))
  \/ \E bytes \in Data : Call(f, "WriteSome", WriteSome(Machine(f), bytes))
  \/ \E n \in Sizes, bytes \in Data : Call(f, "WriteAt", WriteAt(Machine(f), n, bytes))
  \/ \E n \in Sizes : Call(f, "Truncate", Truncate(Machine(f), n))
UseTransport(f) ==
  \/ \E n \in Sizes : Call(f, "Seek", SeekHandle(Machine(f), n))
  \/ Call(f, "Tell", AskHandle(Machine(f)))
  \/ Call(f, "Close", CloseTransport(Machine(f)))

UseFile(f) ==
  \/ OpenFile(f)
  \/ CloseFile(f)
  \/ DeleteFile(f)
  \/ FlushFile(f)
  \/ TellFile(f)
  \/ ResizeFile(f)
  \/ ReadFile(f)
  \/ WriteFile(f)

Next ==
  /\ \/ \E f \in Files : class[f] # None /\ UseFile(f)
     \/ \E f, g \in Files :
          f # g /\ class[f] = class[g] /\ class[f] # None /\ MoveFile(f, g)
     \/ \E f \in Sources : UseSource(f)
     \/ \E f \in Sinks : UseSink(f)
     \/ \E f \in Sources \cup Sinks : UseTransport(f)
  /\ UNCHANGED class
  /\ \A v \in DOMAIN disk : disk'[v] = None \/ Len(disk'[v]) <= MaxSize

Spec == Init /\ [][Next]_vars

-----------------------------------------------------------------------------
\* Every handle the firmware has open belongs to exactly one File, and no File
\* holds one that was closed: whatever fails, and whatever is moved, nothing
\* leaks and nothing is closed twice.
HandlesOwned ==
  LET held == {f \in Files : files[f].handle # None}
  IN /\ {files[f].handle : f \in held} = DOMAIN handles
     /\ \A f, g \in held : files[f].handle = files[g].handle => f = g

NamedNode == [t \in Texts |-> Node(Meaning(t).names)]

\* An Open that succeeds has a handle for the directory or file that the path
\* names, on the volume that FileSystemHandle reports.
OpensWhatItNames ==
  \A f \in Files, t \in Texts, mode \in Modes :
    \A r \in OpenAny(Machine(f), t, mode) : r.ok =>
      /\ Own(r).volume = r.file.volume
      /\ Own(r).node = NamedNode[t]

\* A Read that succeeds has the whole file, unless its size changed behind the
\* back of the File: through another handle, through the handle of a sink, or
\* by a call that failed after it had changed the file.
ReadReturnsWhole ==
  \A f \in Files : ~bypassed[f] =>
    \A r \in ReadVector(Machine(f)) : r.ok => r.data = Content(r)

\* A resize that succeeds keeps the position, or brings it to the new end, and
\* keeps every byte that still fits.
ResizeKeepsPosition ==
  \A f \in Files, n \in Sizes :
    LET m == Machine(f)
    IN \A r \in Resize(m, n) : r.ok =>
         /\ Own(r).position = Min({Own(m).position, n})
         /\ Len(Content(r)) = n
         /\ \A i \in 1 .. Min({n, Len(Content(m))}) : Content(r)[i] = Content(m)[i]

\* A call that failed left an error behind, not the status of an earlier success.
NamesItsStatus(r) == ~r.ok => r.status = "Error"

\* A transport that reports the status its File left reports an error, set by
\* the call that failed.
ErrorsNameTheirStatus ==
  \A f \in Sources \cup Sinks :
    LET m == Machine(f)
    IN /\ \A r \in CloseTransport(m) : NamesItsStatus(r)
       /\ \A t \in Texts, mode \in Modes :
            \A r \in OpenTransport(m, t, mode) : NamesItsStatus(r)
       /\ IsOpen(m) => \A n \in Sizes : \A r \in Resize(m, n) : NamesItsStatus(r)
=============================================================================
