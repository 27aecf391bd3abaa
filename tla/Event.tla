-------------------------------- MODULE Event --------------------------------
(***************************************************************************)
(* Library::BasicEvent and Library::StopEvent: a vector of handlers that a *)
(* client connects, enables, disables and disconnects, and an Emit that    *)
(* calls the enabled ones in turn.  A handler may call any operation of    *)
(* the event it is called from, Emit included, so control is always with   *)
(* the client: at the top level when frames is empty, else inside the      *)
(* callback of the innermost emission.  Emit and Return run the loop of    *)
(* the code up to the next callback, or to the end of the emission.        *)
(***************************************************************************)
EXTENDS Naturals, Sequences, FiniteSets

CONSTANTS
  MaxConnections, \* bound on the connections a behaviour makes
  MaxDepth,       \* bound on nested emissions
  FirstCapacity   \* capacity of the vector's first allocation (8 in the code)

ASSUME EventAssumption ==
  /\ MaxConnections \in Nat \ {0}
  /\ MaxDepth \in Nat \ {0}
  /\ FirstCapacity \in Nat \ {0}

Ids == 1..MaxConnections
Classes == {"BasicEvent", "StopEvent"}
Entries == [id : Ids, once : BOOLEAN, enabled : BOOLEAN, pending : BOOLEAN]

(***************************************************************************)
(* A frame is a running Emit: the index of the entry being called and the  *)
(* captured end of the range-for, with the capacity of the vector then,    *)
(* which tells its buffer from a later one.  id, before and owed are for   *)
(* the properties only: the connection being called, the first identifier  *)
(* that was unused when Emit began, and the handlers that were callable    *)
(* then, are still, and have not been called.                              *)
(***************************************************************************)
Frames == [pos : Nat, end : Nat, buffer : Nat, id : Nat, before : Nat,
           owed : SUBSET Ids]

VARIABLES
  class,     \* which of the two classes the event is an instance of
  handlers,  \* Handlers_
  capacity,  \* Handlers_.Capacity_
  nextId,    \* NextId_
  emitDepth, \* EmitDepth_
  frames,    \* the running emissions, outermost first
  undefined, \* an emission has used an iterator into a freed buffer
  connected, \* for the properties: every connection handed out
  onceIds,   \* for the properties: those made by ConnectOnce
  removed,   \* for the properties: those disconnected or used up
  calls      \* for the properties: how often each was called, up to 2

history == <<connected, onceIds, removed, calls>>
vars == <<class, handlers, capacity, nextId, emitDepth, frames, undefined,
          history>>
-----------------------------------------------------------------------------
Callable(h) == h.enabled /\ ~h.pending

\* Deliberate error: the mark only disables, so Enable can undo it.
OnlyDisabled(h) == [h EXCEPT !.enabled = FALSE]

MarkedRemoved(h) == [h EXCEPT !.enabled = FALSE, !.pending = TRUE]

\* Vector::Erase of one entry.
Erase(s, k) == [n \in 1..(Len(s) - 1) |-> IF n < k THEN s[n] ELSE s[n + 1]]

Kept(s) == {k \in 1..Len(s) : ~s[k].pending}

\* What Compact leaves: the entries that are not pending, in their order.
Compactions(s) ==
  {[n \in DOMAIN f |-> s[f[n]]] :
     f \in {g \in [1..Cardinality(Kept(s)) -> Kept(s)] :
              /\ \A a, b \in DOMAIN g : a < b => g[a] < g[b]
              /\ \A k \in Kept(s) : \E a \in DOMAIN g : g[a] = k}}

\* No running emission has to call a handler of S any more.
Excuse(S, stack) ==
  [n \in DOMAIN stack |-> [stack[n] EXCEPT !.owed = @ \ S]]

Below == SubSeq(frames, 1, Len(frames) - 1)
Current == frames[Len(frames)]

Init ==
  /\ class \in Classes
  /\ handlers = <<>>
  /\ capacity = 0
  /\ nextId = 1
  /\ emitDepth = 0
  /\ frames = <<>>
  /\ undefined = FALSE
  /\ connected = {}
  /\ onceIds = {}
  /\ removed = {}
  /\ calls = [i \in Ids |-> 0]
-----------------------------------------------------------------------------
NewConnection == nextId <= MaxConnections /\ nextId' = nextId + 1

(***************************************************************************)
(* Connect and ConnectOnce of a non-empty callback.  The identifier is     *)
(* taken before PushBack, so a failed allocation spends it.                *)
(***************************************************************************)
PushBack(entry) ==
  \/ /\ Len(handlers) < capacity
     /\ handlers' = Append(handlers, entry)
     /\ capacity' = capacity
  \/ /\ Len(handlers) = capacity
     /\ handlers' = Append(handlers, entry)
     /\ capacity' = IF capacity = 0 THEN FirstCapacity ELSE 2 * capacity

Connect(once) ==
  /\ ~undefined
  /\ NewConnection
  /\ \/ /\ PushBack([id |-> nextId, once |-> once, enabled |-> TRUE,
                     pending |-> FALSE])
        /\ connected' = connected \cup {nextId}
        /\ onceIds' = IF once THEN onceIds \cup {nextId} ELSE onceIds
     \/ /\ Len(handlers) = capacity  \* the allocation of a new buffer fails
        /\ UNCHANGED <<handlers, capacity, connected, onceIds>>
  /\ UNCHANGED <<class, emitDepth, frames, undefined, removed, calls>>

\* Deliberate error: Disconnect erases whatever is running.
DisconnectErases(k) == handlers' = Erase(handlers, k)

\* Disconnect: found at rest the entry is erased; during an emission it is
\* marked, and BasicEvent alone skips one that is already marked.
DisconnectAtRest(k) ==
  /\ emitDepth = 0
  /\ handlers' = Erase(handlers, k)

DisconnectInEmission(k) ==
  /\ emitDepth # 0
  /\ class = "BasicEvent" => ~handlers[k].pending
  /\ handlers' = [handlers EXCEPT ![k] = MarkedRemoved(@)]

Disconnect ==
  /\ ~undefined
  /\ \E k \in 1..Len(handlers) :
       /\ DisconnectAtRest(k) \/ DisconnectInEmission(k)
       /\ removed' = removed \cup {handlers[k].id}
       /\ frames' = Excuse({handlers[k].id}, frames)
  /\ UNCHANGED <<class, capacity, nextId, emitDepth, undefined, connected,
                 onceIds, calls>>

\* Deliberate error: DisconnectAll releases the vector's buffer.
DisconnectAllReleases ==
  /\ ~undefined
  /\ handlers' = <<>>
  /\ capacity' = 0
  /\ removed' = connected
  /\ frames' = Excuse(Ids, frames)
  /\ UNCHANGED <<class, nextId, emitDepth, undefined, connected, onceIds, calls>>

\* DisconnectAll and Clear.
DisconnectAll ==
  /\ ~undefined
  /\ handlers' = IF emitDepth # 0
                 THEN [k \in 1..Len(handlers) |-> MarkedRemoved(handlers[k])]
                 ELSE <<>>
  /\ removed' = connected
  /\ frames' = Excuse(Ids, frames)
  /\ UNCHANGED <<class, capacity, nextId, emitDepth, undefined, connected,
                 onceIds, calls>>

\* Enable and Disable, which StopEvent does not have.
SetEnabled(enabled) ==
  /\ ~undefined
  /\ class = "BasicEvent"
  /\ \E k \in 1..Len(handlers) :
       /\ ~handlers[k].pending
       /\ handlers' = [handlers EXCEPT ![k].enabled = enabled]
       /\ frames' = IF enabled THEN frames ELSE Excuse({handlers[k].id}, frames)
  /\ UNCHANGED <<class, capacity, nextId, emitDepth, undefined, history>>
-----------------------------------------------------------------------------
\* Deliberate error: the loop stops one entry short.
AheadButLast(s, f) ==
  {k \in (f.pos + 1)..f.end : k < f.end /\ Callable(s[k])}

\* The positions of s at which the loop of emission f will make a call.
Ahead(s, f) == {k \in (f.pos + 1)..f.end : Callable(s[k])}

\* The loop reaches the next callable entry and calls it.
CallNext(s, f, below, depth) ==
  \E k \in Ahead(s, f) :
    /\ \A j \in Ahead(s, f) : k <= j
    /\ handlers' = s
    /\ emitDepth' = depth
    /\ frames' = Append(below, [f EXCEPT !.pos = k, !.id = s[k].id,
                                         !.owed = @ \ {s[k].id}])
    /\ calls' = [calls EXCEPT ![s[k].id] = IF @ < 2 THEN @ + 1 ELSE @]

\* Deliberate error: the depth is tested before it is taken down.
FinishTestsOldDepth(s, below, depth) ==
  /\ emitDepth' = depth - 1
  /\ IF depth = 0 THEN handlers' \in Compactions(s) ELSE handlers' = s
  /\ frames' = below
  /\ calls' = calls

\* The emission ends; the outermost one compacts.
Finish(s, below, depth) ==
  /\ emitDepth' = depth - 1
  /\ IF depth - 1 = 0 THEN handlers' \in Compactions(s) ELSE handlers' = s
  /\ frames' = below
  /\ calls' = calls

Advance(s, f, below, depth) ==
  \/ CallNext(s, f, below, depth)
  \/ Ahead(s, f) = {} /\ Finish(s, below, depth)

Emit ==
  /\ ~undefined
  /\ Len(frames) < MaxDepth
  /\ Advance(handlers,
             [pos |-> 0, end |-> Len(handlers), buffer |-> capacity, id |-> 0,
              before |-> nextId,
              owed |-> {handlers[k].id : k \in {j \in 1..Len(handlers) :
                                                  Callable(handlers[j])}}],
             frames, emitDepth + 1)
  /\ UNCHANGED <<class, capacity, nextId, undefined, connected, onceIds,
                 removed>>

\* Deliberate error: a one-shot is not used up by its call.
NotUsedUp(s, k) == s

\* What Emit does to the entry whose callback returned.
UsedUp(s, k) == IF s[k].once THEN [s EXCEPT ![k] = MarkedRemoved(@)] ELSE s

Return(result) ==
  /\ ~undefined
  /\ frames # <<>>
  /\ Current.buffer = capacity
  /\ result = "Stop" => class = "StopEvent"
  /\ LET spent == IF handlers[Current.pos].once THEN {Current.id} ELSE {}
         after == UsedUp(handlers, Current.pos)
     IN /\ removed' = removed \cup spent
        /\ IF result = "Stop"
           THEN Finish(after, Excuse(spent, Below), emitDepth)
           ELSE Advance(after, [Current EXCEPT !.owed = @ \ spent],
                        Excuse(spent, Below), emitDepth)
  /\ UNCHANGED <<class, capacity, nextId, undefined, connected, onceIds>>

(***************************************************************************)
(* The callback returns to a loop whose entry and iterators lie in a       *)
(* buffer that a Connect made from a callback has freed: what the program  *)
(* does from here on is undefined, and the model stops.                    *)
(***************************************************************************)
ReturnToFreedBuffer ==
  /\ ~undefined
  /\ frames # <<>>
  /\ Current.buffer # capacity
  /\ undefined' = TRUE
  /\ UNCHANGED <<class, handlers, capacity, nextId, emitDepth, frames, history>>

Next ==
  \/ \E once \in BOOLEAN : Connect(once)
  \/ Disconnect
  \/ DisconnectAll
  \/ \E enabled \in BOOLEAN : SetEnabled(enabled)
  \/ Emit
  \/ \E result \in {"Continue", "Stop"} : Return(result)
  \/ ReturnToFreedBuffer

Spec == Init /\ [][Next]_vars
-----------------------------------------------------------------------------
TypeOK ==
  /\ class \in Classes
  /\ handlers \in Seq(Entries)
  /\ capacity \in Nat
  /\ nextId \in 1..(MaxConnections + 1)
  /\ emitDepth \in Nat
  /\ frames \in Seq(Frames)
  /\ undefined \in BOOLEAN
  /\ connected \in SUBSET Ids
  /\ onceIds \in SUBSET Ids
  /\ removed \in SUBSET Ids
  /\ calls \in [Ids -> 0..2]

\* Each running emission finds the entry it is calling at its index and its
\* end inside the vector, and EmitDepth_ counts the emissions.
FramesPointAtEntries ==
  /\ emitDepth = Len(frames)
  /\ \A n \in 1..Len(frames) :
       /\ frames[n].pos \in 1..frames[n].end
       /\ frames[n].end <= Len(handlers)
       /\ handlers[frames[n].pos].id = frames[n].id

\* Removal by mark is invisible: Contains and Size see exactly the
\* connections handed out and not removed, each once, in subscription order,
\* and marked entries never outlive the outermost emission.
Bookkeeping ==
  /\ {handlers[k].id : k \in Kept(handlers)} = connected \ removed
  /\ \A j, k \in 1..Len(handlers) : j < k => handlers[j].id < handlers[k].id
  /\ frames = <<>> => Len(handlers) = Cardinality(Kept(handlers))

\* Iteration stays stable (docs/reference/library.md), whatever callbacks do.
StableIteration == FramesPointAtEntries /\ Bookkeeping

\* The vector frees a buffer under a running emission only when it outgrows
\* the first one: an event with at most FirstCapacity entries is safe.
UseAfterFreeNeedsRegrowth == undefined => capacity > FirstCapacity

Starts(i) ==
  /\ frames' # <<>>
  /\ frames'[Len(frames')].id = i
  /\ \/ Len(frames') > Len(frames)
     \/ /\ Len(frames') = Len(frames)
        /\ frames'[Len(frames')].pos # Current.pos

\* No handler is called after its Disconnect, DisconnectAll or, for a
\* one-shot, after a call of it returned.
NoCallAfterRemoval == [][\A i \in removed' : ~Starts(i)]_vars

\* A one-shot handler is called again only while an earlier call of it is
\* still running: it emitted its own event.
OnceUnlessReentered ==
  [][\A i \in onceIds :
       Starts(i) /\ calls[i] > 0 => \E n \in 1..Len(frames) : frames[n].id = i]_vars

\* A BasicEvent emission ends only after it called every handler that was
\* callable when it began and has been since.
EveryHandlerReached ==
  [][class = "BasicEvent" /\ Len(frames') < Len(frames) => Current.owed = {}]_vars
=============================================================================
