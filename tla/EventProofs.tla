---------------------------- MODULE EventProofs ----------------------------
(***************************************************************************)
(* Proofs about the events, for any number of connections, nesting and     *)
(* capacity.  The invariant has three parts: what the vector holds against *)
(* what clients were told, what a running emission may rely on in it, and  *)
(* what becomes of the one-shot handlers that have been called.            *)
(***************************************************************************)
EXTENDS Event, FiniteSetTheorems, SequenceTheorems, TLAPS

Sorted(s) == \A j, k \in 1..Len(s) : j < k => s[j].id < s[k].id

KeptIds(s) == {s[k].id : k \in Kept(s)}

\* The vector s holds, in order, the connections that are not in gone, and
\* behind the marks some that are.
Holds(s, gone) ==
  /\ s \in Seq(Entries)
  /\ capacity \in Nat /\ Len(s) <= capacity
  /\ Sorted(s)
  /\ KeptIds(s) = connected \ gone
  /\ \A k \in 1..Len(s) : /\ s[k].id \in connected
                          /\ s[k].once <=> s[k].id \in onceIds

\* Emission f has its end inside the vector s, in a buffer that is the present
\* one or a smaller one, and the handlers it owes a call are ahead of it.
Fits(f, s) ==
  /\ f \in Frames
  /\ f.end <= Len(s)
  /\ FirstCapacity <= f.buffer /\ f.buffer <= capacity
  /\ class = "BasicEvent" =>
       \A i \in f.owed : \E k \in Ahead(s, f) : s[k].id = i

\* It is in the callback of the entry at its position.
Runs(f, s) == Fits(f, s) /\ f.pos \in 1..f.end /\ s[f.pos].id = f.id

AllRun(stack, s) ==
  stack \in Seq(Frames) /\ \A n \in 1..Len(stack) : Runs(stack[n], s)

Numbers ==
  /\ class \in Classes
  /\ capacity \in Nat /\ (capacity = 0 \/ FirstCapacity <= capacity)
  /\ nextId \in 1..(MaxConnections + 1)
  /\ undefined \in BOOLEAN
  /\ connected \in SUBSET Ids /\ \A i \in connected : i < nextId
  /\ onceIds \subseteq connected /\ removed \subseteq connected
  /\ calls \in [Ids -> 0..2]

\* A one-shot that has been called is used up, or its call still runs.
Spent ==
  /\ \A i \in Ids : i >= nextId => calls[i] = 0
  /\ \A i \in onceIds : calls[i] > 0 =>
       i \in removed \/ \E n \in 1..Len(frames) : frames[n].id = i

IInv ==
  /\ Numbers
  /\ Holds(handlers, removed)
  /\ AllRun(frames, handlers)
  /\ emitDepth = Len(frames)
  /\ frames = <<>> => \A k \in 1..Len(handlers) : ~handlers[k].pending
  /\ Spent
  /\ UseAfterFreeNeedsRegrowth
-----------------------------------------------------------------------------
(* The vector.                                                             *)

LEMMA EntryFacts ==
  ASSUME NEW s \in Seq(Entries)
  PROVE  /\ Len(s) \in Nat
         /\ \A k \in 1..Len(s) :
              /\ s[k] \in Entries
              /\ s[k].id \in Ids /\ s[k].id \in Nat
              /\ s[k].once \in BOOLEAN /\ s[k].enabled \in BOOLEAN /\ s[k].pending \in BOOLEAN
<1>1. Len(s) \in Nat /\ \A k \in 1..Len(s) : s[k] \in Entries
  BY ElementOfSeq, LenProperties
<1>2. Ids \subseteq Nat
  BY EventAssumption DEF Ids
<1>. QED
  BY <1>1, <1>2 DEF Entries

\* No identifier is there twice.
LEMMA SortedIsUnique ==
  ASSUME NEW s \in Seq(Entries), Sorted(s),
         NEW j \in 1..Len(s), NEW k \in 1..Len(s), s[j].id = s[k].id
  PROVE  j = k
  BY EntryFacts DEF Sorted

LEMMA MarkKeeps ==
  ASSUME NEW s, NEW gone, Holds(s, gone), NEW k \in 1..Len(s)
  PROVE  LET t == [s EXCEPT ![k] = MarkedRemoved(@)]
         IN /\ Holds(t, gone \cup {s[k].id})
            /\ Len(t) = Len(s)
            /\ \A j \in 1..Len(s) : t[j].id = s[j].id
            /\ \A j \in 1..Len(s) : j # k => t[j] = s[j]
<1> DEFINE t == [s EXCEPT ![k] = MarkedRemoved(@)]
<1>1. s \in Seq(Entries) /\ Sorted(s)
  BY DEF Holds
<1>2. MarkedRemoved(s[k]) \in Entries /\ MarkedRemoved(s[k]).id = s[k].id
      /\ MarkedRemoved(s[k]).once = s[k].once /\ MarkedRemoved(s[k]).pending = TRUE
  BY <1>1, EntryFacts DEF MarkedRemoved, Entries
<1>3. /\ t \in Seq(Entries) /\ Len(t) = Len(s)
      /\ \A j \in 1..Len(s) : t[j] = IF j = k THEN MarkedRemoved(s[k]) ELSE s[j]
  BY <1>1, <1>2, ExceptSeq
<1> HIDE DEF t
<1>4. \A j \in 1..Len(s) : t[j].id = s[j].id /\ (t[j].once <=> s[j].once)
  BY <1>2, <1>3
<1>5. Kept(t) = Kept(s) \ {k}
  BY <1>2, <1>3 DEF Kept
<1>6. KeptIds(t) = KeptIds(s) \ {s[k].id}
  <2>1. \A j \in Kept(s) : j # k => s[j].id # s[k].id
    BY <1>1, SortedIsUnique DEF Kept
  <2>2. \A j \in Kept(t) : t[j].id = s[j].id
    BY <1>3, <1>4 DEF Kept
  <2>. QED
    BY <1>5, <2>1, <2>2 DEF KeptIds
<1>7. Holds(t, gone \cup {s[k].id})
  BY <1>3, <1>4, <1>6 DEF Holds, Sorted
<1>. QED
  BY <1>3, <1>4, <1>7 DEF t

\* What a callback's return does to its entry.
LEMMA UsedUpKeeps ==
  ASSUME NEW s, NEW gone, Holds(s, gone), NEW k \in 1..Len(s)
  PROVE  LET t == UsedUp(s, k)
         IN /\ Holds(t, gone \cup (IF s[k].once THEN {s[k].id} ELSE {}))
            /\ Len(t) = Len(s)
            /\ \A j \in 1..Len(s) : t[j].id = s[j].id
            /\ \A j \in 1..Len(s) : j # k => t[j] = s[j]
<1> DEFINE u == [s EXCEPT ![k] = MarkedRemoved(@)]
<1>1. /\ Holds(u, gone \cup {s[k].id})
      /\ Len(u) = Len(s)
      /\ \A j \in 1..Len(s) : u[j].id = s[j].id
      /\ \A j \in 1..Len(s) : j # k => u[j] = s[j]
  BY MarkKeeps
<1>2. UsedUp(s, k) = IF s[k].once THEN u ELSE s
  BY DEF UsedUp
<1> HIDE DEF u
<1>3. CASE s[k].once
  BY <1>1, <1>2, <1>3
<1>4. CASE ~s[k].once
  <2>1. gone \cup {} = gone
    OBVIOUS
  <2>. QED
    BY <1>2, <1>4, <2>1
<1>. QED
  BY <1>3, <1>4

\* DisconnectAll during an emission: every entry is marked.
LEMMA MarkAllKeeps ==
  ASSUME NEW s, NEW gone, Holds(s, gone)
  PROVE  LET t == [k \in 1..Len(s) |-> MarkedRemoved(s[k])]
         IN /\ Holds(t, connected)
            /\ Len(t) = Len(s)
            /\ \A j \in 1..Len(s) : t[j].id = s[j].id
<1> DEFINE t == [k \in 1..Len(s) |-> MarkedRemoved(s[k])]
<1>1. s \in Seq(Entries) /\ Sorted(s)
  BY DEF Holds
<1>2. \A k \in 1..Len(s) :
        /\ MarkedRemoved(s[k]) \in Entries /\ MarkedRemoved(s[k]).id = s[k].id
        /\ MarkedRemoved(s[k]).once = s[k].once /\ MarkedRemoved(s[k]).pending = TRUE
  BY <1>1, EntryFacts DEF MarkedRemoved, Entries
<1>3. /\ Len(s) \in Nat
      /\ t \in [1..Len(s) -> Entries]
      /\ \A j \in 1..Len(s) : t[j] = MarkedRemoved(s[j])
  BY <1>1, <1>2, EntryFacts
<1> HIDE DEF t
<1>4. t \in Seq(Entries) /\ Len(t) = Len(s)
  BY <1>3, LenProperties, SeqDef
<1>5. KeptIds(t) = {}
  BY <1>2, <1>3, <1>4 DEF KeptIds, Kept
<1>6. \A j \in 1..Len(s) : t[j].id = s[j].id /\ (t[j].once <=> s[j].once)
  BY <1>2, <1>3
<1>7. Holds(t, connected)
  BY <1>4, <1>5, <1>6 DEF Holds, Sorted
<1>. QED
  BY <1>4, <1>6, <1>7 DEF t

\* Disconnect at rest: the entry goes and the others keep their order.
LEMMA EraseKeeps ==
  ASSUME NEW s, NEW gone, Holds(s, gone), NEW k \in 1..Len(s),
         \A j \in 1..Len(s) : ~s[j].pending
  PROVE  LET t == Erase(s, k)
         IN /\ Holds(t, gone \cup {s[k].id})
            /\ \A j \in 1..Len(t) : ~t[j].pending
<1> DEFINE t == Erase(s, k)
           at(n) == IF n < k THEN n ELSE n + 1
<1>1. s \in Seq(Entries) /\ Sorted(s) /\ Len(s) \in Nat
  BY EntryFacts DEF Holds
<1>2. \A n \in 1..(Len(s) - 1) : at(n) \in 1..Len(s) /\ at(n) # k
  BY <1>1
<1>3. \A j \in 1..Len(s) : j # k => \E n \in 1..(Len(s) - 1) : at(n) = j
  <2>. SUFFICES ASSUME NEW j \in 1..Len(s), j # k
                PROVE  \E n \in 1..(Len(s) - 1) : at(n) = j
    OBVIOUS
  <2>1. CASE j < k
    BY <1>1, <2>1
  <2>2. CASE k < j
    <3>1. j - 1 \in 1..(Len(s) - 1) /\ at(j - 1) = j
      BY <1>1, <2>2
    <3>. QED
      BY <3>1
  <2>. QED
    BY <2>1, <2>2
<1>4. /\ t \in [1..(Len(s) - 1) -> Entries]
      /\ \A n \in 1..(Len(s) - 1) : t[n] = s[at(n)]
  <2>1. \A n \in 1..(Len(s) - 1) : s[at(n)] \in Entries
    BY <1>1, <1>2, EntryFacts
  <2>. QED
    BY <2>1 DEF Erase
<1>5. Len(s) - 1 \in Nat
  BY <1>1
<1>6. t \in Seq(Entries) /\ Len(t) = Len(s) - 1
  <2>. HIDE DEF t
  <2>. QED
    BY <1>4, <1>5, LenProperties, SeqDef
<1>7. Sorted(t)
  <2>1. \A m, n \in 1..(Len(s) - 1) : m < n => at(m) < at(n)
    BY <1>1
  <2>. HIDE DEF at, t
  <2>. QED
    BY <1>1, <1>2, <1>4, <1>6, <2>1 DEF Sorted
<1> HIDE DEF t, at
<1>8. KeptIds(t) = KeptIds(s) \ {s[k].id}
  <2>1. Kept(s) = 1..Len(s) /\ Kept(t) = 1..(Len(s) - 1)
    BY <1>2, <1>4, <1>6 DEF Kept
  <2>2. \A j \in 1..Len(s) : j # k => s[j].id # s[k].id
    BY <1>1, SortedIsUnique
  <2>3. KeptIds(t) \subseteq KeptIds(s) \ {s[k].id}
    BY <1>2, <1>4, <2>1, <2>2 DEF KeptIds
  <2>4. KeptIds(s) \ {s[k].id} \subseteq KeptIds(t)
    BY <1>3, <1>4, <2>1, <2>2 DEF KeptIds
  <2>. QED
    BY <2>3, <2>4
<1>9. Holds(t, gone \cup {s[k].id})
  <2>1. Len(t) <= capacity
    BY <1>1, <1>6 DEF Holds
  <2>2. \A n \in 1..Len(t) : t[n].id \in connected /\ (t[n].once <=> t[n].id \in onceIds)
    BY <1>2, <1>4, <1>6 DEF Holds
  <2>. QED
    BY <1>6, <1>7, <1>8, <2>1, <2>2 DEF Holds
<1>. QED
  BY <1>2, <1>4, <1>6, <1>9 DEF t

\* What Compact leaves is what was kept, in the same order.
LEMMA CompactionKeeps ==
  ASSUME NEW s, NEW gone, Holds(s, gone), NEW t \in Compactions(s)
  PROVE  /\ Holds(t, gone)
         /\ \A k \in 1..Len(t) : ~t[k].pending
<1>1. s \in Seq(Entries) /\ Sorted(s) /\ Len(s) \in Nat
      /\ \A k \in 1..Len(s) : s[k] \in Entries
  BY EntryFacts DEF Holds
<1>2. PICK f \in [1..Cardinality(Kept(s)) -> Kept(s)] :
        /\ \A a, b \in DOMAIN f : a < b => f[a] < f[b]
        /\ \A k \in Kept(s) : \E a \in DOMAIN f : f[a] = k
        /\ t = [n \in DOMAIN f |-> s[f[n]]]
  BY DEF Compactions
<1> DEFINE n == Cardinality(Kept(s))
<1>3. n \in Nat /\ n <= Len(s)
  <2>1. IsFiniteSet(1..Len(s)) /\ Cardinality(1..Len(s)) = Len(s)
    <3>1. Len(s) \in Int /\ 1 \in Int
      BY <1>1
    <3>2. /\ IsFiniteSet(1..Len(s))
          /\ Cardinality(1..Len(s)) = IF 1 > Len(s) THEN 0 ELSE Len(s) - 1 + 1
      BY <3>1, FS_Interval
    <3>. QED
      BY <1>1, <3>2
  <2>2. Kept(s) \subseteq 1..Len(s)
    BY DEF Kept
  <2>3. IsFiniteSet(Kept(s)) /\ n <= Cardinality(1..Len(s))
    BY <2>1, <2>2, FS_Subset
  <2>. QED
    BY <2>1, <2>3, FS_CardinalityType
<1> HIDE DEF n
<1>4. /\ f \in [1..n -> Kept(s)]
      /\ \A a, b \in 1..n : a < b => f[a] < f[b]
      /\ \A k \in Kept(s) : \E a \in 1..n : f[a] = k
      /\ t = [a \in 1..n |-> s[f[a]]]
  BY <1>2 DEF n
<1>5. \A a \in 1..n : f[a] \in 1..Len(s) /\ f[a] \in Kept(s) /\ ~s[f[a]].pending /\ t[a] = s[f[a]]
  BY <1>4 DEF Kept
<1>6. t \in Seq(Entries) /\ Len(t) = n
  <2>1. t \in [1..n -> Entries]
    BY <1>1, <1>4, <1>5
  <2>. QED
    BY <1>3, <2>1, LenProperties, SeqDef
<1>7. Kept(t) = 1..n
  BY <1>5, <1>6 DEF Kept
<1>8. KeptIds(t) = KeptIds(s)
  <2>1. KeptIds(t) \subseteq KeptIds(s)
    BY <1>5, <1>7 DEF KeptIds
  <2>2. ASSUME NEW i \in KeptIds(s) PROVE i \in KeptIds(t)
    <3>1. PICK k \in Kept(s) : s[k].id = i
      BY DEF KeptIds
    <3>2. PICK a \in 1..n : f[a] = k
      BY <1>4
    <3>3. t[a].id = i
      BY <1>5, <3>1, <3>2
    <3>. QED
      BY <1>7, <3>3 DEF KeptIds
  <2>. QED
    BY <2>1, <2>2
<1>9. Sorted(t)
  BY <1>1, <1>4, <1>5, <1>6 DEF Sorted
<1>10. Holds(t, gone)
  <2>1. capacity \in Nat /\ Len(t) <= capacity
    BY <1>1, <1>3, <1>6 DEF Holds
  <2>2. \A k \in 1..Len(t) : t[k].id \in connected /\ (t[k].once <=> t[k].id \in onceIds)
    BY <1>5, <1>6 DEF Holds
  <2>. QED
    BY <1>6, <1>8, <1>9, <2>1, <2>2 DEF Holds
<1>. QED
  BY <1>5, <1>6, <1>10
-----------------------------------------------------------------------------
(* The running emissions.                                                  *)

\* s became t, with every entry where it was, and what can no longer be
\* called is excused.
Calm(s, t, S) ==
  /\ Len(t) = Len(s)
  /\ \A k \in 1..Len(s) : t[k].id = s[k].id
  /\ \A k \in 1..Len(s) : Callable(s[k]) /\ s[k].id \notin S => Callable(t[k])

LEMMA FitsCalm ==
  ASSUME NEW s, Len(s) \in Nat, NEW f, Fits(f, s), NEW t, NEW S, Calm(s, t, S)
  PROVE  LET g == [f EXCEPT !.owed = @ \ S]
         IN Fits(g, t) /\ (Runs(f, s) => Runs(g, t))
<1> DEFINE g == [f EXCEPT !.owed = @ \ S]
<1>1. /\ f \in Frames /\ f.end \in Nat /\ f.pos \in Nat
      /\ g \in Frames
      /\ g.end = f.end /\ g.pos = f.pos /\ g.buffer = f.buffer /\ g.id = f.id
      /\ g.owed = f.owed \ S
  BY DEF Fits, Frames
<1> HIDE DEF g
<1>2. ASSUME class = "BasicEvent", NEW i \in g.owed
      PROVE  \E k \in Ahead(t, g) : t[k].id = i
  <2>1. i \in f.owed /\ i \notin S
    BY <1>1, <1>2
  <2>2. PICK k \in Ahead(s, f) : s[k].id = i
    BY <1>2, <2>1 DEF Fits
  <2>3. k \in (f.pos + 1)..f.end /\ Callable(s[k]) /\ k \in 1..Len(s)
    BY <1>1, <2>2 DEF Fits, Ahead
  <2>4. k \in Ahead(t, g) /\ t[k].id = i
    BY <1>1, <2>1, <2>2, <2>3 DEF Calm, Ahead
  <2>. QED
    BY <2>4
<1>3. Fits(g, t)
  BY <1>1, <1>2 DEF Fits, Calm
<1>4. ASSUME Runs(f, s) PROVE Runs(g, t)
  BY <1>1, <1>3, <1>4 DEF Runs, Calm, Fits
<1>. QED
  BY <1>3, <1>4 DEF g

LEMMA AllRunCalm ==
  ASSUME NEW s, Len(s) \in Nat, NEW stack, AllRun(stack, s), NEW t, NEW S, Calm(s, t, S)
  PROVE  AllRun(Excuse(S, stack), t) /\ Len(Excuse(S, stack)) = Len(stack)
<1>1. stack \in Seq(Frames) /\ Len(stack) \in Nat /\ DOMAIN stack = 1..Len(stack)
  BY LenProperties DEF AllRun
<1> DEFINE g(n) == [stack[n] EXCEPT !.owed = @ \ S]
<1>2. ASSUME NEW n \in 1..Len(stack) PROVE Runs(g(n), t)
  <2>1. Runs(stack[n], s) /\ Fits(stack[n], s)
    BY DEF AllRun, Runs
  <2>. QED
    BY <2>1, FitsCalm
<1>3. \A n \in 1..Len(stack) : g(n) \in Frames
  BY <1>2 DEF Runs, Fits
<1>4. Excuse(S, stack) = [n \in 1..Len(stack) |-> g(n)]
  BY <1>1 DEF Excuse
<1> HIDE DEF g
<1>5. Excuse(S, stack) \in Seq(Frames) /\ Len(Excuse(S, stack)) = Len(stack)
  <2>1. Excuse(S, stack) \in [1..Len(stack) -> Frames]
    BY <1>3, <1>4
  <2>. QED
    BY <1>1, <2>1, LenProperties, SeqDef
<1>. QED
  BY <1>2, <1>4, <1>5 DEF AllRun

\* The loop goes on from s, where everything fits, to its next callback.
LEMMA CallNextKeeps ==
  ASSUME NEW s, NEW f, NEW below, NEW depth, NEW gone,
         Numbers, Holds(s, gone), Fits(f, s), AllRun(below, s),
         depth = Len(below) + 1, gone \subseteq connected,
         \A i \in Ids : i >= nextId => calls[i] = 0,
         \A i \in onceIds : calls[i] > 0 =>
           i \in gone \/ \E n \in 1..Len(below) : below[n].id = i,
         removed' = gone, CallNext(s, f, below, depth),
         UNCHANGED <<class, capacity, nextId, undefined, connected, onceIds>>
  PROVE  /\ Numbers' /\ Holds(handlers, removed)' /\ AllRun(frames, handlers)'
         /\ (emitDepth = Len(frames))' /\ frames' # <<>> /\ Spent'
         /\ Len(frames') = Len(below) + 1
         /\ frames'[Len(frames')].id \notin gone
<1>1. PICK k \in Ahead(s, f) :
        /\ \A j \in Ahead(s, f) : k <= j
        /\ handlers' = s
        /\ emitDepth' = depth
        /\ frames' = Append(below, [f EXCEPT !.pos = k, !.id = s[k].id,
                                             !.owed = @ \ {s[k].id}])
        /\ calls' = [calls EXCEPT ![s[k].id] = IF @ < 2 THEN @ + 1 ELSE @]
  BY DEF CallNext
<1> DEFINE g == [f EXCEPT !.pos = k, !.id = s[k].id, !.owed = @ \ {s[k].id}]
<1>2. s \in Seq(Entries) /\ Len(s) \in Nat /\ Sorted(s)
  BY EntryFacts DEF Holds
<1>3. /\ f \in Frames /\ f.pos \in Nat /\ f.end \in Nat /\ f.end <= Len(s)
      /\ k \in (f.pos + 1)..f.end /\ Callable(s[k]) /\ k \in 1..Len(s) /\ k \in Nat
  BY <1>1, <1>2 DEF Fits, Frames, Ahead
<1>4. s[k] \in Entries /\ s[k].id \in Ids /\ s[k].id \in Nat
  BY <1>2, <1>3, EntryFacts
<1>5. s[k].id \in connected /\ s[k].id \notin gone
  <2>1. k \in Kept(s)
    BY <1>3 DEF Kept, Callable
  <2>. QED
    BY <2>1 DEF Holds, KeptIds
<1>6. /\ g \in Frames
      /\ g.pos = k /\ g.id = s[k].id /\ g.owed = f.owed \ {s[k].id}
      /\ g.end = f.end /\ g.buffer = f.buffer
  BY <1>3, <1>4 DEF Frames
<1> HIDE DEF g
<1>7. ASSUME class = "BasicEvent", NEW i \in g.owed
      PROVE  \E j \in Ahead(s, g) : s[j].id = i
  <2>1. i \in f.owed /\ i # s[k].id
    BY <1>6, <1>7
  <2>2. PICK j \in Ahead(s, f) : s[j].id = i
    BY <1>7, <2>1 DEF Fits
  <2>3. k <= j /\ j # k /\ j \in (f.pos + 1)..f.end /\ Callable(s[j])
    BY <1>1, <2>1, <2>2 DEF Ahead
  <2>4. j \in Ahead(s, g)
    BY <1>3, <1>6, <2>3 DEF Ahead
  <2>. QED
    BY <2>2, <2>4
<1>8. Runs(g, s)
  BY <1>3, <1>6, <1>7 DEF Runs, Fits
<1>9. below \in Seq(Frames) /\ Len(below) \in Nat
  BY LenProperties DEF AllRun
<1>10. /\ frames' \in Seq(Frames) /\ Len(frames') = Len(below) + 1
       /\ frames'[Len(below) + 1] = g
       /\ \A n \in 1..Len(below) : frames'[n] = below[n]
  BY <1>1, <1>6, <1>9, AppendProperties DEF g
<1>11. \A n \in 1..Len(frames') : Runs(frames'[n], s)
  BY <1>8, <1>9, <1>10 DEF AllRun
<1>12. AllRun(frames, handlers)'
  BY <1>1, <1>10, <1>11 DEF AllRun, Runs, Fits, Ahead
<1>13. Holds(handlers, removed)'
  BY <1>1 DEF Holds, Sorted, KeptIds, Kept
<1>14. Numbers'
  <2>1. calls' \in [Ids -> 0..2]
    BY <1>1, <1>4 DEF Numbers
  <2>. QED
    BY <2>1 DEF Numbers
<1>15. Spent'
  <2>1. \A i \in Ids : i # s[k].id => calls'[i] = calls[i]
    BY <1>1, <1>4 DEF Numbers
  <2>2. \A i \in Ids : i >= nextId => calls'[i] = 0
    BY <1>5, <2>1 DEF Numbers
  <2>3. \A i \in onceIds : calls'[i] > 0 =>
          i \in gone \/ \E n \in 1..Len(frames') : frames'[n].id = i
    <3>. SUFFICES ASSUME NEW i \in onceIds, calls'[i] > 0, i \notin gone
                  PROVE  \E n \in 1..Len(frames') : frames'[n].id = i
      OBVIOUS
    <3>1. CASE i = s[k].id
      BY <1>6, <1>9, <1>10, <3>1
    <3>2. CASE i # s[k].id
      <4>1. i \in Ids /\ calls[i] > 0
        BY <2>1, <3>2 DEF Numbers
      <4>2. PICK n \in 1..Len(below) : below[n].id = i
        BY <4>1
      <4>. QED
        BY <1>9, <1>10, <4>2
    <3>. QED
      BY <3>1, <3>2
  <2>. QED
    BY <2>2, <2>3 DEF Spent
<1>. QED
  BY <1>1, <1>5, <1>6, <1>9, <1>10, <1>12, <1>13, <1>14, <1>15

\* The emission ends, and the outermost one compacts.
LEMMA FinishKeeps ==
  ASSUME NEW s, NEW below, NEW depth, NEW gone,
         Numbers, Holds(s, gone), AllRun(below, s),
         depth = Len(below) + 1, gone \subseteq connected,
         \A i \in Ids : i >= nextId => calls[i] = 0,
         \A i \in onceIds : calls[i] > 0 =>
           i \in gone \/ \E n \in 1..Len(below) : below[n].id = i,
         removed' = gone, Finish(s, below, depth),
         UNCHANGED <<class, capacity, nextId, undefined, connected, onceIds>>
  PROVE  /\ Numbers' /\ Holds(handlers, removed)' /\ AllRun(frames, handlers)'
         /\ (emitDepth = Len(frames))' /\ Spent' /\ frames' = below
         /\ (frames = <<>> => \A k \in 1..Len(handlers) : ~handlers[k].pending)'
<1>1. below \in Seq(Frames) /\ Len(below) \in Nat /\ (below = <<>> <=> Len(below) = 0)
  BY LenProperties, EmptySeq DEF AllRun
<1>2. emitDepth' = Len(below) /\ frames' = below /\ calls' = calls
  BY <1>1 DEF Finish
<1>3. Numbers' /\ Spent'
  BY <1>2 DEF Numbers, Spent
<1>4. CASE below = <<>>
  <2>1. handlers' \in Compactions(s)
    BY <1>1, <1>4 DEF Finish
  <2>2. Holds(handlers', gone) /\ \A k \in 1..Len(handlers') : ~handlers'[k].pending
    BY <2>1, CompactionKeeps
  <2>3. Holds(handlers, removed)'
    BY <2>2 DEF Holds, Sorted, KeptIds, Kept
  <2>4. AllRun(frames, handlers)'
    BY <1>1, <1>2, <1>4 DEF AllRun
  <2>. QED
    BY <1>1, <1>2, <1>3, <2>2, <2>3, <2>4
<1>5. CASE below # <<>>
  <2>1. handlers' = s
    BY <1>1, <1>5 DEF Finish
  <2>2. Holds(handlers, removed)'
    BY <2>1 DEF Holds, Sorted, KeptIds, Kept
  <2>3. AllRun(frames, handlers)'
    BY <1>2, <2>1 DEF AllRun, Runs, Fits, Ahead
  <2>. QED
    BY <1>2, <1>3, <1>5, <2>2, <2>3
<1>. QED
  BY <1>4, <1>5
-----------------------------------------------------------------------------
(* The steps.                                                              *)

\* What the invariant says of the numbers and of the stack.
LEMMA StateFacts ==
  ASSUME IInv
  PROVE  /\ handlers \in Seq(Entries) /\ Len(handlers) \in Nat
         /\ frames \in Seq(Frames) /\ Len(frames) \in Nat
         /\ frames = <<>> <=> Len(frames) = 0
         /\ capacity \in Nat /\ nextId \in Nat /\ FirstCapacity \in Nat
<1>1. handlers \in Seq(Entries) /\ frames \in Seq(Frames) /\ capacity \in Nat
      /\ nextId \in 1..(MaxConnections + 1)
  BY DEF IInv, Holds, AllRun, Numbers
<1>. QED
  BY <1>1, LenProperties, EmptySeq, EventAssumption

\* Connect, whose PushBack may move the entries to a larger buffer.
LEMMA ConnectKeeps ==
  ASSUME IInv, NEW once \in BOOLEAN, Connect(once)
  PROVE  IInv'
<1>1. /\ ~undefined /\ nextId <= MaxConnections /\ nextId' = nextId + 1
      /\ UNCHANGED <<class, emitDepth, frames, undefined, removed, calls>>
  BY DEF Connect, NewConnection
<1>2. nextId \in Ids /\ nextId \notin connected /\ nextId' \in 1..(MaxConnections + 1)
  BY <1>1, StateFacts, EventAssumption DEF IInv, Numbers, Ids
<1>3. CASE UNCHANGED <<handlers, capacity, connected, onceIds>>
  <2>1. Numbers'
    BY <1>1, <1>2, <1>3, StateFacts DEF IInv, Numbers
  <2>2. Holds(handlers, removed)' /\ AllRun(frames, handlers)'
    BY <1>1, <1>3 DEF IInv, Holds, Sorted, KeptIds, Kept, AllRun, Runs, Fits, Ahead
  <2>3. Spent'
    <3>1. \A i \in Ids : i >= nextId' => i >= nextId
      BY <1>1, StateFacts, EventAssumption DEF Ids
    <3>. QED
      BY <1>1, <1>3, <3>1 DEF IInv, Spent
  <2>. QED
    BY <1>1, <1>3, <2>1, <2>2, <2>3 DEF IInv, UseAfterFreeNeedsRegrowth
<1>4. CASE /\ PushBack([id |-> nextId, once |-> once, enabled |-> TRUE, pending |-> FALSE])
           /\ connected' = connected \cup {nextId}
           /\ onceIds' = IF once THEN onceIds \cup {nextId} ELSE onceIds
  <2> DEFINE e == [id |-> nextId, once |-> once, enabled |-> TRUE, pending |-> FALSE]
  <2>1. handlers' = Append(handlers, e) /\ e \in Entries
    BY <1>2, <1>4 DEF PushBack, Entries
  <2>2. /\ capacity' \in Nat /\ capacity <= capacity' /\ FirstCapacity <= capacity'
        /\ Len(handlers) + 1 <= capacity'
    <3>1. Len(handlers) <= capacity /\ (capacity = 0 \/ FirstCapacity <= capacity)
      BY DEF IInv, Holds, Numbers
    <3>2. CASE Len(handlers) < capacity /\ capacity' = capacity
      BY <3>1, <3>2, StateFacts
    <3>3. CASE /\ Len(handlers) = capacity
               /\ capacity' = IF capacity = 0 THEN FirstCapacity ELSE 2 * capacity
      BY <3>1, <3>3, StateFacts, EventAssumption
    <3>. QED
      BY <1>4, <3>2, <3>3 DEF PushBack
  <2>3. /\ handlers' \in Seq(Entries) /\ Len(handlers') = Len(handlers) + 1
        /\ handlers'[Len(handlers) + 1] = e
        /\ \A k \in 1..Len(handlers) : handlers'[k] = handlers[k]
    BY <2>1, StateFacts, AppendProperties
  <2>4. e.id = nextId /\ e.once = once /\ ~e.pending
    OBVIOUS
  <2> HIDE DEF e
  <2>5. /\ \A k \in 1..Len(handlers) : handlers[k].id \in connected
        /\ \A k \in 1..Len(handlers) : handlers[k].once <=> handlers[k].id \in onceIds
        /\ \A i \in connected : i < nextId
        /\ onceIds \subseteq connected /\ removed \subseteq connected
    BY DEF IInv, Holds, Numbers
  <2>6. Sorted(handlers')
    <3>. SUFFICES ASSUME NEW j \in 1..Len(handlers'), NEW k \in 1..Len(handlers'), j < k
                  PROVE  handlers'[j].id < handlers'[k].id
      BY DEF Sorted
    <3>1. j \in 1..Len(handlers) /\ (k \in 1..Len(handlers) \/ k = Len(handlers) + 1)
      BY <2>3, StateFacts
    <3>2. CASE k \in 1..Len(handlers)
      <4>1. handlers[j].id < handlers[k].id
        BY <3>1, <3>2 DEF IInv, Holds, Sorted
      <4>. QED
        BY <2>3, <3>1, <3>2, <4>1
    <3>3. CASE k = Len(handlers) + 1
      <4>1. handlers[j].id < nextId
        BY <2>5, <3>1
      <4>. QED
        BY <2>3, <2>4, <3>1, <3>3, <4>1
    <3>. QED
      BY <3>1, <3>2, <3>3
  <2>7. KeptIds(handlers') = connected' \ removed'
    <3>1. Kept(handlers') = Kept(handlers) \cup {Len(handlers) + 1}
      BY <2>3, <2>4, StateFacts DEF Kept
    <3>2. \A k \in Kept(handlers) : handlers'[k] = handlers[k]
      BY <2>3 DEF Kept
    <3>3. KeptIds(handlers') = KeptIds(handlers) \cup {nextId}
      BY <2>3, <2>4, <3>1, <3>2 DEF KeptIds
    <3>4. KeptIds(handlers) = connected \ removed /\ nextId \notin removed
      BY <1>2, <2>5 DEF IInv, Holds
    <3>. QED
      BY <1>1, <1>4, <3>3, <3>4
  <2>8. \A k \in 1..Len(handlers') : /\ handlers'[k].id \in connected'
                                     /\ handlers'[k].once <=> handlers'[k].id \in onceIds'
    <3>. SUFFICES ASSUME NEW k \in 1..Len(handlers')
                  PROVE  /\ handlers'[k].id \in connected'
                         /\ handlers'[k].once <=> handlers'[k].id \in onceIds'
      OBVIOUS
    <3>1. CASE k \in 1..Len(handlers)
      <4>1. handlers'[k] = handlers[k] /\ handlers[k].id # nextId
        BY <1>2, <2>3, <2>5, <3>1
      <4>. QED
        BY <1>4, <2>5, <3>1, <4>1
    <3>2. CASE k = Len(handlers) + 1
      <4>1. nextId \notin onceIds
        BY <1>2, <2>5
      <4>. QED
        BY <1>4, <2>3, <2>4, <3>2, <4>1
    <3>. QED
      BY <2>3, <3>1, <3>2, StateFacts
  <2>9. Holds(handlers, removed)'
    <3>1. Len(handlers') <= capacity'
      BY <2>2, <2>3
    <3>. QED
      BY <2>2, <2>3, <2>6, <2>7, <2>8, <3>1 DEF Holds, Sorted, KeptIds, Kept
  <2>10. AllRun(frames, handlers)'
    <3>1. ASSUME NEW n \in 1..Len(frames) PROVE Runs(frames[n], handlers)'
      <4>1. /\ Runs(frames[n], handlers) /\ frames[n].end \in Nat /\ frames[n].pos \in Nat
            /\ frames[n].end <= Len(handlers) /\ frames[n].buffer \in Nat
        BY DEF IInv, AllRun, Runs, Fits, Frames
      <4>2. ASSUME class = "BasicEvent", NEW i \in frames[n].owed
            PROVE  \E k \in Ahead(handlers', frames[n]) : handlers'[k].id = i
        <5>1. PICK k \in Ahead(handlers, frames[n]) : handlers[k].id = i
          BY <4>1, <4>2 DEF Runs, Fits
        <5>2. k \in 1..Len(handlers) /\ k \in (frames[n].pos + 1)..frames[n].end
              /\ Callable(handlers[k])
          BY <4>1, <5>1, StateFacts DEF Ahead
        <5>3. k \in Ahead(handlers', frames[n]) /\ handlers'[k].id = i
          BY <2>3, <5>1, <5>2 DEF Ahead
        <5>. QED
          BY <5>3
      <4>3. frames[n].pos \in 1..Len(handlers) /\ frames[n].pos \in 1..frames[n].end
        BY <4>1, StateFacts DEF Runs
      <4>4. frames[n].end <= Len(handlers')
        BY <2>3, <4>1, StateFacts
      <4>5. frames[n].buffer <= capacity'
        BY <2>2, <4>1, StateFacts DEF Runs, Fits
      <4>. QED
        BY <1>1, <2>3, <4>1, <4>2, <4>3, <4>4, <4>5 DEF Runs, Fits, Ahead
    <3>. QED
      BY <1>1, <3>1, StateFacts DEF AllRun
  <2>11. Numbers'
    <3>1. \A i \in connected' : i < nextId'
      BY <1>1, <1>4, <2>5, StateFacts, EventAssumption DEF IInv, Numbers, Ids
    <3>2. connected' \in SUBSET Ids /\ onceIds' \subseteq connected' /\ removed' \subseteq connected'
      BY <1>1, <1>2, <1>4, <2>5 DEF IInv, Numbers
    <3>. QED
      BY <1>1, <1>2, <2>2, <3>1, <3>2 DEF IInv, Numbers
  <2>12. Spent'
    <3>1. \A i \in Ids : i >= nextId' => i >= nextId
      BY <1>1, StateFacts, EventAssumption DEF Ids
    <3>2. calls[nextId] = 0
      BY <1>2, StateFacts DEF IInv, Spent
    <3>. QED
      BY <1>1, <1>4, <3>1, <3>2 DEF IInv, Spent
  <2>13. frames' = <<>> => \A k \in 1..Len(handlers') : ~handlers'[k].pending
    BY <1>1, <2>3, <2>4, StateFacts DEF IInv
  <2>. QED
    BY <1>1, <2>9, <2>10, <2>11, <2>12, <2>13 DEF IInv, UseAfterFreeNeedsRegrowth
<1>. QED
  BY <1>3, <1>4 DEF Connect

\* What an operation called from a callback leaves, when no entry moves.
LEMMA CalmKeeps ==
  ASSUME IInv, NEW S, NEW t, NEW gone, ~undefined,
         Holds(t, gone), Calm(handlers, t, S), removed \subseteq gone, gone \subseteq connected,
         frames = <<>> => \A k \in 1..Len(t) : ~t[k].pending,
         handlers' = t, removed' = gone, frames' = Excuse(S, frames),
         UNCHANGED <<class, capacity, nextId, emitDepth, undefined, connected, onceIds, calls>>
  PROVE  IInv'
<1>1. AllRun(Excuse(S, frames), t) /\ Len(Excuse(S, frames)) = Len(frames)
  BY AllRunCalm, StateFacts DEF IInv
<1>2. Len(frames') = Len(frames) /\ \A n \in 1..Len(frames) : frames'[n].id = frames[n].id
  <2>1. DOMAIN frames = 1..Len(frames)
    BY StateFacts, LenProperties
  <2>2. \A n \in 1..Len(frames) : frames[n] \in Frames
    BY DEF IInv, AllRun, Runs, Fits
  <2>. QED
    BY <1>1, <2>1, <2>2 DEF Excuse, Frames
<1>3. frames' = <<>> <=> Len(frames') = 0
  BY <1>1, EmptySeq DEF AllRun
<1>4. AllRun(frames, handlers)'
  BY <1>1 DEF AllRun, Runs, Fits, Ahead
<1>5. Holds(handlers, removed)'
  BY DEF Holds, Sorted, KeptIds, Kept
<1>6. Numbers'
  BY DEF IInv, Numbers
<1>7. Spent'
  BY <1>2 DEF IInv, Spent
<1>. QED
  BY <1>2, <1>3, <1>4, <1>5, <1>6, <1>7, StateFacts DEF IInv, UseAfterFreeNeedsRegrowth

\* Disconnect, which erases at rest and marks during an emission.
LEMMA DisconnectKeeps ==
  ASSUME IInv, Disconnect
  PROVE  IInv'
<1>1. PICK k \in 1..Len(handlers) :
        /\ DisconnectAtRest(k) \/ DisconnectInEmission(k)
        /\ removed' = removed \cup {handlers[k].id}
        /\ frames' = Excuse({handlers[k].id}, frames)
  BY DEF Disconnect
<1>2. /\ ~undefined
      /\ UNCHANGED <<class, capacity, nextId, emitDepth, undefined, connected, onceIds, calls>>
  BY DEF Disconnect
<1>3. Holds(handlers, removed) /\ removed \subseteq connected /\ handlers[k].id \in connected
  BY DEF IInv, Numbers, Holds
<1>4. CASE DisconnectAtRest(k)
  <2>1. frames = <<>> /\ emitDepth = 0 /\ handlers' = Erase(handlers, k)
    BY <1>4, StateFacts DEF DisconnectAtRest, IInv
  <2>2. /\ Holds(handlers', removed')
        /\ \A j \in 1..Len(handlers') : ~handlers'[j].pending
    <3>1. \A j \in 1..Len(handlers) : ~handlers[j].pending
      BY <2>1 DEF IInv
    <3>2. /\ Holds(Erase(handlers, k), removed \cup {handlers[k].id})
          /\ \A j \in 1..Len(Erase(handlers, k)) : ~Erase(handlers, k)[j].pending
      BY <1>3, <3>1, EraseKeeps
    <3>. QED
      BY <1>1, <2>1, <3>2
  <2>3. Holds(handlers, removed)'
    BY <1>2, <2>2 DEF Holds, Sorted, KeptIds, Kept
  <2>4. frames' = <<>>
    BY <1>1, <2>1 DEF Excuse
  <2>5. AllRun(frames, handlers)' /\ Len(frames') = 0
    BY <2>4, EmptySeq DEF AllRun
  <2>6. Numbers'
    BY <1>1, <1>2, <1>3 DEF IInv, Numbers
  <2>7. Spent'
    BY <1>1, <1>2, <2>1, StateFacts DEF IInv, Spent
  <2>. QED
    BY <1>2, <2>1, <2>2, <2>3, <2>5, <2>6, <2>7 DEF IInv, UseAfterFreeNeedsRegrowth
<1>5. CASE DisconnectInEmission(k)
  <2>1. frames # <<>> /\ handlers' = [handlers EXCEPT ![k] = MarkedRemoved(@)]
    BY <1>5, StateFacts DEF DisconnectInEmission, IInv
  <2>2. /\ Holds(handlers', removed')
        /\ Len(handlers') = Len(handlers)
        /\ \A j \in 1..Len(handlers) : handlers'[j].id = handlers[j].id
        /\ \A j \in 1..Len(handlers) : j # k => handlers'[j] = handlers[j]
    <3> DEFINE t == [handlers EXCEPT ![k] = MarkedRemoved(@)]
    <3>1. /\ Holds(t, removed \cup {handlers[k].id})
          /\ Len(t) = Len(handlers)
          /\ \A j \in 1..Len(handlers) : t[j].id = handlers[j].id
          /\ \A j \in 1..Len(handlers) : j # k => t[j] = handlers[j]
      BY <1>3, MarkKeeps
    <3>2. handlers' = t
      BY <2>1
    <3>. HIDE DEF t
    <3>. QED
      BY <1>1, <3>1, <3>2
  <2>3. Calm(handlers, handlers', {handlers[k].id})
    BY <2>2 DEF Calm
  <2>. QED
    BY <1>1, <1>2, <1>3, <2>1, <2>2, <2>3, CalmKeeps
<1>. QED
  BY <1>1, <1>4, <1>5

\* DisconnectAll, which clears at rest and marks during an emission.
LEMMA DisconnectAllKeeps ==
  ASSUME IInv, DisconnectAll
  PROVE  IInv'
<1>1. /\ ~undefined
      /\ removed' = connected
      /\ frames' = Excuse(Ids, frames)
      /\ UNCHANGED <<class, capacity, nextId, emitDepth, undefined, connected, onceIds, calls>>
  BY DEF DisconnectAll
<1>2. Holds(handlers, removed) /\ removed \subseteq connected /\ connected \subseteq Ids
  BY DEF IInv, Numbers
<1>3. CASE emitDepth = 0
  <2>1. frames = <<>> /\ handlers' = <<>>
    BY <1>3, StateFacts DEF IInv, DisconnectAll
  <2>2. /\ Holds(handlers', connected)
        /\ \A j \in 1..Len(handlers') : ~handlers'[j].pending
    <3>1. capacity \in Nat /\ Len(<<>>) = 0 /\ <<>> \in Seq(Entries)
      BY EmptySeq, StateFacts
    <3>. QED
      BY <2>1, <3>1 DEF Holds, Sorted, KeptIds, Kept
  <2>3. Holds(handlers, removed)'
    BY <1>1, <2>2 DEF Holds, Sorted, KeptIds, Kept
  <2>4. frames' = <<>>
    BY <1>1, <2>1 DEF Excuse
  <2>5. AllRun(frames, handlers)' /\ Len(frames') = 0
    BY <2>4, EmptySeq DEF AllRun
  <2>6. Numbers' /\ Spent'
    BY <1>1 DEF IInv, Numbers, Spent
  <2>. QED
    BY <1>1, <1>3, <2>2, <2>3, <2>5, <2>6 DEF IInv, UseAfterFreeNeedsRegrowth
<1>4. CASE emitDepth # 0
  <2>1. frames # <<>>
        /\ handlers' = [k \in 1..Len(handlers) |-> MarkedRemoved(handlers[k])]
    BY <1>4, StateFacts DEF IInv, DisconnectAll
  <2>2. /\ Holds(handlers', connected)
        /\ Len(handlers') = Len(handlers)
        /\ \A j \in 1..Len(handlers) : handlers'[j].id = handlers[j].id
    BY <1>2, <2>1, MarkAllKeeps
  <2>3. Calm(handlers, handlers', Ids)
    BY <1>2, <2>2 DEF Calm, Holds
  <2>. QED
    BY <1>1, <1>2, <2>1, <2>2, <2>3, CalmKeeps
<1>. QED
  BY <1>3, <1>4

\* Enable and Disable.
LEMMA SetEnabledKeeps ==
  ASSUME IInv, NEW enabled \in BOOLEAN, SetEnabled(enabled)
  PROVE  IInv'
<1>1. PICK k \in 1..Len(handlers) :
        /\ ~handlers[k].pending
        /\ handlers' = [handlers EXCEPT ![k].enabled = enabled]
        /\ frames' = IF enabled THEN frames ELSE Excuse({handlers[k].id}, frames)
  BY DEF SetEnabled
<1>2. ~undefined /\ UNCHANGED <<class, capacity, nextId, emitDepth, undefined,
                                connected, onceIds, removed, calls>>
  BY DEF SetEnabled, history
<1>3. Holds(handlers, removed) /\ removed \subseteq connected
  BY DEF IInv, Numbers
<1> DEFINE h == [handlers[k] EXCEPT !.enabled = enabled]
           S == IF enabled THEN {} ELSE {handlers[k].id}
<1>4. h \in Entries /\ h.id = handlers[k].id /\ h.once = handlers[k].once
      /\ h.pending = handlers[k].pending /\ h.enabled = enabled
  BY StateFacts, EntryFacts DEF Entries
<1>5. /\ handlers' \in Seq(Entries) /\ Len(handlers') = Len(handlers)
      /\ \A j \in 1..Len(handlers) : handlers'[j] = IF j = k THEN h ELSE handlers[j]
  <2>1. handlers' = [handlers EXCEPT ![k] = h]
    BY <1>1
  <2>. HIDE DEF h
  <2>. QED
    BY <1>4, <2>1, StateFacts, ExceptSeq
<1> HIDE DEF h
<1>6. \A j \in 1..Len(handlers) : /\ handlers'[j].id = handlers[j].id
                                  /\ handlers'[j].once = handlers[j].once
                                  /\ handlers'[j].pending = handlers[j].pending
  BY <1>4, <1>5
<1>7. Holds(handlers', removed)
  <2>1. Kept(handlers') = Kept(handlers)
    BY <1>5, <1>6 DEF Kept
  <2>2. KeptIds(handlers') = KeptIds(handlers)
    <3>1. \A j \in Kept(handlers) : handlers'[j].id = handlers[j].id
      BY <1>6 DEF Kept
    <3>. QED
      BY <2>1, <3>1 DEF KeptIds
  <2>3. Sorted(handlers')
    BY <1>3, <1>5, <1>6 DEF Holds, Sorted
  <2>. QED
    BY <1>3, <1>5, <1>6, <2>2, <2>3 DEF Holds
<1>8. Calm(handlers, handlers', S)
  BY <1>4, <1>5, <1>6 DEF Calm, Callable
<1>9. frames' = Excuse(S, frames)
  <2>1. CASE enabled
    <3>1. /\ DOMAIN frames = 1..Len(frames)
          /\ \A n \in 1..Len(frames) : frames[n] \in Frames
          /\ frames = [n \in 1..Len(frames) |-> frames[n]]
      BY StateFacts, LenProperties, ElementOfSeq
    <3>2. \A f \in Frames : [f EXCEPT !.owed = @ \ {}] = f
      <4>1. \A f \in Frames : f.owed \ {} = f.owed
        OBVIOUS
      <4>. QED
        BY <4>1 DEF Frames
    <3>3. [n \in 1..Len(frames) |-> [frames[n] EXCEPT !.owed = @ \ {}]]
            = [n \in 1..Len(frames) |-> frames[n]]
      BY <3>1, <3>2
    <3>. QED
      BY <1>1, <2>1, <3>1, <3>3 DEF Excuse
  <2>2. CASE ~enabled
    BY <1>1, <2>2
  <2>. QED
    BY <2>1, <2>2
<1>10. frames = <<>> => \A j \in 1..Len(handlers') : ~handlers'[j].pending
  BY <1>5, <1>6 DEF IInv
<1> HIDE DEF S
<1>. QED
  BY <1>2, <1>3, <1>5, <1>7, <1>8, <1>9, <1>10, CalmKeeps

\* Emit: it starts at the first callable handler, or ends at once.
LEMMA EmitKeeps ==
  ASSUME IInv, Emit
  PROVE  /\ IInv'
         /\ \/ frames' = frames
            \/ /\ Len(frames') = Len(frames) + 1
               /\ frames'[Len(frames')].id \notin removed'
<1> DEFINE f == [pos |-> 0, end |-> Len(handlers), buffer |-> capacity, id |-> 0,
                 before |-> nextId,
                 owed |-> {handlers[k].id : k \in {j \in 1..Len(handlers) :
                                                     Callable(handlers[j])}}]
<1>1. /\ ~undefined /\ removed' = removed
      /\ UNCHANGED <<class, capacity, nextId, undefined, connected, onceIds>>
      /\ Advance(handlers, f, frames, emitDepth + 1)
  BY DEF Emit
<1>2. /\ Numbers /\ Holds(handlers, removed) /\ AllRun(frames, handlers)
      /\ emitDepth + 1 = Len(frames) + 1 /\ removed \subseteq connected
      /\ \A i \in Ids : i >= nextId => calls[i] = 0
      /\ \A i \in onceIds : calls[i] > 0 =>
           i \in removed \/ \E n \in 1..Len(frames) : frames[n].id = i
  BY DEF IInv, Numbers, Spent
<1>3. CASE CallNext(handlers, f, frames, emitDepth + 1)
  <2>1. /\ f.pos = 0 /\ f.end = Len(handlers) /\ f.buffer = capacity
        /\ f.owed = {handlers[k].id : k \in {j \in 1..Len(handlers) :
                                               Callable(handlers[j])}}
    OBVIOUS
  <2>2. f \in Frames
    BY StateFacts, EntryFacts DEF Frames
  <2>. HIDE DEF f
  <2>3. FirstCapacity <= capacity
    <3>1. \E k \in 1..Len(handlers) : TRUE
      BY <1>3, <2>1, StateFacts DEF CallNext, Ahead
    <3>. QED
      BY <1>2, <3>1, StateFacts, EventAssumption DEF Holds, Numbers
  <2>4. Fits(f, handlers)
    <3>1. \A i \in f.owed : \E k \in Ahead(handlers, f) : handlers[k].id = i
      BY <2>1, StateFacts DEF Ahead
    <3>. QED
      BY <2>1, <2>2, <2>3, <3>1, StateFacts DEF Fits
  <2>5. /\ Numbers' /\ Holds(handlers, removed)' /\ AllRun(frames, handlers)'
        /\ (emitDepth = Len(frames))' /\ frames' # <<>> /\ Spent'
        /\ Len(frames') = Len(frames) + 1
        /\ frames'[Len(frames')].id \notin removed
    BY <1>1, <1>2, <1>3, <2>4, CallNextKeeps
  <2>. QED
    BY <1>1, <2>5 DEF IInv, UseAfterFreeNeedsRegrowth
<1>4. CASE Finish(handlers, frames, emitDepth + 1)
  <2>1. /\ Numbers' /\ Holds(handlers, removed)' /\ AllRun(frames, handlers)'
        /\ (emitDepth = Len(frames))' /\ Spent' /\ frames' = frames
        /\ (frames = <<>> => \A k \in 1..Len(handlers) : ~handlers[k].pending)'
    BY <1>1, <1>2, <1>4, FinishKeeps
  <2>. QED
    BY <1>1, <2>1 DEF IInv, UseAfterFreeNeedsRegrowth
<1>. QED
  BY <1>1, <1>3, <1>4 DEF Advance

\* The part of the stack below the innermost emission.
LEMMA BelowRuns ==
  ASSUME IInv, frames # <<>>
  PROVE  /\ AllRun(Below, handlers) /\ Len(Below) + 1 = Len(frames)
         /\ Len(frames) \in 1..Len(frames) /\ Runs(Current, handlers)
         /\ \A n \in 1..Len(Below) : Below[n] = frames[n]
<1>1. Len(frames) \in Nat /\ Len(frames) \in 1..Len(frames) /\ frames \in Seq(Frames)
  BY StateFacts
<1>2. Runs(Current, handlers)
  BY <1>1 DEF IInv, AllRun, Current
<1>3. /\ Below \in Seq(Frames) /\ Len(Below) = Len(frames) - 1
      /\ \A n \in 1..(Len(frames) - 1) : Below[n] = frames[n]
  <2>1. 1 \in Int /\ Len(frames) - 1 \in Int
    BY <1>1
  <2>2. \A n \in 1..(Len(frames) - 1) : frames[n] \in Frames
    BY <1>1, ElementOfSeq
  <2>3. /\ Below \in Seq(Frames)
        /\ Len(Below) = IF 1 <= Len(frames) - 1 THEN Len(frames) - 1 - 1 + 1 ELSE 0
        /\ \A n \in 1..(Len(frames) - 1 - 1 + 1) : Below[n] = frames[1 + n - 1]
    BY <2>1, <2>2, SubSeqProperties DEF Below
  <2>4. Len(Below) = Len(frames) - 1
    <3> DEFINE n == Len(frames)
    <3>1. Len(Below) = IF 1 <= n - 1 THEN n - 1 - 1 + 1 ELSE 0
      BY <2>3
    <3>2. n \in Nat /\ 1 <= n
      BY <1>1
    <3>. HIDE DEF n
    <3>3. Len(Below) = n - 1
      BY <3>1, <3>2
    <3>. QED
      BY <3>3 DEF n
  <2>5. Len(frames) - 1 - 1 + 1 = Len(frames) - 1
    BY <1>1
  <2>6. \A n \in 1..(Len(frames) - 1) : 1 + n - 1 = n
    BY <1>1
  <2>. QED
    BY <2>3, <2>4, <2>5, <2>6
<1>4. \A n \in 1..Len(Below) : Runs(Below[n], handlers)
  BY <1>1, <1>3 DEF IInv, AllRun
<1>. QED
  BY <1>1, <1>2, <1>3, <1>4 DEF AllRun

\* Return: the entry is used up, and the loop goes on, stops or ends.
LEMMA ReturnKeeps ==
  ASSUME IInv, NEW result \in {"Continue", "Stop"}, Return(result)
  PROVE  /\ IInv'
         /\ \/ /\ Len(frames') = Len(frames)
               /\ frames'[Len(frames')].id \notin removed'
            \/ /\ Len(frames') + 1 = Len(frames)
               /\ class = "BasicEvent" => Current.owed = {}
<1> DEFINE spent == IF handlers[Current.pos].once THEN {Current.id} ELSE {}
           after == UsedUp(handlers, Current.pos)
           gone == removed \cup spent
           f == [Current EXCEPT !.owed = @ \ spent]
           below == Excuse(spent, Below)
<1>1. /\ ~undefined /\ frames # <<>>
      /\ result = "Stop" => class = "StopEvent"
      /\ removed' = gone
      /\ UNCHANGED <<class, capacity, nextId, undefined, connected, onceIds>>
      /\ IF result = "Stop" THEN Finish(after, below, emitDepth)
         ELSE Advance(after, f, below, emitDepth)
  BY DEF Return
<1>2. /\ AllRun(Below, handlers) /\ Len(Below) + 1 = Len(frames)
      /\ Len(frames) \in 1..Len(frames) /\ Runs(Current, handlers)
      /\ \A n \in 1..Len(Below) : Below[n] = frames[n]
  BY <1>1, BelowRuns
<1>3. /\ Current.pos \in 1..Len(handlers) /\ handlers[Current.pos].id = Current.id
      /\ Fits(Current, handlers) /\ Current \in Frames
      /\ Current.pos \in Nat /\ Current.end \in Nat /\ Current.end <= Len(handlers)
  <2>1. Fits(Current, handlers) /\ Current.pos \in 1..Current.end
        /\ handlers[Current.pos].id = Current.id
    BY <1>2 DEF Runs
  <2>2. Current \in Frames /\ Current.end <= Len(handlers)
    BY <2>1 DEF Fits
  <2>3. Current.pos \in Nat /\ Current.end \in Nat
    BY <2>2 DEF Frames
  <2>4. Current.pos \in 1..Len(handlers)
    BY <2>1, <2>2, <2>3, StateFacts
  <2>. QED
    BY <2>1, <2>2, <2>3, <2>4
<1>4. /\ Holds(after, gone)
      /\ Len(after) = Len(handlers)
      /\ \A j \in 1..Len(handlers) : after[j].id = handlers[j].id
      /\ \A j \in 1..Len(handlers) : j # Current.pos => after[j] = handlers[j]
  BY <1>3, UsedUpKeeps DEF IInv
<1>5. Calm(handlers, after, spent)
  <2>1. CASE handlers[Current.pos].once
    <3>1. spent = {handlers[Current.pos].id}
      BY <1>3, <2>1
    <3>. QED
      BY <1>4, <3>1 DEF Calm
  <2>2. CASE ~handlers[Current.pos].once
    BY <2>2 DEF Calm, UsedUp
  <2>. QED
    BY <2>1, <2>2
<1>6. /\ handlers[Current.pos].id \in connected
      /\ handlers[Current.pos].once <=> Current.id \in onceIds
  BY <1>3 DEF IInv, Holds
<1>7. gone \subseteq connected /\ spent \subseteq gone /\ removed \subseteq gone
  BY <1>3, <1>6 DEF IInv, Numbers
<1>8. \A i \in onceIds : i = Current.id => i \in gone
  BY <1>6
<1> HIDE DEF spent, after, gone, f, below
<1>9. Fits(f, after)
  BY <1>3, <1>5, FitsCalm, StateFacts DEF f
<1>10. AllRun(below, after) /\ Len(below) = Len(Below)
  BY <1>2, <1>5, AllRunCalm, StateFacts DEF below
<1>11. \A n \in 1..Len(Below) : below[n].id = frames[n].id
  <2>1. DOMAIN Below = 1..Len(Below)
    BY <1>2, LenProperties DEF AllRun
  <2>2. \A n \in 1..Len(Below) : Below[n] \in Frames
    BY <1>2 DEF AllRun, Runs, Fits
  <2>. QED
    BY <1>2, <2>1, <2>2 DEF below, Excuse, Frames
<1>12. /\ Numbers
       /\ emitDepth = Len(below) + 1
       /\ \A i \in Ids : i >= nextId => calls[i] = 0
  BY <1>2, <1>10, StateFacts DEF IInv, Spent
<1>13. \A i \in onceIds : calls[i] > 0 =>
         i \in gone \/ \E n \in 1..Len(below) : below[n].id = i
  <2>. SUFFICES ASSUME NEW i \in onceIds, calls[i] > 0, i \notin gone
                PROVE  \E n \in 1..Len(below) : below[n].id = i
    OBVIOUS
  <2>1. PICK n \in 1..Len(frames) : frames[n].id = i
    BY <1>7 DEF IInv, Spent
  <2>2. n # Len(frames)
    BY <1>8, <2>1 DEF Current
  <2>3. n \in 1..Len(Below)
    BY <1>2, <2>1, <2>2, StateFacts
  <2>. QED
    BY <1>10, <1>11, <2>1, <2>3
<1>14. CASE CallNext(after, f, below, emitDepth)
  <2>1. /\ Numbers' /\ Holds(handlers, removed)' /\ AllRun(frames, handlers)'
        /\ (emitDepth = Len(frames))' /\ frames' # <<>> /\ Spent'
        /\ Len(frames') = Len(below) + 1
        /\ frames'[Len(frames')].id \notin gone
    BY <1>1, <1>4, <1>7, <1>9, <1>10, <1>12, <1>13, <1>14, CallNextKeeps
  <2>2. IInv'
    BY <1>1, <2>1 DEF IInv, UseAfterFreeNeedsRegrowth
  <2>. QED
    BY <1>1, <1>2, <1>10, <2>1, <2>2
<1>15. ASSUME Finish(after, below, emitDepth)
       PROVE  IInv' /\ Len(frames') + 1 = Len(frames)
  <2>1. /\ Numbers' /\ Holds(handlers, removed)' /\ AllRun(frames, handlers)'
        /\ (emitDepth = Len(frames))' /\ Spent' /\ frames' = below
        /\ (frames = <<>> => \A k \in 1..Len(handlers) : ~handlers[k].pending)'
    BY <1>1, <1>4, <1>7, <1>10, <1>12, <1>13, <1>15, FinishKeeps
  <2>2. IInv'
    BY <1>1, <2>1 DEF IInv, UseAfterFreeNeedsRegrowth
  <2>. QED
    BY <1>2, <1>10, <2>1, <2>2
<1>16. ASSUME class = "BasicEvent", Ahead(after, f) = {}
       PROVE  Current.owed = {}
  <2>. SUFFICES ASSUME NEW i \in Current.owed PROVE FALSE
    OBVIOUS
  <2>1. PICK k \in Ahead(handlers, Current) : handlers[k].id = i
    BY <1>3, <1>16 DEF Fits
  <2>2. k \in (Current.pos + 1)..Current.end /\ Callable(handlers[k]) /\ k \in 1..Len(handlers)
        /\ k # Current.pos
    BY <1>3, <2>1, StateFacts DEF Ahead
  <2>3. f.pos = Current.pos /\ f.end = Current.end
    BY <1>3 DEF f, Frames
  <2>4. after[k] = handlers[k]
    BY <1>4, <2>2
  <2>5. k \in Ahead(after, f)
    BY <2>2, <2>3, <2>4 DEF Ahead
  <2>. QED
    BY <1>16, <2>5
<1>17. class = "BasicEvent" => class # "StopEvent"
  OBVIOUS
<1>. QED
  BY <1>1, <1>14, <1>15, <1>16, <1>17 DEF Advance

\* The callback returns to a buffer that has been freed.
LEMMA ReturnToFreedBufferKeeps ==
  ASSUME IInv, ReturnToFreedBuffer
  PROVE  IInv'
<1>1. /\ frames # <<>> /\ Current.buffer # capacity /\ undefined' = TRUE
      /\ UNCHANGED <<class, handlers, capacity, nextId, emitDepth, frames,
                     connected, onceIds, removed, calls>>
  BY DEF ReturnToFreedBuffer, history
<1>2. FirstCapacity <= Current.buffer /\ Current.buffer <= capacity /\ Current.buffer \in Nat
  BY <1>1, BelowRuns DEF Runs, Fits, Frames
<1>3. capacity > FirstCapacity
  BY <1>1, <1>2, StateFacts
<1>4. Numbers' /\ Spent'
  BY <1>1 DEF IInv, Numbers, Spent
<1>5. Holds(handlers, removed)' /\ AllRun(frames, handlers)'
  BY <1>1 DEF IInv, Holds, Sorted, KeptIds, Kept, AllRun, Runs, Fits, Ahead
<1>. QED
  BY <1>1, <1>3, <1>4, <1>5 DEF IInv, UseAfterFreeNeedsRegrowth

\* What is removed stays removed.
LEMMA RemovedGrows ==
  ASSUME IInv, [Next]_vars
  PROVE  removed \subseteq removed'
<1>1. removed \subseteq connected
  BY DEF IInv, Numbers
<1>2. CASE UNCHANGED vars
  BY <1>2 DEF vars, history
<1>. QED
  BY <1>1, <1>2 DEF Next, Connect, Disconnect, DisconnectAll, SetEnabled, Emit, Return,
     ReturnToFreedBuffer, history

LEMMA InitEstablishes == Init => IInv
<1>. SUFFICES ASSUME Init PROVE IInv
  OBVIOUS
<1>1. handlers = <<>> /\ frames = <<>> /\ capacity = 0 /\ emitDepth = 0
  BY DEF Init
<1>2. /\ <<>> \in Seq(Entries) /\ <<>> \in Seq(Frames) /\ Len(<<>>) = 0
  BY EmptySeq
<1>3. Holds(handlers, removed) /\ AllRun(frames, handlers)
  BY <1>1, <1>2 DEF Init, Holds, Sorted, KeptIds, Kept, AllRun
<1>4. Numbers /\ Spent
  <2>1. calls = [i \in Ids |-> 0] /\ calls \in [Ids -> 0..2] /\ Ids \subseteq Nat
    BY DEF Init, Ids
  <2>2. 1 \in 1..(MaxConnections + 1)
    BY EventAssumption
  <2>. QED
    BY <2>1, <2>2 DEF Init, Numbers, Spent
<1>. QED
  BY <1>1, <1>2, <1>3, <1>4 DEF Init, IInv, UseAfterFreeNeedsRegrowth

\* A step keeps the invariant, and the only steps that start a call are
\* those of an emission, which call what is not removed.
LEMMA StepKeeps ==
  ASSUME IInv, [Next]_vars
  PROVE  /\ IInv'
         /\ \/ /\ Len(frames') = Len(frames)
               /\ \A n \in 1..Len(frames) : frames'[n].pos = frames[n].pos
            \/ /\ frames' # <<>> /\ Len(frames') >= Len(frames)
                 => frames'[Len(frames')].id \notin removed'
               /\ Len(frames') < Len(frames) /\ class = "BasicEvent" => Current.owed = {}
<1> DEFINE Same == /\ Len(frames') = Len(frames)
                   /\ \A n \in 1..Len(frames) : frames'[n].pos = frames[n].pos
<1>1. ASSUME NEW S, frames' = Excuse(S, frames) PROVE Same
  <2>1. DOMAIN frames = 1..Len(frames) /\ \A n \in 1..Len(frames) : frames[n] \in Frames
    BY StateFacts, LenProperties, ElementOfSeq
  <2>2. frames' = [n \in 1..Len(frames) |-> [frames[n] EXCEPT !.owed = @ \ S]]
    BY <1>1, <2>1 DEF Excuse
  <2>3. \A n \in 1..Len(frames) : [frames[n] EXCEPT !.owed = @ \ S] \in Frames
    BY <2>1 DEF Frames
  <2>4. frames' \in [1..Len(frames) -> Frames]
    BY <2>2, <2>3
  <2>5. Len(frames') = Len(frames)
    BY <2>4, StateFacts, LenProperties, SeqDef
  <2>. QED
    BY <2>1, <2>2, <2>5 DEF Frames
<1>2. ASSUME frames' = frames PROVE Same
  BY <1>2
<1>3. ASSUME NEW once \in BOOLEAN, Connect(once) PROVE IInv' /\ Same
  BY <1>2, <1>3, ConnectKeeps DEF Connect
<1>4. CASE Disconnect
  BY <1>1, <1>4, DisconnectKeeps DEF Disconnect
<1>5. CASE DisconnectAll
  BY <1>1, <1>5, DisconnectAllKeeps DEF DisconnectAll
<1>6. ASSUME NEW enabled \in BOOLEAN, SetEnabled(enabled) PROVE IInv' /\ Same
  <2>1. Same
    BY <1>1, <1>2, <1>6 DEF SetEnabled
  <2>. QED
    BY <1>6, <2>1, SetEnabledKeeps
<1>7. CASE Emit
  <2>1. \/ frames' = frames
        \/ /\ Len(frames') = Len(frames) + 1
           /\ frames'[Len(frames')].id \notin removed'
    BY <1>7, EmitKeeps
  <2>2. IInv'
    BY <1>7, EmitKeeps
  <2>. QED
    BY <1>2, <2>1, <2>2, StateFacts
<1>8. ASSUME NEW result \in {"Continue", "Stop"}, Return(result)
      PROVE  /\ IInv'
             /\ \/ /\ Len(frames') = Len(frames)
                   /\ frames'[Len(frames')].id \notin removed'
                \/ /\ Len(frames') + 1 = Len(frames)
                   /\ class = "BasicEvent" => Current.owed = {}
  BY <1>8, ReturnKeeps
<1>9. ASSUME NEW result \in {"Continue", "Stop"}, Return(result)
      PROVE  /\ frames' # <<>> /\ Len(frames') >= Len(frames)
                  => frames'[Len(frames')].id \notin removed'
             /\ Len(frames') < Len(frames) /\ class = "BasicEvent" => Current.owed = {}
  <2>1. Len(frames') \in Nat
    BY <1>8, <1>9, LenProperties DEF IInv, AllRun
  <2>. QED
    BY <1>8, <1>9, <2>1, StateFacts
<1>10. CASE ReturnToFreedBuffer
  BY <1>2, <1>10, ReturnToFreedBufferKeeps DEF ReturnToFreedBuffer
<1>11. CASE UNCHANGED vars
  <2>1. UNCHANGED <<class, handlers, capacity, nextId, emitDepth, frames, undefined,
                    connected, onceIds, removed, calls>>
    BY <1>11 DEF vars, history
  <2>2. Numbers' /\ Spent'
    BY <2>1 DEF IInv, Numbers, Spent
  <2>3. Holds(handlers, removed)' /\ AllRun(frames, handlers)'
    BY <2>1 DEF IInv, Holds, Sorted, KeptIds, Kept, AllRun, Runs, Fits, Ahead
  <2>. QED
    BY <1>2, <2>1, <2>2, <2>3 DEF IInv, UseAfterFreeNeedsRegrowth
<1>. QED
  BY <1>3, <1>4, <1>5, <1>6, <1>7, <1>8, <1>9, <1>10, <1>11 DEF Next
-----------------------------------------------------------------------------
(* What follows for a client.                                              *)

\* The invariant holds in every state.
THEOREM InvariantHolds == Spec => []IInv
<1>1. IInv /\ [Next]_vars => IInv'
  BY StepKeeps
<1>. QED
  BY InitEstablishes, <1>1, PTL DEF Spec

\* Every field stays in its type, for an event of either class.
THEOREM EventTypeCorrect == Spec => []TypeOK
<1>1. IInv => TypeOK
  <2>. SUFFICES ASSUME IInv PROVE TypeOK
    OBVIOUS
  <2>1. emitDepth \in Nat
    BY StateFacts DEF IInv
  <2>. QED
    BY <2>1, StateFacts DEF IInv, Numbers, TypeOK
<1>. QED
  BY InvariantHolds, <1>1, PTL

\* Iteration stays stable: every running emission finds its entry at its
\* index, and the vector holds exactly the connections not removed, in order.
THEOREM IterationIsStable == Spec => []StableIteration
<1>1. IInv => StableIteration
  <2>. SUFFICES ASSUME IInv PROVE StableIteration
    OBVIOUS
  <2>1. FramesPointAtEntries
    BY DEF IInv, FramesPointAtEntries, AllRun, Runs, Fits
  <2>2. frames = <<>> => Len(handlers) = Cardinality(Kept(handlers))
    <3>. SUFFICES ASSUME frames = <<>> PROVE Len(handlers) = Cardinality(Kept(handlers))
      OBVIOUS
    <3>1. Kept(handlers) = 1..Len(handlers)
      BY DEF IInv, Kept
    <3>2. Len(handlers) \in Nat /\ Len(handlers) \in Int /\ 1 \in Int
      BY StateFacts
    <3>3. Cardinality(1..Len(handlers)) = IF 1 > Len(handlers) THEN 0 ELSE Len(handlers) - 1 + 1
      BY <3>2, FS_Interval
    <3>. QED
      BY <3>1, <3>2, <3>3
  <2>. QED
    BY <2>1, <2>2 DEF IInv, Holds, Sorted, KeptIds, StableIteration, Bookkeeping
<1>. QED
  BY InvariantHolds, <1>1, PTL

\* A buffer is freed under a running emission only when the vector outgrows
\* its first allocation.
THEOREM UseAfterFreeOnlyWhenRegrown == Spec => []UseAfterFreeNeedsRegrowth
<1>1. IInv => UseAfterFreeNeedsRegrowth
  BY DEF IInv
<1>. QED
  BY InvariantHolds, <1>1, PTL

\* Starting a call makes its connection the one at the top of the stack, and
\* it has not been removed.
LEMMA StartsNotRemoved ==
  ASSUME IInv, [Next]_vars, NEW i, Starts(i)
  PROVE  i \notin removed'
<1>1. Len(frames) \in Nat /\ Len(frames') \in Nat
  BY StepKeeps, StateFacts, LenProperties DEF IInv, AllRun
<1>2. frames' # <<>> /\ frames'[Len(frames')].id = i /\ Len(frames') >= Len(frames)
  BY <1>1 DEF Starts
<1>3. ~(/\ Len(frames') = Len(frames)
        /\ \A n \in 1..Len(frames) : frames'[n].pos = frames[n].pos)
  <2>1. frames' # <<>> => Len(frames') # 0
    BY StepKeeps, EmptySeq DEF IInv, AllRun
  <2>. QED
    BY <1>1, <2>1 DEF Starts, Current
<1>. QED
  BY <1>2, <1>3, StepKeeps

\* No handler is called after its removal.
THEOREM NothingRemovedIsCalled == Spec => NoCallAfterRemoval
<1>1. IInv /\ [Next]_vars => [\A i \in removed' : ~Starts(i)]_vars
  BY StartsNotRemoved
<1>. QED
  BY InvariantHolds, <1>1, PTL DEF Spec, NoCallAfterRemoval

\* A one-shot handler is called again only from inside its own call.
THEOREM OneShotsRunOnce == Spec => OnceUnlessReentered
<1>1. IInv /\ [Next]_vars =>
        [\A i \in onceIds :
           Starts(i) /\ calls[i] > 0 => \E n \in 1..Len(frames) : frames[n].id = i]_vars
  <2>. SUFFICES ASSUME IInv, [Next]_vars, NEW i \in onceIds, Starts(i), calls[i] > 0
                PROVE  \E n \in 1..Len(frames) : frames[n].id = i
    OBVIOUS
  <2>1. i \notin removed' /\ removed \subseteq removed'
    BY StartsNotRemoved, RemovedGrows
  <2>. QED
    BY <2>1 DEF IInv, Spent
<1>. QED
  BY InvariantHolds, <1>1, PTL DEF Spec, OnceUnlessReentered

\* A BasicEvent emission calls every handler it owes a call.
THEOREM EmissionIsComplete == Spec => EveryHandlerReached
<1>1. IInv /\ [Next]_vars =>
        [class = "BasicEvent" /\ Len(frames') < Len(frames) => Current.owed = {}]_vars
  <2>. SUFFICES ASSUME IInv, [Next]_vars, class = "BasicEvent", Len(frames') < Len(frames)
                PROVE  Current.owed = {}
    OBVIOUS
  <2>1. Len(frames') # Len(frames)
    BY StateFacts
  <2>. QED
    BY <2>1, StepKeeps
<1>. QED
  BY InvariantHolds, <1>1, PTL DEF Spec, EveryHandlerReached
=============================================================================
