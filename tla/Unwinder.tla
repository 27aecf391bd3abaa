------------------------------ MODULE Unwinder ------------------------------
(* X64::Unwind::Unwinder: from the registers of a thread inside a mapped   *)
(* image, and the image's table of functions with their unwind codes, it   *)
(* recovers the registers of the caller.  The image and the processor that *)
(* runs it are outside the repository: functions whose prologues save      *)
(* registers and make room, whose bodies call each other and use what they *)
(* saved, and whose epilogues undo the prologue.  The unwinder may be asked *)
(* between any two instructions.  Addresses and sizes count words of eight *)
(* bytes on the stack, and instructions in the image.                      *)
EXTENDS Integers, SequencesExt

CONSTANTS
  Images,     \* the images that may be mapped: sequences of functions
  StackSize,  \* words of stack
  MaxDepth    \* bound on nested calls

Nonvolatile == {"Rbx", "Rbp", "Rsi", "Rdi", "R12", "R13", "R14", "R15"}

\* What an instruction of a prologue does; the unwind codes name the same.
Operations == [op : {"Push", "Allocate", "SetFrame", "Save", "SaveXmm",
                     "PushMachineFrame"},
               register : STRING, amount : Nat]

\* The words of stack that an instruction takes, and that a prologue has taken
\* after each of its instructions.
Takes(p) == CASE p.op = "Push" -> 1 [] p.op = "Allocate" -> p.amount [] OTHER -> 0

Held(prologue) ==
  LET held[k \in 0 .. Len(prologue)] ==
        IF k = 0 THEN 0 ELSE held[k - 1] + Takes(prologue[k])
  IN held

Saving(prologue) == {k \in DOMAIN prologue : prologue[k].op \in {"Push", "Save"}}

\* Where the instruction keeps its register, in words below the return address.
Cell(prologue, k) ==
  IF prologue[k].op = "Push" THEN Held(prologue)[k]
  ELSE Held(prologue)[k] - prologue[k].amount

\* What a compiler makes: a register is saved once, in a word of its own that
\* the prologue has taken, and the frame pointer is one that has been pushed
\* and the last to be: nothing is pushed behind it.
WellFormed(prologue) ==
  /\ \A k \in DOMAIN prologue :
       /\ prologue[k].op # "PushMachineFrame"
       /\ k \in Saving(prologue) => prologue[k].register \in Nonvolatile
       /\ prologue[k].op = "Save" => prologue[k].amount < Held(prologue)[k]
  /\ \A j, k \in Saving(prologue) : j # k =>
       /\ prologue[j].register # prologue[k].register
       /\ Cell(prologue, j) # Cell(prologue, k)
  /\ \A k \in DOMAIN prologue : prologue[k].op = "SetFrame" =>
       /\ \E j \in 1 .. k - 1 : /\ prologue[j].op = "Push"
                                /\ prologue[j].register = prologue[k].register
       /\ \A j \in DOMAIN prologue :
            /\ prologue[j].op = "SetFrame" => j = k
            /\ prologue[j].op = "Push" => j < k

\* The prologue of a function with those of the functions it is a part of.
Whole(functions) ==
  LET whole[i \in 0 .. Len(functions)] ==
        IF i = 0 THEN <<>>
        ELSE whole[functions[i].parent] \o functions[i].prologue
  IN whole

\* A function has an entry in the table unless it is a leaf, which has no
\* prologue.  A segment is a part of its parent that has an entry of its own,
\* chained to the parent's; it saves registers in the room of its parent.
ASSUME UnwinderAssumption ==
  /\ StackSize \in Nat \ {0} /\ MaxDepth \in Nat
  /\ \A functions \in Images :
       /\ functions \in Seq([prologue : Seq(Operations), leaf : BOOLEAN, parent : Nat])
       /\ functions # <<>>
       /\ \A i \in DOMAIN functions :
            LET f == functions[i]
            IN /\ f.parent < i
               /\ f.leaf => f.prologue = <<>> /\ f.parent = 0
               /\ f.parent # 0 =>
                    /\ ~ functions[f.parent].leaf
                    /\ \A k \in DOMAIN f.prologue :
                         f.prologue[k].op \in {"Save", "SaveXmm"}
               /\ WellFormed(Whole(functions)[i])

VARIABLES
  image,      \* the functions, in the order they are laid out
  rip, rsp, registers, memory,  \* the processor and the stack
  allocated,  \* words the running function has allocated in its body
  callers     \* for each active call, the registers it shall return with

thread == <<image, rip, rsp, registers, memory, allocated, callers>>

-----------------------------------------------------------------------------
(* The image                                                               *)

\* The prologue, two instructions of body, what undoes the prologue, and the
\* return, or the jump to the parent.
SizeOf(f) == 2 * Len(f.prologue) + 3

\* The address behind a function is the first of the next.
EndOf(i) ==
  LET end[k \in 0 .. Len(image)] ==
        IF k = 0 THEN 1 ELSE end[k - 1] + SizeOf(image[k])
  IN end[i]
BeginOf(i) == EndOf(i - 1)
ImageEnd   == EndOf(Len(image))

\* The unwind codes of a prologue: the last instruction first, each with the
\* offset behind the instruction it stands for.
CodesOf(prologue) ==
  Reverse([k \in DOMAIN prologue |-> [at |-> k, does |-> prologue[k]]])

FrameOf(prologue) ==
  LET k == SelectInSeq(prologue, LAMBDA p : p.op = "SetFrame")
  IN IF k = 0 THEN [register |-> "None", offset |-> 0]
     ELSE [register |-> prologue[k].register, offset |-> prologue[k].amount]

EntryOf(i) ==
  [begin |-> BeginOf(i), end |-> EndOf(i), function |-> i,
   prologSize |-> Len(image[i].prologue), codes |-> CodesOf(image[i].prologue),
   frame |-> FrameOf(image[i].prologue), chained |-> image[i].parent]

\* Functions_: the entries of all functions but the leaves.
Functions ==
  LET table[i \in 0 .. Len(image)] ==
        IF i = 0 THEN <<>>
        ELSE IF image[i].leaf THEN table[i - 1]
        ELSE Append(table[i - 1], EntryOf(i))
  IN table[Len(image)]

-----------------------------------------------------------------------------
(* Unwinder                                                                *)

InImage(address) == address \in 1 .. ImageEnd - 1

Valid == Functions # <<>>

\* Deliberate error: the address behind a function is taken for one in it.
WellBehind(address, entry) == address > entry.end

IsBehind(address, entry) == address >= entry.end

\* The binary search for the entry around an address, 0 when there is none.
\* `span[n]` is what is left after n looks.
LookupRuntimeFunction(address) ==
  LET table == Functions
      look(s) ==
        LET step  == s.count \div 2
            index == s.first + step
        IN IF s.count = 0 \/ s.found # 0 THEN s
           ELSE IF address < table[index].begin THEN [s EXCEPT !.count = step]
           ELSE IF IsBehind(address, table[index])
                THEN [s EXCEPT !.first = index + 1, !.count = @ - (step + 1)]
           ELSE [s EXCEPT !.found = index]
      span[n \in 0 .. Len(table)] ==
        IF n = 0 THEN [first |-> 1, count |-> Len(table), found |-> 0]
        ELSE look(span[n - 1])
  IN IF Valid /\ InImage(address) THEN span[Len(table)].found ELSE 0

\* What stands in the stack; where nothing was written, whatever.
Garbage == - 99

Word(address) == IF address \in DOMAIN memory THEN memory[address] ELSE Garbage

Fail(context, error) == [context EXCEPT !.error = error]

\* Deliberate error: the frame pointer does not reset the stack pointer.
StackStays(context, frame) == context.rsp

\* The stack pointer when the prologue set the frame pointer.
StackAtFrame(context, frame) ==
  context.registers[frame.register] - 2 * frame.offset

\* One unwind code taken back.
Undo(context, frame, does) ==
  CASE context.error # "None" -> context
    [] does.op = "Allocate" -> [context EXCEPT !.rsp = @ + does.amount]
    [] does.op = "SaveXmm" -> context
    [] does.op = "PushMachineFrame" -> Fail(context, "UnsupportedUnwindOperation")
    [] does.op = "SetFrame" ->
         IF frame.register \notin Nonvolatile
         THEN Fail(context, "UnsupportedRegister")
         ELSE [context EXCEPT !.rsp = StackAtFrame(context, frame)]
    [] does.op \in {"Push", "Save"} /\ does.register \notin Nonvolatile ->
         Fail(context, "UnsupportedRegister")
    [] does.op = "Push" /\ does.register \in Nonvolatile ->
         [context EXCEPT !.registers[does.register] = Word(context.rsp),
                         !.rsp = @ + 1]
    [] does.op = "Save" /\ does.register \in Nonvolatile ->
         [context EXCEPT !.registers[does.register] =
                           Word(context.rsp + does.amount)]

\* Deliberate error: the instruction that ran last is not taken back.
PassedEarly(entry, address) ==
  LET offset == address - entry.begin
  IN [k \in DOMAIN entry.codes |->
        offset <= entry.prologSize => entry.codes[k].at < offset]

\* Which codes of an entry are behind the address: in the prologue only those
\* of the instructions that have run.
Passed(entry, address) ==
  LET offset == address - entry.begin
  IN [k \in DOMAIN entry.codes |->
        offset <= entry.prologSize => entry.codes[k].at <= offset]

\* The codes of an entry, one after the other, without those that are skipped.
UndoCodes(context, entry, taken) ==
  LET undone[k \in 0 .. Len(entry.codes)] ==
        IF k = 0 THEN context
        ELSE IF taken[k] THEN Undo(undone[k - 1], entry.frame, entry.codes[k].does)
        ELSE undone[k - 1]
  IN undone[Len(entry.codes)]

\* The entry around the address, then those it is chained to, with all their
\* codes.
UndoEntries(context, entry) ==
  LET chain[n \in 0 .. Len(image)] ==
        IF n = 0
        THEN [context |-> UndoCodes(context, entry, Passed(entry, context.rip)),
              next |-> entry.chained]
        ELSE LET before == chain[n - 1]
                 nearest == EntryOf(before.next)
             IN IF before.next = 0 THEN before
                ELSE [context |-> UndoCodes(before.context, nearest,
                                            [k \in DOMAIN nearest.codes |-> TRUE]),
                      next |-> nearest.chained]
  IN chain[Len(image)].context

\* The return address is taken from where the stack now points.
PopReturnAddress(context) ==
  [context EXCEPT !.rip = Word(context.rsp), !.rsp = @ + 1]

VirtualUnwind(current) ==
  LET found  == LookupRuntimeFunction(current.rip)
      undone == UndoEntries(current, Functions[found])
      caller == PopReturnAddress(undone)
  IN IF ~ Valid \/ ~ InImage(current.rip) THEN Fail(current, "InvalidContext")
     ELSE IF found = 0 THEN PopReturnAddress(current)
     ELSE IF undone.error # "None" THEN undone
     ELSE IF caller.rsp <= current.rsp THEN Fail(caller, "InvalidStackProgress")
     ELSE caller

-----------------------------------------------------------------------------
(* The processor                                                           *)

Running   == CHOOSE i \in DOMAIN image : rip \in BeginOf(i) .. EndOf(i) - 1
Prologue  == image[Running].prologue
Offset    == rip - BeginOf(Running)
InBody    == Offset \in {Len(Prologue), Len(Prologue) + 1}

\* The stack pointer as the prologue left it.
Base == rsp + allocated

\* What the running function and those it is a part of do in their prologues.
Does(i, op)    == {p \in Range(Whole(image)[i]) : p.op = op}
RunningDoes(op) == Does(Running, op)

Execute(p) ==
  CASE p.op = "Push" ->
         /\ rsp' = rsp - 1
         /\ memory' = [memory EXCEPT ![rsp - 1] = registers[p.register]]
         /\ UNCHANGED registers
    [] p.op = "Allocate" -> rsp' = rsp - p.amount /\ UNCHANGED <<memory, registers>>
    [] p.op = "SetFrame" ->
         /\ registers' = [registers EXCEPT ![p.register] = rsp + 2 * p.amount]
         /\ UNCHANGED <<rsp, memory>>
    [] p.op = "Save" ->
         /\ memory' = [memory EXCEPT ![Base + p.amount] = registers[p.register]]
         /\ UNCHANGED <<rsp, registers>>
    [] p.op = "SaveXmm" -> UNCHANGED <<rsp, memory, registers>>

Revert(p) ==
  CASE p.op = "Push" ->
         /\ registers' = [registers EXCEPT ![p.register] = memory[rsp]]
         /\ rsp' = rsp + 1
    [] p.op = "Allocate" -> rsp' = rsp + p.amount /\ UNCHANGED registers
    [] p.op = "SetFrame" ->
         rsp' = registers[p.register] - 2 * p.amount /\ UNCHANGED registers
    [] p.op = "Save" ->
         /\ registers' = [registers EXCEPT ![p.register] = memory[Base + p.amount]]
         /\ UNCHANGED rsp
    [] p.op = "SaveXmm" -> UNCHANGED <<rsp, registers>>

\* The stack is not used up.
HasRoom == rsp' > 0

\* The next instruction of the prologue, or of what undoes it.
RunPrologue ==
  /\ Offset < Len(Prologue)
  /\ Execute(Prologue[Offset + 1])
  /\ HasRoom
  /\ rip' = rip + 1
  /\ UNCHANGED <<image, allocated, callers>>

RunEpilogue ==
  LET undone == Offset - Len(Prologue) - 2
  IN /\ undone \in 0 .. Len(Prologue) - 1
     /\ LET p == Prologue[Len(Prologue) - undone]
        IN /\ Revert(p)
           /\ allocated' = IF p.op = "SetFrame" THEN 0 ELSE allocated
     /\ rip' = rip + 1
     /\ UNCHANGED <<image, memory, callers>>

\* A body uses the registers that were saved, allocates when a frame pointer
\* remembers the stack, and goes on.
UseRegister ==
  /\ InBody /\ ~ image[Running].leaf
  /\ \E p \in RunningDoes("Push") \cup RunningDoes("Save") :
       /\ \A q \in RunningDoes("SetFrame") : q.register # p.register
       /\ registers[p.register] # - 10 - Len(callers)
       /\ registers' = [registers EXCEPT ![p.register] = - 10 - Len(callers)]
  /\ UNCHANGED <<image, rip, rsp, memory, allocated, callers>>

AllocateMore ==
  /\ InBody /\ RunningDoes("SetFrame") # {} /\ allocated = 0
  /\ rsp' = rsp - 1 /\ allocated' = 1 /\ HasRoom
  /\ UNCHANGED <<image, rip, registers, memory, callers>>

GoOn ==
  /\ InBody
  /\ rip' = rip + 1
  /\ UNCHANGED <<image, rsp, registers, memory, allocated, callers>>

\* The call is the first instruction of a body, the return address the second.
Call ==
  /\ Offset = Len(Prologue) /\ ~ image[Running].leaf
  /\ Len(callers) < MaxDepth
  /\ \E g \in {i \in DOMAIN image : image[i].parent = 0} :
       /\ rip' = BeginOf(g)
       /\ callers' = Append(callers, [rip |-> rip + 1, rsp |-> rsp,
                                      registers |-> registers,
                                      allocated |-> allocated, function |-> Running])
  /\ rsp' = rsp - 1 /\ HasRoom
  /\ memory' = [memory EXCEPT ![rsp - 1] = rip + 1]
  /\ allocated' = 0
  /\ UNCHANGED <<image, registers>>

\* A body jumps into a segment of its function, and the segment back.
EnterSegment ==
  /\ Offset = Len(Prologue)
  /\ \E s \in {i \in DOMAIN image : image[i].parent = Running} : rip' = BeginOf(s)
  /\ UNCHANGED <<image, rsp, registers, memory, allocated, callers>>

LeaveSegment ==
  /\ rip = EndOf(Running) - 1 /\ image[Running].parent # 0
  /\ LET p == image[Running].parent
     IN rip' = BeginOf(p) + Len(image[p].prologue) + 1
  /\ UNCHANGED <<image, rsp, registers, memory, allocated, callers>>

ReturnToCaller ==
  /\ rip = EndOf(Running) - 1 /\ image[Running].parent = 0
  /\ Len(callers) > 1
  /\ rip' = memory[rsp] /\ rsp' = rsp + 1
  /\ allocated' = Last(callers).allocated
  /\ callers' = Front(callers)
  /\ UNCHANGED <<image, registers, memory>>

\* The firmware, outside the image, has called the first function.
ThreadInit ==
  /\ image \in Images
  /\ rip = BeginOf(1) /\ rsp = StackSize
  /\ registers = [Rbx |-> - 1, Rbp |-> - 2, Rsi |-> - 3, Rdi |-> - 4,
                  R12 |-> - 5, R13 |-> - 6, R14 |-> - 7, R15 |-> - 8]
  /\ memory = [a \in 1 .. StackSize |-> IF a = StackSize THEN 0 ELSE Garbage]
  /\ allocated = 0
  /\ callers = <<[rip |-> 0, rsp |-> StackSize + 1, registers |-> registers,
                  allocated |-> 0, function |-> 0]>>

ThreadNext ==
  \/ RunPrologue \/ RunEpilogue
  \/ UseRegister \/ AllocateMore \/ GoOn
  \/ Call \/ EnterSegment \/ LeaveSegment \/ ReturnToCaller

ThreadSpec == ThreadInit /\ [][ThreadNext]_thread

-----------------------------------------------------------------------------
(* Properties                                                              *)

Current == [rip |-> rip, rsp |-> rsp, registers |-> registers, error |-> "None"]

\* The epilogue has begun to give the stack back.
Dismantled ==
  LET undone == Offset - Len(Prologue) - 2
  IN \E k \in DOMAIN Prologue :
       /\ k > Len(Prologue) - undone
       /\ Prologue[k].op \in {"Allocate", "Push"}

\* The stack pointer is not where the offsets of a function's saved registers
\* count from.
Displaced(words, i) == words > 0 /\ Does(i, "Save") # {}

\* Wherever the thread stands, in a prologue, a body, a segment or a leaf,
\* before an epilogue gives the stack back, unwinding again and again gives
\* every caller as it will be returned to, up to the one outside the image:
\* return address, stack pointer and all nonvolatile registers.  The exception
\* is a function that saves registers by offset and has moved the stack
\* pointer since, and everything above it.
WalkFindsEveryCaller ==
  LET depth == Len(callers)
      walk[n \in 0 .. depth] ==
        IF n = 0 THEN Current ELSE VirtualUnwind(walk[n - 1])
      sound(n) ==  \* the n innermost frames can be unwound
        /\ ~ Dismantled
        /\ ~ Displaced(allocated, Running)
        /\ \A k \in depth - n + 2 .. depth :
             ~ Displaced(callers[k].allocated, callers[k].function)
  IN Valid =>
       \A n \in 1 .. depth : sound(n) =>
         LET caller == callers[depth - n + 1]
         IN walk[n] = [rip |-> caller.rip,
                       rsp |-> caller.rsp,
                       registers |-> caller.registers, error |-> "None"]

\* The frame pointer keeps the way to the caller when the body allocates: its
\* address and its stack pointer are right even where a register is not.
FramePointerKeepsTheWay ==
  Valid /\ ~ Dismantled =>
    LET caller == VirtualUnwind(Current)
    IN /\ caller.error = "None"
       /\ caller.rip = Last(callers).rip
       /\ caller.rsp = Last(callers).rsp
=============================================================================
