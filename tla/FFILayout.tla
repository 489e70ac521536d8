----------------------------- MODULE FFILayout -----------------------------
(***************************************************************************)
(* How the arguments of a call to an external function travel to its       *)
(* wrapper (Pass_FunctionCalling.cpp): the four word slots of a Pancake    *)
(* FFI call, of which a result and an input buffer each take one, the      *)
(* parameters that fit a slot, and the offsets of the others in the        *)
(* buffer.                                                                 *)
(*                                                                         *)
(* ConstructFunctionWrapperInfo places the parameters one by one, the      *)
(* statement expression generated for the call fills the buffer one        *)
(* parameter at a time, and the wrapper reads every argument back.  A byte *)
(* of an argument is named by the parameter and its index.                 *)
(***************************************************************************)
EXTENDS Integers, Sequences

CONSTANTS
  Functions,     \* the external functions called: see FunctionType
  PointerWidth   \* GetPointerWidth, in bits

\* a parameter type: integer or pointer, getTypeSize and getTypeAlign in bytes
ParamType    == [scalar : BOOLEAN, size : Nat, align : Nat \ {0}]
FunctionType == [void : BOOLEAN, params : Seq(ParamType)]

\* a piece of the input buffer
Entry        == [param : Nat, offset : Nat, size : Nat]

ASSUME FunctionsAssumption    == Functions \subseteq FunctionType
ASSUME PointerWidthAssumption == PointerWidth \in {32, 64}

VARIABLES
  func,      \* the function called
  pc,        \* "place" parameters, "fill" the buffer, "called"
  counter,   \* fastpath_index_counter
  slots,     \* param_infos: the parameter in each slot, 0 for none
  buffer,    \* non_fast_path_param_infos: parameter, offset and size
  place,     \* param_map: slot or index in buffer of each parameter placed
  offset,    \* current_input_buf_offset
  filled,    \* the parameters of buffer copied so far
  memory,    \* the bytes of __c2pnk_ffi_input_buf
  received   \* the bytes the external function gets for each parameter

vars   == <<func, pc, counter, slots, buffer, place, offset, filled, memory,
            received>>
layout == <<counter, slots, buffer, place, offset>>

NumSlots  == 4
Slots     == 0..(NumSlots - 1)
Params    == 1..Len(func.params)
WordBytes == PointerWidth \div 8

FitsFastpath(t) == t.scalar /\ t.size <= PointerWidth
MutAlignTo(n, a)   == n
MutAlignDown(n, a) == (n \div a) * a
\* the least multiple of a that is not below n
AlignTo(n, a)   == ((n + a - 1) \div a) * a

OutputSlots(f) == IF f.void THEN 0 ELSE 1
MutNeedsInputBuffer(f) == \E i \in 1..Len(f.params) : ~FitsFastpath(f.params[i])
NeedsInputBuffer(f) ==
  \/ Len(f.params) > NumSlots - OutputSlots(f)
  \/ \E i \in 1..Len(f.params) : ~FitsFastpath(f.params[i])
MutReserved(f) == IF NeedsInputBuffer(f) THEN 1 ELSE 0
Reserved(f) == OutputSlots(f) + (IF NeedsInputBuffer(f) THEN 1 ELSE 0)

\* the accessors of FFIFunctionWrapperInfo, once the parameters are placed
HasInputSlot       == buffer # <<>>
InputBufSlotIndex  == OutputSlots(func)

Init == /\ func \in Functions /\ pc = "place"
        /\ counter = Reserved(func)
        /\ slots = [s \in Slots |-> 0]
        /\ buffer = <<>> /\ place = <<>> /\ offset = 0
        /\ filled = 0 /\ memory = <<>> /\ received = <<>>

-----------------------------------------------------------------------------
Current     == Len(place) + 1
CurrentType == func.params[Current]
Unplaced    == pc = "place" /\ Current \in Params

PlaceInSlot ==
  /\ Unplaced
  /\ FitsFastpath(CurrentType) /\ counter < NumSlots
  /\ slots' = [slots EXCEPT ![counter] = Current]
  /\ place' = Append(place, [in |-> "slot", at |-> counter])
  /\ counter' = counter + 1
  /\ UNCHANGED <<func, pc, buffer, offset, filled, memory,
                 received>>

PlaceInBuffer ==
  /\ Unplaced
  /\ ~(FitsFastpath(CurrentType) /\ counter < NumSlots)
  /\ LET at == AlignTo(offset, CurrentType.align) IN
       /\ buffer' = Append(buffer, [param |-> Current, offset |-> at,
                                    size |-> CurrentType.size])
       /\ offset' = at + CurrentType.size
  /\ place' = Append(place, [in |-> "buffer", at |-> Len(buffer) + 1])
  /\ UNCHANGED <<func, pc, counter, slots, filled, memory, received>>

\* The call site is generated; running it starts with its buffer, the copies
\* in the order of the parameters.
StartCall ==
  /\ pc = "place" /\ Current \notin Params
  /\ pc' = "fill"
  /\ memory' = [n \in 0..(offset - 1) |-> <<0, 0>>]
  /\ UNCHANGED <<func, layout, filled, received>>

\* __c2pnk_memcpy of one argument into the buffer
MutCopied(e) == [n \in DOMAIN memory |->
                   IF n < e.size THEN <<e.param, n>> ELSE memory[n]]
Copied(e) == [n \in DOMAIN memory |->
                IF n \in e.offset..(e.offset + e.size - 1)
                THEN <<e.param, n - e.offset>> ELSE memory[n]]
Fill ==
  /\ pc = "fill" /\ filled < Len(buffer)
  /\ filled' = filled + 1
  /\ memory' = Copied(buffer[filled + 1])
  /\ UNCHANGED <<func, pc, layout, received>>

\* The wrapper is called with the address of the result, the address of the
\* buffer and the arguments in slots, and passes each parameter on: a slot
\* cast to its type, or the bytes at its offset.
Lost == <<0, 0>>
InSlot(s, b) ==
  IF \/ ~func.void /\ s = 0
     \/ HasInputSlot /\ s = InputBufSlotIndex
     \/ b >= WordBytes
  THEN Lost ELSE <<slots[s], b>>
Read(i, b) == IF place[i].in = "slot" THEN InSlot(place[i].at, b)
              ELSE memory[buffer[place[i].at].offset + b]
Bytes(i)   == 0..(func.params[i].size - 1)

CallWrapper ==
  /\ pc = "fill" /\ filled = Len(buffer)
  /\ pc' = "called"
  /\ received' = [i \in Params |-> [b \in Bytes(i) |-> Read(i, b)]]
  /\ UNCHANGED <<func, layout, filled, memory>>

Next == PlaceInSlot \/ PlaceInBuffer \/ StartCall \/ Fill \/ CallWrapper
Spec == Init /\ [][Next]_vars

-----------------------------------------------------------------------------
\* Every variable keeps to the values of its C++ counterpart: the counter
\* stays within the four slots, and the tables grow with the parameters
\* placed.
TypeOK ==
  /\ func \in Functions
  /\ pc \in {"place", "fill", "called"}
  /\ counter \in Reserved(func)..NumSlots
  /\ slots \in [Slots -> Nat]
  /\ buffer \in Seq(Entry)
  /\ place \in Seq([in : {"slot", "buffer"}, at : Nat])
  /\ Len(place) <= Len(func.params)
  /\ offset \in Nat
  /\ filled \in 0..Len(buffer)
  /\ pc = "place" => filled = 0

\* The table of the parameters and the tables of the places agree: what a
\* parameter's entry names holds that parameter, so no two share a place.
PlacedOnce ==
  \A i \in 1..Len(place) :
    LET p == place[i] IN
      IF p.in = "slot" THEN slots[p.at] = i
      ELSE p.at \in 1..Len(buffer) /\ buffer[p.at].param = i

\* No parameter is put in a slot kept for the result or the buffer.
ReservedFree ==
  \A s \in Slots :
    slots[s] # 0 => /\ s >= OutputSlots(func) /\ s < counter
                    /\ NeedsInputBuffer(func) => s # InputBufSlotIndex

\* A slot is kept for the buffer exactly when some parameter ends up in it:
\* the count made before placing them (383) and the placement (403) agree.
BufferSlotKept ==
  /\ HasInputSlot => NeedsInputBuffer(func)
  /\ pc # "place" => (NeedsInputBuffer(func) => HasInputSlot)

\* The buffer is cut in disjoint pieces, in order, each aligned for its type
\* and all of them below the size reserved for the buffer.
Disjoint ==
  /\ \A m \in 1..Len(buffer) :
       /\ buffer[m].offset + buffer[m].size <= offset
       /\ \A n \in 1..(m - 1) :
            buffer[n].offset + buffer[n].size <= buffer[m].offset
Aligned ==
  \A m \in 1..Len(buffer) :
    buffer[m].offset % func.params[buffer[m].param].align = 0

\* The external function gets every argument the C call passes it, byte for
\* byte: the slots and the buffer of the call site are those the wrapper
\* reads.
ArgumentsArrive ==
  pc = "called" =>
    \A i \in Params : \A b \in Bytes(i) : received[i][b] = <<i, b>>

\* What the tables and the buffer hold on the way there.  A slot names a
\* parameter that fits one; a buffer entry names a parameter and its size.
EntriesMatch ==
  /\ \A i \in 1..Len(place) :
       place[i].in = "slot" =>
         place[i].at \in Slots /\ FitsFastpath(func.params[i])
  /\ \A m \in 1..Len(buffer) :
       /\ buffer[m].param \in Params
       /\ buffer[m].size = func.params[buffer[m].param].size
\* While the buffer is empty every parameter placed took a slot, and the
\* layout is complete before the call is made.
SlotsCounted == buffer = <<>> => counter = Reserved(func) + Len(place)
Complete     == pc # "place" => Len(place) = Len(func.params)
\* The copies made so far are still there.
CopiesKept ==
  pc # "place" =>
    \A m \in 1..filled : \A b \in 0..(buffer[m].size - 1) :
      memory[buffer[m].offset + b] = <<buffer[m].param, b>>
MemorySized == pc # "place" => DOMAIN memory = 0..(offset - 1)

\* The inductive invariant: none of its parts is preserved without others.
IInv == /\ TypeOK /\ PlacedOnce /\ ReservedFree /\ BufferSlotKept /\ Disjoint
        /\ EntriesMatch /\ SlotsCounted /\ Complete
        /\ CopiesKept /\ MemorySized

\* The scalars a slot can hold: what the call needs of its parameter types.
ScalarsFit ==
  \A f \in Functions : \A i \in 1..Len(f.params) :
    f.params[i].scalar => f.params[i].size <= WordBytes

=============================================================================
