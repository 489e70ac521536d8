-------------------------- MODULE FFILayoutProofs --------------------------
(***************************************************************************)
(* Proofs about FFILayout, for every set of prototypes and both pointer    *)
(* widths.  The invariant IInv of FFILayout is inductive; that the pieces  *)
(* of the buffer are disjoint and that the arguments arrive follow from it.*)
(***************************************************************************)
EXTENDS FFILayout, TLAPS

\* Rounding up to an alignment never moves an offset down.
LEMMA AlignToUp ==
  ASSUME NEW n \in Nat, NEW a \in Nat \ {0}
  PROVE  AlignTo(n, a) \in Nat /\ AlignTo(n, a) >= n
<1>1. PICK k \in Int : k = (n + a - 1) \div a
  OBVIOUS
<1>2. n + a - 1 = a * k + ((n + a - 1) % a) /\ (n + a - 1) % a \in 0..(a - 1)
  BY <1>1
<1>3. k * a = a * k
  BY <1>1
<1>4. k * a >= n /\ k * a \in Int
  BY <1>2, <1>3
<1> QED
  BY <1>1, <1>4 DEF AlignTo

\* Rounding up gives a multiple of the alignment.
LEMMA AlignToMultiple ==
  ASSUME NEW n \in Nat, NEW a \in Nat \ {0}
  PROVE  AlignTo(n, a) % a = 0
<1>1. PICK k \in Int : k = (n + a - 1) \div a
  OBVIOUS
<1>2. k * a = a * k + 0 /\ 0 \in 0..(a - 1) /\ k * a \in Int
  OBVIOUS
<1>3. (k * a) % a = 0
  BY <1>2
<1> QED
  BY <1>1, <1>3 DEF AlignTo

\* The slots kept for the result and the buffer are at most two of the four.
LEMMA ReservedBound ==
  ASSUME NEW f \in Functions
  PROVE  /\ OutputSlots(f) \in 0..1 /\ Reserved(f) \in 0..2
         /\ Reserved(f) = OutputSlots(f) + (IF NeedsInputBuffer(f) THEN 1 ELSE 0)
BY DEF OutputSlots, Reserved

\* The prototype of a reachable state is one, and so are its types.
LEMMA FuncType ==
  ASSUME TypeOK
  PROVE  /\ func \in Functions /\ func.params \in Seq(ParamType)
         /\ Len(func.params) \in Nat
         /\ \A i \in Params : /\ func.params[i] \in ParamType
                              /\ func.params[i].size \in Nat
                              /\ func.params[i].align \in Nat \ {0}
<1>1. func \in FunctionType
  BY FunctionsAssumption DEF TypeOK
<1>2. func.params \in Seq(ParamType)
  BY <1>1 DEF FunctionType
<1>3. \A i \in Params : func.params[i] \in ParamType
  BY <1>2 DEF Params
<1>4. \A i \in Params : func.params[i].size \in Nat /\ func.params[i].align \in Nat \ {0}
  BY <1>3 DEF ParamType
<1>5. Len(func.params) \in Nat /\ func \in Functions
  BY <1>2 DEF TypeOK
<1> QED
  BY <1>2, <1>3, <1>4, <1>5

\* What the entries of the buffer are.
LEMMA BufferType ==
  ASSUME TypeOK
  PROVE  /\ Len(buffer) \in Nat /\ offset \in Nat
         /\ \A m \in 1..Len(buffer) : /\ buffer[m].param \in Nat
                                      /\ buffer[m].offset \in Nat
                                      /\ buffer[m].size \in Nat
<1>1. buffer \in Seq(Entry) /\ offset \in Nat
  BY DEF TypeOK
<1>2. ASSUME NEW m \in 1..Len(buffer)
      PROVE  buffer[m] \in Entry
  BY <1>1
<1>3. ASSUME NEW m \in 1..Len(buffer)
      PROVE  /\ buffer[m].param \in Nat
             /\ buffer[m].offset \in Nat
             /\ buffer[m].size \in Nat
  BY <1>2 DEF Entry
<1> QED
  BY <1>1, <1>3

LEMMA InitIInv == Init => IInv
<1> SUFFICES ASSUME Init PROVE IInv
  OBVIOUS
<1>1. func \in Functions /\ Reserved(func) \in 0..2
  BY ReservedBound DEF Init
<1>2. TypeOK
  <2>1. buffer \in Seq(Entry)
        /\ place \in Seq([in : {"slot", "buffer"}, at : Nat])
        /\ Len(place) = 0 /\ Len(buffer) = 0
    BY DEF Init
  <2>2. func.params \in Seq(ParamType)
    BY <1>1, FunctionsAssumption DEF FunctionType
  <2> QED
    BY <1>1, <2>1, <2>2 DEF Init, TypeOK, NumSlots, Slots
<1>3. PlacedOnce /\ ReservedFree /\ BufferSlotKept /\ Disjoint
  BY DEF Init, PlacedOnce, ReservedFree, BufferSlotKept, Disjoint, HasInputSlot
<1>4. EntriesMatch /\ SlotsCounted /\ Complete /\ CopiesKept /\ MemorySized
  BY <1>1 DEF Init, EntriesMatch, SlotsCounted, Complete, CopiesKept, MemorySized
<1> QED
  BY <1>2, <1>3, <1>4 DEF IInv

\* A parameter put in a slot takes the next one that is free.
LEMMA SlotStep ==
  ASSUME IInv, PlaceInSlot
  PROVE  IInv'
<1> USE DEF NumSlots
<1>0. /\ TypeOK /\ pc = "place" /\ counter \in 0..3 /\ Len(place) \in Nat
      /\ Current \in Params /\ Current = Len(place) + 1 /\ Len(buffer) \in Nat
      /\ Reserved(func) \in 0..2 /\ Len(func.params) \in Nat
  BY FuncType, ReservedBound DEF IInv, TypeOK, PlaceInSlot, Unplaced, Current
<1>1. /\ place' \in Seq([in : {"slot", "buffer"}, at : Nat])
      /\ Len(place') = Len(place) + 1
      /\ place'[Current] = [in |-> "slot", at |-> counter]
      /\ \A i \in 1..Len(place) : place'[i] = place[i]
  BY <1>0 DEF TypeOK, PlaceInSlot
<1>2. /\ slots' \in [Slots -> Nat] /\ slots'[counter] = Current
      /\ \A s \in Slots : s # counter => slots'[s] = slots[s]
      /\ counter' = counter + 1 /\ counter \in Slots
  BY <1>0 DEF TypeOK, PlaceInSlot, Slots
<1>3. UNCHANGED <<func, pc, buffer, offset, filled, memory, received>>
  BY DEF PlaceInSlot
<1>4. TypeOK'
  <2>1. counter' \in Reserved(func)..4
    BY <1>0, <1>2 DEF TypeOK
  <2>2. Len(place') <= Len(func.params)
    BY <1>0, <1>1 DEF Params
  <2> QED
    BY <2>1, <2>2, <1>1, <1>2, <1>3 DEF IInv, TypeOK
<1>5. PlacedOnce'
  <2>1. ASSUME NEW i \in 1..Len(place), place[i].in = "slot"
        PROVE  place[i].at # counter /\ slots'[place[i].at] = i
    <3>1. slots[place[i].at] = i /\ place[i].at \in Slots /\ i # 0
      BY <2>1, <1>0 DEF IInv, PlacedOnce, EntriesMatch
    <3>2. place[i].at < counter
      BY <3>1 DEF IInv, ReservedFree
    <3> QED
      BY <3>1, <3>2, <1>2, <1>0 DEF Slots
  <2>2. ASSUME NEW i \in 1..Len(place), place[i].in # "slot"
        PROVE  place[i].at \in 1..Len(buffer) /\ buffer[place[i].at].param = i
    BY <2>2 DEF IInv, PlacedOnce
  <2> QED
    BY <2>1, <2>2, <1>0, <1>1, <1>2, <1>3 DEF PlacedOnce
<1>6. ReservedFree'
  <2>1. /\ counter >= OutputSlots(func)
        /\ NeedsInputBuffer(func) => counter # OutputSlots(func)
    BY <1>0, ReservedBound DEF TypeOK
  <2>2. ASSUME NEW s \in Slots, slots'[s] # 0
        PROVE  /\ s >= OutputSlots(func) /\ s < counter + 1
               /\ NeedsInputBuffer(func) => s # OutputSlots(func)
    <3>1. CASE s = counter
      BY <3>1, <2>1, <1>0
    <3>2. CASE s # counter
      <4>1. slots[s] # 0
        BY <3>2, <2>2, <1>2
      <4> QED
        BY <4>1, <1>0 DEF IInv, ReservedFree, InputBufSlotIndex, Slots
    <3> QED
      BY <3>1, <3>2
  <2> QED
    BY <2>2, <1>2, <1>3 DEF ReservedFree, InputBufSlotIndex
<1>7. BufferSlotKept' /\ Disjoint'
  BY <1>0, <1>3 DEF IInv, BufferSlotKept, Disjoint, HasInputSlot
<1>8. EntriesMatch'
  <2>1. FitsFastpath(func.params[Current])
    BY DEF PlaceInSlot, CurrentType
  <2>2. ASSUME NEW i \in 1..Len(place'), place'[i].in = "slot"
        PROVE  place'[i].at \in Slots /\ FitsFastpath(func.params[i])
    <3>1. CASE i = Current
      BY <3>1, <2>1, <1>1, <1>2
    <3>2. CASE i \in 1..Len(place)
      <4>1. place[i].in = "slot" /\ place'[i].at = place[i].at
        BY <3>2, <2>2, <1>1
      <4> QED
        BY <4>1, <3>2 DEF IInv, EntriesMatch
    <3> QED
      BY <3>1, <3>2, <2>2, <1>0, <1>1
  <2>3. \A m \in 1..Len(buffer) :
          /\ buffer[m].param \in Params
          /\ buffer[m].size = func.params[buffer[m].param].size
    BY DEF IInv, EntriesMatch
  <2> QED
    BY <2>2, <2>3, <1>3 DEF EntriesMatch, Params
<1>9. SlotsCounted' /\ Complete' /\ CopiesKept' /\ MemorySized'
  BY <1>0, <1>1, <1>2, <1>3 DEF IInv, SlotsCounted, Complete, CopiesKept, MemorySized
<1> QED
  BY <1>4, <1>5, <1>6, <1>7, <1>8, <1>9 DEF IInv

\* A parameter put in the buffer starts at or after the end of the others.
LEMMA BufferStep ==
  ASSUME IInv, PlaceInBuffer
  PROVE  IInv'
<1> USE DEF NumSlots
<1> DEFINE at   == AlignTo(offset, CurrentType.align)
           last == Len(buffer) + 1
<1>0. /\ TypeOK /\ pc = "place" /\ Len(place) \in Nat /\ offset \in Nat
      /\ Current \in Params /\ Current = Len(place) + 1 /\ Len(buffer) \in Nat
      /\ counter \in Reserved(func)..4 /\ Reserved(func) \in 0..2
      /\ Len(func.params) \in Nat /\ CurrentType = func.params[Current]
      /\ CurrentType.size \in Nat /\ CurrentType.align \in Nat \ {0}
  <2>1. TypeOK /\ pc = "place" /\ Current \in Params /\ CurrentType = func.params[Current]
    BY DEF IInv, PlaceInBuffer, Unplaced, CurrentType
  <2>2. Len(place) \in Nat /\ Current = Len(place) + 1
        /\ counter \in Reserved(func)..4 /\ func \in Functions
    BY <2>1 DEF TypeOK, Current
  <2> QED
    BY <2>1, <2>2, FuncType, BufferType, ReservedBound
<1>1. at \in Nat /\ at >= offset
  BY <1>0, AlignToUp
<1> HIDE DEF at
<1>2. /\ place' \in Seq([in : {"slot", "buffer"}, at : Nat])
      /\ Len(place') = Len(place) + 1
      /\ place'[Current] = [in |-> "buffer", at |-> last]
      /\ \A i \in 1..Len(place) : place'[i] = place[i]
  BY <1>0 DEF TypeOK, PlaceInBuffer
<1>3. buffer' = Append(buffer, [param |-> Current, offset |-> at,
                                size |-> CurrentType.size])
      /\ offset' = at + CurrentType.size
  BY DEF PlaceInBuffer, at
<1>4. /\ buffer' \in Seq(Entry)
      /\ Len(buffer') = last
      /\ buffer'[last] = [param |-> Current, offset |-> at, size |-> CurrentType.size]
      /\ \A m \in 1..Len(buffer) : buffer'[m] = buffer[m]
  <2>1. [param |-> Current, offset |-> at, size |-> CurrentType.size] \in Entry
    BY <1>0, <1>1 DEF Params, Entry
  <2> QED
    BY <2>1, <1>0, <1>3 DEF TypeOK
<1>5. \A m \in 1..Len(buffer) :
        buffer[m].param \in Nat /\ buffer[m].offset \in Nat /\ buffer[m].size \in Nat
  BY <1>0, BufferType
<1>6. UNCHANGED <<func, pc, counter, slots, filled, memory, received>>
  BY DEF PlaceInBuffer
<1>7. TypeOK'
  <2>1. offset' \in Nat /\ Len(place') <= Len(func.params)
    BY <1>0, <1>1, <1>2, <1>3 DEF Params
  <2>2. filled = 0 /\ filled' \in 0..Len(buffer')
    BY <1>0, <1>4, <1>6 DEF TypeOK
  <2> QED
    BY <2>1, <2>2, <1>0, <1>2, <1>4, <1>6 DEF TypeOK
<1>8. PlacedOnce'
  <2>1. ASSUME NEW i \in 1..Len(place), place[i].in = "slot"
        PROVE  slots[place[i].at] = i
    BY <2>1 DEF IInv, PlacedOnce
  <2>2. ASSUME NEW i \in 1..Len(place), place[i].in # "slot"
        PROVE  place[i].at \in 1..last /\ buffer'[place[i].at].param = i
    <3>1. place[i].at \in 1..Len(buffer) /\ buffer[place[i].at].param = i
      BY <2>2 DEF IInv, PlacedOnce
    <3>2. buffer'[place[i].at] = buffer[place[i].at]
      BY <3>1, <1>4
    <3>3. place[i].at \in 1..last
      BY <3>1, <1>0
    <3> QED
      BY <3>1, <3>2, <3>3
  <2>3. place'[Current].in # "slot" /\ place'[Current].at = last
        /\ buffer'[last].param = Current /\ last \in 1..last
    BY <1>0, <1>2, <1>4
  <2>4. \A i \in 1..Len(place') : i = Current \/ i \in 1..Len(place)
    BY <1>0, <1>2
  <2>5. ASSUME NEW i \in 1..Len(place')
        PROVE  IF place'[i].in = "slot" THEN slots'[place'[i].at] = i
               ELSE place'[i].at \in 1..Len(buffer') /\ buffer'[place'[i].at].param = i
    <3>1. CASE i = Current
      BY <3>1, <2>3, <1>4
    <3>2. CASE i \in 1..Len(place)
      <4>1. place'[i] = place[i]
        BY <3>2, <1>2
      <4> QED
        BY <4>1, <3>2, <2>1, <2>2, <1>4, <1>6
    <3> QED
      BY <3>1, <3>2, <2>4
  <2> QED
    BY <2>5 DEF PlacedOnce
<1>9. ReservedFree'
  BY <1>6 DEF IInv, ReservedFree, InputBufSlotIndex
<1>10. NeedsInputBuffer(func)
  <2>1. CASE ~FitsFastpath(CurrentType)
    BY <2>1, <1>0 DEF NeedsInputBuffer, Params
  <2>2. CASE counter = 4 /\ buffer = <<>>
    <3>1. 4 = Reserved(func) + Len(place)
      BY <2>2 DEF IInv, SlotsCounted
    <3>2. func \in Functions
      BY <1>0 DEF TypeOK
    <3> SUFFICES ASSUME ~NeedsInputBuffer(func) PROVE FALSE
      OBVIOUS
    <3>3. Reserved(func) = OutputSlots(func) /\ OutputSlots(func) \in 0..1
      BY <3>2, ReservedBound
    <3>4. ~(Len(func.params) > 4 - OutputSlots(func))
      BY DEF NeedsInputBuffer
    <3> QED
      BY <3>1, <3>3, <3>4, <1>0 DEF Params
  <2>3. CASE buffer # <<>>
    BY <2>3 DEF IInv, BufferSlotKept, HasInputSlot
  <2>4. ~(FitsFastpath(CurrentType) /\ counter < 4)
    BY DEF PlaceInBuffer
  <2> QED
    BY <2>1, <2>2, <2>3, <2>4, <1>0
<1>11. BufferSlotKept'
  <2>1. NeedsInputBuffer(func')
    BY <1>10, <1>6
  <2> QED
    BY <2>1, <1>0, <1>6 DEF BufferSlotKept
<1>12. Disjoint'
  <2>0. offset <= offset' /\ offset' \in Nat /\ offset \in Nat
    <3>1. CurrentType.size \in Nat /\ offset \in Nat
      BY <1>0
    <3>2. offset' = at + CurrentType.size
      BY <1>3
    <3> QED
      BY <3>1, <3>2, <1>1
  <2>1. ASSUME NEW m \in 1..Len(buffer)
        PROVE  buffer[m].offset + buffer[m].size <= offset
    BY DEF IInv, Disjoint
  <2>2. ASSUME NEW m \in 1..Len(buffer), NEW n \in 1..(m - 1)
        PROVE  buffer[n].offset + buffer[n].size <= buffer[m].offset
    BY DEF IInv, Disjoint
  <2>3. \A m \in 1..last : m = last \/ m \in 1..Len(buffer)
    BY <1>0
  <2>4. buffer'[last].offset = at /\ buffer'[last].size = CurrentType.size
    BY <1>4
  <2>5. ASSUME NEW m \in 1..last
        PROVE  buffer'[m].offset + buffer'[m].size <= offset'
    <3>1. CASE m = last
      BY <3>1, <2>4, <1>0, <1>1, <1>3
    <3>2. CASE m \in 1..Len(buffer)
      <4>1. buffer'[m] = buffer[m]
        BY <3>2, <1>4
      <4>2. buffer[m].offset + buffer[m].size <= offset
        BY <3>2, <2>1
      <4>3. buffer[m].offset \in Nat /\ buffer[m].size \in Nat
        BY <3>2, <1>5
      <4>4. offset <= offset' /\ offset' \in Nat /\ offset \in Nat
        BY <2>0
      <4>5. buffer[m].offset + buffer[m].size <= offset'
        BY <4>2, <4>3, <4>4
      <4> QED
        BY <4>1, <4>5
    <3> QED
      BY <3>1, <3>2, <2>3
  <2>6. ASSUME NEW m \in 1..last, NEW n \in 1..(m - 1)
        PROVE  buffer'[n].offset + buffer'[n].size <= buffer'[m].offset
    <3>0. n \in 1..Len(buffer)
      BY <1>0
    <3>1. n \in 1..Len(buffer) /\ buffer'[n] = buffer[n]
      BY <3>0, <1>4
    <3>2. CASE m = last
      BY <3>1, <3>2, <2>1, <2>4, <1>0, <1>1, <1>5
    <3>3. CASE m \in 1..Len(buffer)
      BY <3>1, <3>3, <2>2, <1>4
    <3> QED
      BY <3>2, <3>3, <2>3
  <2> QED
    BY <2>5, <2>6, <1>4 DEF Disjoint
<1>13. EntriesMatch'
  <2>1. ASSUME NEW i \in 1..Len(place'), place'[i].in = "slot"
        PROVE  place'[i].at \in Slots /\ FitsFastpath(func.params[i])
    <3>1. i \in 1..Len(place) /\ place'[i] = place[i]
      BY <2>1, <1>0, <1>2
    <3> QED
      BY <3>1, <2>1 DEF IInv, EntriesMatch
  <2>2. ASSUME NEW m \in 1..Len(buffer')
        PROVE  /\ buffer'[m].param \in Params
               /\ buffer'[m].size = func.params[buffer'[m].param].size
    <3>1. CASE m = last
      BY <3>1, <1>0, <1>4
    <3>2. CASE m \in 1..Len(buffer)
      <4>1. buffer'[m] = buffer[m]
        BY <3>2, <1>4
      <4> QED
        BY <4>1, <3>2 DEF IInv, EntriesMatch
    <3> QED
      BY <3>1, <3>2, <1>0, <1>4
  <2> QED
    BY <2>1, <2>2, <1>6 DEF EntriesMatch, Params
<1>14. SlotsCounted' /\ Complete' /\ CopiesKept' /\ MemorySized'
  <2>1. buffer' # <<>>
    BY <1>0, <1>4
  <2> QED
    BY <2>1, <1>0, <1>6 DEF SlotsCounted, Complete, CopiesKept, MemorySized
<1> QED
  BY <1>7, <1>8, <1>9, <1>11, <1>12, <1>13, <1>14 DEF IInv

\* A copy leaves the ones before it alone: the pieces are disjoint.
LEMMA FillStep ==
  ASSUME IInv, Fill
  PROVE  IInv'
<1> DEFINE e == buffer[filled + 1]
<1>0. /\ TypeOK /\ pc = "fill" /\ Len(buffer) \in Nat /\ filled \in Nat
      /\ filled + 1 \in 1..Len(buffer) /\ offset \in Nat
      /\ DOMAIN memory = 0..(offset - 1)
  BY DEF IInv, TypeOK, Fill, MemorySized
<1>1. \A m \in 1..Len(buffer) :
        buffer[m].param \in Nat /\ buffer[m].offset \in Nat /\ buffer[m].size \in Nat
  BY <1>0, BufferType
<1>2. UNCHANGED <<func, pc, counter, slots, buffer, place, offset, received>>
  BY DEF Fill, layout
<1>3. filled' = filled + 1 /\ memory' = Copied(e)
  BY DEF Fill
<1>4. \A m \in 1..Len(buffer) : buffer[m].offset + buffer[m].size <= offset
  BY DEF IInv, Disjoint
<1>5. ASSUME NEW b \in 0..(e.size - 1)
      PROVE  memory'[e.offset + b] = <<e.param, b>>
  <2>1. e.offset + b \in 0..(offset - 1)
    BY <1>0, <1>1, <1>4
  <2>2. e.offset + b \in e.offset..(e.offset + e.size - 1)
        /\ (e.offset + b) - e.offset = b
    BY <1>0, <1>1
  <2> QED
    BY <2>1, <2>2, <1>0, <1>3 DEF Copied
<1>6. ASSUME NEW m \in 1..filled, NEW b \in 0..(buffer[m].size - 1)
      PROVE  memory'[buffer[m].offset + b] = <<buffer[m].param, b>>
  <2>0. m \in 1..Len(buffer) /\ m \in 1..((filled + 1) - 1)
    BY <1>0
  <2>1. buffer[m].offset + b \in 0..(offset - 1)
    BY <2>0, <1>0, <1>1, <1>4
  <2>2. buffer[m].offset + buffer[m].size <= e.offset
    BY <2>0, <1>0 DEF IInv, Disjoint
  <2>3. buffer[m].offset + b \notin e.offset..(e.offset + e.size - 1)
    <3>1. buffer[m].offset + b < e.offset
      BY <2>0, <2>2, <1>0, <1>1
    <3>2. e.offset \in Nat /\ buffer[m].offset + b \in Nat
      BY <2>0, <1>0, <1>1
    <3> QED
      BY <3>1, <3>2
  <2>4. memory[buffer[m].offset + b] = <<buffer[m].param, b>>
    BY <1>0 DEF IInv, CopiesKept
  <2> QED
    BY <2>1, <2>3, <2>4, <1>0, <1>3 DEF Copied
<1>7. CopiesKept'
  <2>1. \A m \in 1..(filled + 1) : m = filled + 1 \/ m \in 1..filled
    BY <1>0
  <2> QED
    BY <2>1, <1>2, <1>3, <1>5, <1>6 DEF CopiesKept
<1>8. MemorySized'
  BY <1>0, <1>2, <1>3 DEF MemorySized, Copied
<1>9. TypeOK'
  BY <1>0, <1>2, <1>3 DEF TypeOK
<1>10. PlacedOnce' /\ ReservedFree' /\ BufferSlotKept' /\ Disjoint'
  BY <1>2 DEF IInv, PlacedOnce, ReservedFree, BufferSlotKept, Disjoint,
               HasInputSlot, InputBufSlotIndex
<1>11. EntriesMatch' /\ SlotsCounted' /\ Complete'
  BY <1>2 DEF IInv, EntriesMatch, SlotsCounted, Complete, Params
<1> QED
  BY <1>7, <1>8, <1>9, <1>10, <1>11 DEF IInv

\* The layout does not change any more once the call is made.
LEMMA CallStep ==
  ASSUME IInv, StartCall \/ CallWrapper
  PROVE  IInv'
<1>1. UNCHANGED <<func, counter, slots, buffer, place, offset, filled>>
  BY DEF StartCall, CallWrapper, layout
<1>2. PlacedOnce' /\ ReservedFree' /\ Disjoint'
  BY <1>1 DEF IInv, PlacedOnce, ReservedFree, Disjoint, InputBufSlotIndex
<1>3. EntriesMatch' /\ SlotsCounted'
  BY <1>1 DEF IInv, EntriesMatch, SlotsCounted, Params
<1>4. CASE CallWrapper
  <2>1. pc = "fill" /\ pc' = "called" /\ memory' = memory
    BY <1>4 DEF CallWrapper
  <2>2. TypeOK' /\ BufferSlotKept' /\ Complete' /\ CopiesKept' /\ MemorySized'
    BY <1>1, <2>1
       DEF IInv, TypeOK, BufferSlotKept, HasInputSlot, Complete, CopiesKept, MemorySized
  <2> QED
    BY <1>2, <1>3, <2>2 DEF IInv
<1>5. CASE StartCall
  <2>1. /\ pc = "place" /\ pc' = "fill" /\ Len(place) = Len(func.params)
        /\ memory' = [n \in 0..(offset - 1) |-> <<0, 0>>]
    BY <1>5, FuncType DEF IInv, TypeOK, StartCall, Current, Params
  <2>2. filled = 0
    BY <2>1 DEF IInv, TypeOK
  <2>3. TypeOK' /\ Complete' /\ CopiesKept' /\ MemorySized'
    BY <1>1, <2>1, <2>2 DEF IInv, TypeOK, Complete, CopiesKept, MemorySized
  <2>4. NeedsInputBuffer(func) => HasInputSlot
    <3> SUFFICES ASSUME NeedsInputBuffer(func), buffer = <<>> PROVE FALSE
      BY DEF HasInputSlot
    <3>1. \A i \in 1..Len(func.params) : FitsFastpath(func.params[i])
      <4> SUFFICES ASSUME NEW i \in 1..Len(func.params)
                   PROVE  FitsFastpath(func.params[i])
        OBVIOUS
      <4>1. place[i].in = "slot"
        BY <2>1 DEF IInv, PlacedOnce
      <4> QED
        BY <4>1, <2>1 DEF IInv, EntriesMatch
    <3>2. Len(func.params) > 4 - OutputSlots(func)
      BY <3>1 DEF NeedsInputBuffer, NumSlots
    <3>3. counter = OutputSlots(func) + 1 + Len(func.params) /\ counter <= 4
      BY <2>1, ReservedBound DEF IInv, SlotsCounted, TypeOK, NumSlots
    <3> QED
      BY <3>2, <3>3, FuncType, ReservedBound DEF IInv, TypeOK
  <2>5. BufferSlotKept'
    BY <1>1, <2>1, <2>4 DEF IInv, BufferSlotKept, HasInputSlot
  <2> QED
    BY <1>2, <1>3, <2>3, <2>5 DEF IInv
<1> QED
  BY <1>4, <1>5

LEMMA StutterStep ==
  ASSUME IInv, UNCHANGED vars
  PROVE  IInv'
BY DEF vars, IInv, TypeOK, PlacedOnce, ReservedFree, BufferSlotKept, Disjoint,
       EntriesMatch, SlotsCounted, Complete, CopiesKept, MemorySized,
       HasInputSlot, InputBufSlotIndex, Params

\* The invariant holds in every reachable state: the parameters of every
\* prototype are laid out without two of them sharing a slot or a byte.
THEOREM Layout == Spec => []IInv
<1>1. IInv /\ [Next]_vars => IInv'
  BY SlotStep, BufferStep, FillStep, CallStep, StutterStep DEF Next
<1> QED
  BY InitIInv, <1>1, PTL DEF Spec

\* The tables have their types, whatever the prototype (403-419).
THEOREM TypeCorrect == Spec => []TypeOK
<1>1. IInv => TypeOK
  BY DEF IInv
<1> QED
  BY Layout, <1>1, PTL

\* Arguments in the buffer never overlap, for any sizes and alignments (412).
THEOREM BufferDisjoint == Spec => []Disjoint
<1>1. IInv => Disjoint
  BY DEF IInv
<1> QED
  BY Layout, <1>1, PTL

\* Every argument in the buffer has the alignment of its type, for any sizes
\* and alignments: a piece gets its offset when it is placed and keeps it (412).
THEOREM BufferAligned == Spec => []Aligned
<1>1. Init => Aligned
  BY DEF Init, Aligned
<1>2. IInv /\ Aligned /\ [Next]_vars => Aligned'
  <2> SUFFICES ASSUME IInv, Aligned, [Next]_vars
               PROVE  Aligned'
    OBVIOUS
  <2>1. CASE PlaceInBuffer
    <3> DEFINE at == AlignTo(offset, CurrentType.align)
    <3>1. TypeOK /\ Current \in Params /\ CurrentType = func.params[Current]
      BY <2>1 DEF IInv, PlaceInBuffer, Unplaced, CurrentType
    <3>2. /\ offset \in Nat /\ Len(buffer) \in Nat
          /\ CurrentType.align \in Nat \ {0}
      BY <3>1, FuncType, BufferType DEF TypeOK
    <3>3. at % CurrentType.align = 0
      BY <3>2, AlignToMultiple
    <3> HIDE DEF at
    <3>4. /\ buffer' = Append(buffer, [param |-> Current, offset |-> at,
                                       size |-> CurrentType.size])
          /\ func' = func /\ buffer \in Seq(Entry)
      BY <2>1, <3>1 DEF PlaceInBuffer, at, TypeOK
    <3>5. ASSUME NEW m \in 1..Len(buffer')
          PROVE  buffer'[m].offset % func.params[buffer'[m].param].align = 0
      <4>1. CASE m \in 1..Len(buffer)
        BY <4>1, <3>4 DEF Aligned
      <4>2. CASE m = Len(buffer) + 1
        BY <4>2, <3>1, <3>3, <3>4
      <4> QED
        BY <4>1, <4>2, <3>2, <3>4
    <3> QED
      BY <3>4, <3>5 DEF Aligned
  <2>2. CASE PlaceInSlot \/ StartCall \/ Fill \/ CallWrapper \/ UNCHANGED vars
    BY <2>2 DEF Aligned, PlaceInSlot, StartCall, Fill, CallWrapper, layout, vars
  <2> QED
    BY <2>1, <2>2 DEF Next
<1> QED
  BY Layout, <1>1, <1>2, PTL DEF Spec

\* The slot kept before the placement for the buffer is kept exactly when
\* the placement uses it, so the wrapper and the call agree (383, 272).
THEOREM BufferSlotAgreed == Spec => []BufferSlotKept
<1>1. IInv => BufferSlotKept
  BY DEF IInv
<1> QED
  BY Layout, <1>1, PTL

\* A slot that holds an argument is neither the one of the result nor the
\* one of the buffer.
LEMMA SlotOfParam ==
  ASSUME IInv, NEW i \in 1..Len(place), place[i].in = "slot"
  PROVE  /\ place[i].at \in Slots /\ slots[place[i].at] = i
         /\ ~(~func.void /\ place[i].at = 0)
         /\ ~(HasInputSlot /\ place[i].at = InputBufSlotIndex)
<1>1. place[i].at \in Slots /\ slots[place[i].at] = i /\ i # 0
  BY DEF IInv, PlacedOnce, EntriesMatch
<1>2. /\ place[i].at >= OutputSlots(func)
      /\ NeedsInputBuffer(func) => place[i].at # InputBufSlotIndex
  BY <1>1 DEF IInv, ReservedFree
<1>3. ~func.void => OutputSlots(func) = 1
  BY DEF OutputSlots
<1>4. HasInputSlot => NeedsInputBuffer(func)
  BY DEF IInv, BufferSlotKept
<1> QED
  BY <1>1, <1>2, <1>3, <1>4 DEF Slots, NumSlots

\* Once the buffer is filled, what the wrapper reads is what the call passes.
LEMMA ReadsRight ==
  ASSUME IInv, ScalarsFit, pc = "fill", filled = Len(buffer),
         NEW i \in Params, NEW b \in Bytes(i)
  PROVE  Read(i, b) = <<i, b>>
<1>1. /\ TypeOK /\ i \in 1..Len(place) /\ func \in Functions
      /\ func.params[i].size \in Nat
  BY FuncType DEF IInv, Complete, Params, TypeOK
<1>2. CASE place[i].in = "slot"
  <2>1. FitsFastpath(func.params[i]) /\ i \in 1..Len(func.params)
    BY <1>1, <1>2 DEF IInv, EntriesMatch, Params
  <2>2. b < WordBytes
    <3>1. func.params[i].size <= WordBytes
      BY <1>1, <2>1 DEF ScalarsFit, FitsFastpath
    <3>2. WordBytes \in Nat
      BY PointerWidthAssumption DEF WordBytes
    <3> QED
      BY <1>1, <3>1, <3>2 DEF Bytes
  <2>3. ~(b >= WordBytes)
    BY <2>2, <1>1, PointerWidthAssumption DEF WordBytes, Bytes
  <2> QED
    BY <1>1, <1>2, <2>3, SlotOfParam DEF Read, InSlot
<1>3. CASE place[i].in # "slot"
  <2>1. place[i].at \in 1..Len(buffer) /\ buffer[place[i].at].param = i
    BY <1>1, <1>3 DEF IInv, PlacedOnce
  <2>2. buffer[place[i].at].size = func.params[i].size
    BY <2>1 DEF IInv, EntriesMatch
  <2>3. memory[buffer[place[i].at].offset + b] = <<i, b>>
    BY <2>1, <2>2 DEF IInv, CopiesKept, Bytes
  <2> QED
    BY <1>3, <2>3 DEF Read
<1> QED
  BY <1>2, <1>3

\* The external function gets every argument, byte for byte, if no integer
\* or pointer parameter is wider than a word: for every number, size and
\* alignment of parameters (425-648).
THEOREM ArgumentsDelivered ==
  ASSUME ScalarsFit
  PROVE  Spec => []ArgumentsArrive
<1>1. Init => ArgumentsArrive
  BY DEF Init, ArgumentsArrive
<1>2. IInv /\ ArgumentsArrive /\ [Next]_vars => ArgumentsArrive'
  <2> SUFFICES ASSUME IInv, ArgumentsArrive, [Next]_vars
               PROVE  ArgumentsArrive'
    OBVIOUS
  <2>1. CASE CallWrapper
    <3>1. /\ pc = "fill" /\ filled = Len(buffer) /\ func' = func
          /\ received' = [i \in Params |-> [b \in Bytes(i) |-> Read(i, b)]]
      BY <2>1 DEF CallWrapper
    <3>2. \A i \in Params : \A b \in Bytes(i) : received'[i][b] = <<i, b>>
      BY <3>1, ReadsRight
    <3> QED
      BY <3>1, <3>2 DEF ArgumentsArrive, Params, Bytes
  <2>2. CASE PlaceInSlot \/ PlaceInBuffer \/ StartCall \/ Fill
    BY <2>2 DEF ArgumentsArrive, PlaceInSlot, PlaceInBuffer, StartCall, Fill, Unplaced
  <2>3. CASE UNCHANGED vars
    BY <2>3 DEF ArgumentsArrive, vars, Params, Bytes
  <2> QED
    BY <2>1, <2>2, <2>3 DEF Next
<1> QED
  BY Layout, <1>1, <1>2, PTL DEF Spec
=============================================================================
