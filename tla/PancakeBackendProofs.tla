-------------------------- MODULE PancakeBackendProofs --------------------------
(***************************************************************************)
(* Proofs about GlobalStorage: whatever the declarations of a file are,    *)
(* and in whatever order they come, each repeated or not, the variables    *)
(* are apart, aligned and inside the heap.  And about PancakeBackend,      *)
(* whatever texts its passes write: it places variables as GlobalStorage   *)
(* says, all of them, and goes through the file once.                      *)
(***************************************************************************)
EXTENDS PancakeBackend, WellFoundedInduction, TLAPS

\* Rounding up gives a multiple of the alignment that is not below.
LEMMA RoundedUp ==
  ASSUME NEW n \in Nat, NEW a \in Nat \ {0}
  PROVE  RoundUp(n, a) \in Nat /\ RoundUp(n, a) >= n /\ RoundUp(n, a) % a = 0
<1>1. PICK k \in Int : k = (n + a - 1) \div a
  OBVIOUS
<1>2. n + a - 1 = a * k + ((n + a - 1) % a) /\ (n + a - 1) % a \in 0..(a - 1)
  BY <1>1
<1>3. k * a = a * k /\ k * a \in Int
  OBVIOUS
<1>4. k * a >= n
  BY <1>2, <1>3
<1>5. (k * a) % a = 0
  <2>1. k * a = a * k + 0 /\ 0 \in 0..(a - 1)
    BY <1>3
  <2> QED
    BY <2>1
<1> QED
  BY <1>1, <1>3, <1>4, <1>5 DEF RoundUp

\* A new variable lies behind the others and ends where the next may begin.
LEMMA SlotBehind ==
  ASSUME StorageTypeOK, NEW d \in Declarations
  PROVE  /\ Addr(d) \in Nat /\ EndOf(d) \in Nat
         /\ next_global_var_addr <= Addr(d)
         /\ EndOf(d) = Addr(d) + d.size /\ Addr(d) <= EndOf(d)
         /\ Addr(d) % d.align = 0
         /\ Slot(d) \in [addr : Nat, size : Nat, align : Nat \ {0}]
<1>1. d.size \in Nat /\ d.align \in Nat \ {0} /\ next_global_var_addr \in Nat
  BY DeclarationsAssumption DEF StorageTypeOK
<1>2. Addr(d) \in Nat /\ next_global_var_addr <= Addr(d) /\ Addr(d) % d.align = 0
  BY <1>1, RoundedUp DEF Addr
<1> QED
  BY <1>1, <1>2 DEF EndOf, Slot

LEMMA StorageStarts == StorageInit => StorageInv
BY DEF StorageInit, StorageInv, StorageTypeOK, Apart, Aligned, Behind

LEMMA Placed ==
  ASSUME StorageInv, NEW d \in Declarations, Place(d)
  PROVE  StorageInv'
<1>0. StorageTypeOK /\ Apart /\ Aligned /\ Behind
  BY DEF StorageInv
<1>1. /\ Addr(d) \in Nat /\ EndOf(d) \in Nat
      /\ next_global_var_addr <= Addr(d)
      /\ EndOf(d) = Addr(d) + d.size /\ Addr(d) <= EndOf(d)
      /\ Addr(d) % d.align = 0
      /\ Slot(d) \in [addr : Nat, size : Nat, align : Nat \ {0}]
  BY <1>0, SlotBehind
<1>2. /\ DOMAIN defines' = DOMAIN defines \cup {d.name}
      /\ defines'[d.name] = Slot(d)
      /\ \A n \in DOMAIN defines : n # d.name => defines'[n] = defines[n]
      /\ next_global_var_addr' = EndOf(d)
      /\ heap_size' = heap_size /\ placing' = placing /\ placing = "running"
  BY DEF Place
<1>3. /\ Slot(d).addr = Addr(d) /\ Slot(d).size = d.size /\ Slot(d).align = d.align
      /\ d.size \in Nat
  BY DeclarationsAssumption DEF Slot
<1>4. \A n \in DOMAIN defines : /\ defines[n] \in [addr : Nat, size : Nat, align : Nat \ {0}]
                                /\ End(n) \in Nat /\ End(n) <= next_global_var_addr
                                /\ defines[n].addr \in Nat
  BY <1>0 DEF StorageTypeOK, Behind, End
<1>5. next_global_var_addr \in Nat
  BY <1>0 DEF StorageTypeOK
\* what each name stands for afterwards
<1>6. ASSUME NEW n \in DOMAIN defines', n # d.name
      PROVE  n \in DOMAIN defines /\ defines'[n] = defines[n] /\ End(n)' = End(n)
             /\ End(n)' <= next_global_var_addr /\ End(n)' \in Nat
  BY <1>2, <1>4, <1>6 DEF End
<1>7. End(d.name)' = EndOf(d) /\ defines'[d.name].addr = Addr(d)
  BY <1>1, <1>2, <1>3 DEF End
<1>8. StorageTypeOK'
  <2>1. DOMAIN defines' \subseteq Names
    BY <1>0, <1>2 DEF StorageTypeOK, Names
  <2>2. \A n \in DOMAIN defines' : defines'[n] \in [addr : Nat, size : Nat, align : Nat \ {0}]
    BY <1>1, <1>2, <1>4
  <2> QED
    BY <2>1, <2>2, <1>0, <1>1, <1>2 DEF StorageTypeOK
<1>9. Apart'
  <2> SUFFICES ASSUME NEW m \in DOMAIN defines', NEW n \in DOMAIN defines', m # n
               PROVE  End(m)' <= defines'[n].addr \/ End(n)' <= defines'[m].addr
    BY DEF Apart
  <2>1. CASE m = d.name
    BY <2>1, <1>1, <1>5, <1>6, <1>7
  <2>2. CASE n = d.name
    BY <2>2, <1>1, <1>5, <1>6, <1>7
  <2>3. CASE m # d.name /\ n # d.name
    BY <2>3, <1>0, <1>6 DEF Apart
  <2> QED
    BY <2>1, <2>2, <2>3
<1>10. Aligned'
  <2> SUFFICES ASSUME NEW n \in DOMAIN defines'
               PROVE  defines'[n].addr % defines'[n].align = 0
    BY DEF Aligned
  <2>1. CASE n = d.name
    BY <2>1, <1>1, <1>2, <1>3
  <2>2. CASE n # d.name
    BY <2>2, <1>0, <1>6 DEF Aligned
  <2> QED
    BY <2>1, <2>2
<1>11. Behind'
  <2> SUFFICES ASSUME NEW n \in DOMAIN defines'
               PROVE  End(n)' <= next_global_var_addr'
    BY DEF Behind
  <2>1. CASE n = d.name
    BY <2>1, <1>1, <1>2, <1>7
  <2>2. CASE n # d.name
    BY <2>2, <1>1, <1>2, <1>5, <1>6
  <2> QED
    BY <2>1, <2>2
<1> QED
  BY <1>2, <1>8, <1>9, <1>10, <1>11 DEF StorageInv

\* Beyond placing a variable, a step leaves the macros alone.
LEMMA Unplaced ==
  ASSUME StorageInv, Publish \/ (\E d \in Declarations : Reject(d)) \/ UNCHANGED svars
  PROVE  StorageInv'
<1>0. StorageTypeOK /\ Apart /\ Aligned /\ Behind
  BY DEF StorageInv
<1>1. CASE Publish
  <2>1. /\ defines' = defines /\ next_global_var_addr' = next_global_var_addr
        /\ heap_size' = next_global_var_addr /\ placing' = "published"
    BY <1>1 DEF Publish
  <2> QED
    BY <2>1, <1>0 DEF StorageInv, StorageTypeOK, Apart, Aligned, Behind, End
<1>2. CASE \E d \in Declarations : Reject(d)
  <2>1. PICK d \in Declarations : Reject(d)
    BY <1>2
  <2>2. /\ defines' = defines /\ next_global_var_addr' = EndOf(d)
        /\ heap_size' = heap_size /\ placing' = "failed"
    BY <2>1 DEF Reject
  <2>3. EndOf(d) \in Nat /\ next_global_var_addr \in Nat /\ next_global_var_addr <= EndOf(d)
    BY <1>0, SlotBehind DEF StorageTypeOK
  <2>4. \A n \in DOMAIN defines : End(n) \in Nat /\ End(n) <= next_global_var_addr
    BY <1>0 DEF StorageTypeOK, Behind, End
  <2>5. Behind'
    <3>1. \A n \in DOMAIN defines : End(n)' = End(n)
      BY <2>2 DEF End
    <3> QED
      BY <3>1, <2>2, <2>3, <2>4 DEF Behind
  <2> QED
    BY <2>2, <2>3, <2>5, <1>0 DEF StorageInv, StorageTypeOK, Apart, Aligned, End
<1>3. CASE UNCHANGED svars
  BY <1>3, <1>0 DEF StorageInv, StorageTypeOK, Apart, Aligned, Behind, End, svars
<1> QED
  BY <1>1, <1>2, <1>3

LEMMA StorageKept == StorageInv /\ [StorageNext]_svars => StorageInv'
BY Placed, Unplaced DEF StorageNext

\* The invariant that is inductive holds in every reachable state.
THEOREM Storage == StorageSpec => []StorageInv
<1> QED
  BY StorageStarts, StorageKept, PTL DEF StorageSpec

\* No store to one variable reaches another.
THEOREM VariablesApart == StorageSpec => []Apart
<1>1. StorageInv => Apart
  BY DEF StorageInv
<1> QED
  BY <1>1, Storage, PTL

\* Every variable has an address its type may have.
THEOREM VariablesAligned == StorageSpec => []Aligned
<1>1. StorageInv => Aligned
  BY DEF StorageInv
<1> QED
  BY <1>1, Storage, PTL

\* The stack begins behind all variables.
THEOREM VariablesInHeap == StorageSpec => []InHeap
<1>1. StorageInv => InHeap
  BY DEF StorageInv, InHeap, Behind
<1> QED
  BY <1>1, Storage, PTL
-----------------------------------------------------------------------------
(* PancakeBackend.                                                         *)

Above(u) == Len(u.before) + Len(MovedOut(u))

\* What the file declares once the locals are hoisted: the variables above the
\* function, then those below.
LEMMA Layout ==
  ASSUME NEW u \in Units
  PROVE  LET vs == u.before \o MovedOut(u) \o u.after
         IN  /\ vs \in Seq(Variables) /\ Len(vs) \in Nat /\ Above(u) \in Nat
             /\ Len(vs) - Len(u.after) = Above(u) /\ Above(u) <= Len(vs)
             /\ {vs[i].name : i \in 1..Above(u)} = NamesOf(u.before) \cup NamesOf(MovedOut(u))
<1> DEFINE vs == u.before \o MovedOut(u) \o u.after
           b  == u.before
           m  == MovedOut(u)
           a  == u.after
<1>1. b \in Seq(Variables) /\ m \in Seq(Variables) /\ a \in Seq(Variables)
  BY UnitsAssumption
<1> HIDE DEF b, m, a
<1>2. /\ b \o m \in Seq(Variables) /\ Len(b \o m) = Len(b) + Len(m)
      /\ \A i \in 1..Len(b) : (b \o m)[i] = b[i]
      /\ \A i \in 1..Len(m) : (b \o m)[Len(b) + i] = m[i]
  BY <1>1
<1>3. /\ (b \o m) \o a \in Seq(Variables) /\ Len((b \o m) \o a) = Len(b \o m) + Len(a)
      /\ \A i \in 1..Len(b \o m) : ((b \o m) \o a)[i] = (b \o m)[i]
  BY <1>1, <1>2
<1>4. Len(b) \in Nat /\ Len(m) \in Nat /\ Len(a) \in Nat
  BY <1>1
<1>5. {(b \o m \o a)[i].name : i \in 1..(Len(b) + Len(m))} = NamesOf(b) \cup NamesOf(m)
  <2>1. DOMAIN b = 1..Len(b) /\ DOMAIN m = 1..Len(m)
    BY <1>1
  <2>2. ASSUME NEW i \in 1..(Len(b) + Len(m))
        PROVE  (b \o m \o a)[i].name \in NamesOf(b) \cup NamesOf(m)
    <3>1. CASE i \in 1..Len(b)
      <4>1. (b \o m \o a)[i] = b[i]
        BY <3>1, <1>2, <1>3, <1>4
      <4> QED
        BY <4>1, <3>1, <2>1 DEF NamesOf
    <3>2. CASE i \notin 1..Len(b)
      <4>1. i - Len(b) \in 1..Len(m) /\ i = Len(b) + (i - Len(b))
        BY <3>2, <2>2, <1>4
      <4>2. (b \o m \o a)[i] = m[i - Len(b)]
        BY <4>1, <1>2, <1>3, <1>4
      <4> QED
        BY <4>1, <4>2, <2>1 DEF NamesOf
    <3> QED
      BY <3>1, <3>2
  <2>3. ASSUME NEW i \in 1..Len(b)
        PROVE  i \in 1..(Len(b) + Len(m)) /\ (b \o m \o a)[i].name = b[i].name
    BY <2>3, <1>2, <1>3, <1>4
  <2>4. ASSUME NEW i \in 1..Len(m)
        PROVE  Len(b) + i \in 1..(Len(b) + Len(m)) /\ (b \o m \o a)[Len(b) + i].name = m[i].name
    BY <2>4, <1>2, <1>3, <1>4
  <2>5. ASSUME NEW n \in NamesOf(b) \cup NamesOf(m)
        PROVE  \E i \in 1..(Len(b) + Len(m)) : (b \o m \o a)[i].name = n
    <3>1. CASE n \in NamesOf(b)
      <4>1. PICK i \in 1..Len(b) : b[i].name = n
        BY <3>1, <2>1 DEF NamesOf
      <4> QED
        BY <4>1, <2>3
    <3>2. CASE n \in NamesOf(m)
      <4>1. PICK i \in 1..Len(m) : m[i].name = n
        BY <3>2, <2>1 DEF NamesOf
      <4> QED
        BY <4>1, <2>4
    <3> QED
      BY <2>5, <3>1, <3>2
  <2> QED
    BY <2>2, <2>5
<1>6. /\ vs \in Seq(Variables) /\ Len(vs) \in Nat /\ Above(u) \in Nat
      /\ Len(vs) - Len(u.after) = Above(u) /\ Above(u) <= Len(vs)
  <2>1. Above(u) = Len(b) + Len(m) /\ vs = (b \o m) \o a /\ u.after = a
    BY DEF Above, b, m, a
  <2> QED
    BY <2>1, <1>2, <1>3, <1>4
<1>7. {vs[i].name : i \in 1..Above(u)} = NamesOf(u.before) \cup NamesOf(MovedOut(u))
  BY <1>5 DEF Above, b, m, a
<1> QED
  BY <1>6, <1>7

\* The same before anything is hoisted.
LEMMA SourceLayout ==
  ASSUME NEW u \in Units
  PROVE  /\ u.before \o u.after \in Seq(Variables)
         /\ Len(u.before \o u.after) \in Nat /\ Len(u.after) \in Nat
         /\ 0 <= Len(u.before \o u.after) - Len(u.after)
<1>1. u.before \in Seq(Variables) /\ u.after \in Seq(Variables)
  BY UnitsAssumption
<1>2. Len(u.before \o u.after) = Len(u.before) + Len(u.after)
  BY <1>1
<1>3. Len(u.before) \in Nat /\ Len(u.after) \in Nat
  BY <1>1
<1>4. u.before \o u.after \in Seq(Variables)
  BY <1>1
<1>5. \A k, n \in Nat : k + n \in Nat /\ 0 <= (k + n) - n
  OBVIOUS
<1> QED
  BY <1>2, <1>3, <1>4, <1>5

\* What is placed next is a declaration.
LEMMA DeclarationNext ==
  ASSUME IInv, AtVariable
  PROVE  /\ placed \in Nat /\ placed + 1 \in DOMAIN vars /\ vars[placed + 1] \in Variables
         /\ DeclarationOf(vars[placed + 1]) \in Declarations
<1>1. unit \in Units /\ vars = unit.before \o MovedOut(unit) \o unit.after /\ placed \in 0..Len(vars)
      /\ placed < Len(vars)
  BY DEF IInv, FileInv, TypeOK, Staged, AtVariable
<1>2. vars \in Seq(Variables)
  BY <1>1, Layout
<1>3. placed \in Nat /\ placed + 1 \in 1..Len(vars)
  <2>1. Len(vars) \in Nat
    BY <1>2
  <2>2. \A n \in Nat : \A k \in 0..n : k < n => k \in Nat /\ k + 1 \in 1..n
    OBVIOUS
  <2> QED
    BY <1>1, <2>1, <2>2
<1>4. DOMAIN vars = 1..Len(vars)
  BY <1>2
<1> QED
  BY <1>2, <1>3, <1>4, VariablesAssumption DEF DeclarationOf

\* Every step places, rejects or publishes as GlobalStorage does, or leaves
\* the storage alone.
LEMMA StorageStep ==
  ASSUME IInv, [Next]_bvars
  PROVE  [StorageNext]_svars
<1>1. CASE PlaceGlobal
  BY <1>1, DeclarationNext DEF PlaceGlobal, StorageNext
<1>2. CASE RejectGlobal
  BY <1>2, DeclarationNext DEF RejectGlobal, StorageNext
<1>3. CASE PublishHeapSize
  BY <1>3 DEF PublishHeapSize, StorageNext
<1>4. CASE RenameLocals \/ RejectStatic \/ HoistLocals \/ TranslateStatement \/ RefuseStatement
  BY <1>4 DEF RenameLocals, RejectStatic, HoistLocals, TranslateStatement, RefuseStatement
<1>5. CASE UNCHANGED bvars
  BY <1>5 DEF bvars
<1> QED
  BY <1>1, <1>2, <1>3, <1>4, <1>5 DEF Next

LEMMA BackendStarts == Init => IInv
<1> SUFFICES ASSUME Init
             PROVE  IInv
  OBVIOUS
<1>1. /\ unit \in Units /\ text = unit.body /\ vars = unit.before \o unit.after /\ placed = 0
      /\ stmt = 1 /\ pass = "rename" /\ StorageInit
  BY DEF Init
<1>2. StorageInv /\ StorageTypeOK
  BY <1>1, StorageStarts DEF StorageInv
<1>3. /\ Len(vars) \in Nat /\ Len(unit.after) \in Nat /\ 0 <= Len(vars) - Len(unit.after)
      /\ Len(text.kids) \in Nat
  BY <1>1, SourceLayout, UnitsAssumption
<1>4. defines = [n \in {} |-> NotSet] /\ heap_size = NotSet /\ placing = "running"
  BY <1>1 DEF StorageInit
<1>5. TypeOK
  <2>1. \A n \in Nat : 0 \in 0..n /\ 1 \in 1..(n + 1)
    OBVIOUS
  <2>2. placed \in 0..Len(vars)
    BY <2>1, <1>1, <1>3
  <2>3. stmt \in 1..(Len(text.kids) + 1)
    BY <2>1, <1>1, <1>3
  <2> QED
    BY <2>2, <2>3, <1>1, <1>2 DEF TypeOK
<1>6. LastCounts
  BY <1>1, <1>4 DEF LastCounts
<1> QED
  BY <1>1, <1>2, <1>3, <1>4, <1>5, <1>6 DEF IInv, FileInv, Staged, PublishedLast, TopDown
\* A set of numbers with a bound, not empty, has a greatest.
LEMMA LastOne ==
  ASSUME NEW n \in Nat, NEW T \in SUBSET (1..n), T # {}
  PROVE  \E i \in T : \A j \in T : j <= i
<1>1. \A i \in T : n - i \in Nat
  OBVIOUS
<1>2. {n - i : i \in T} \in SUBSET Nat /\ {n - i : i \in T} # {}
  BY <1>1, ZenonT(20)
<1>3. PICK k \in {n - i : i \in T} : \A m \in {n - i : i \in T} : ~(<< m, k >> \in OpToRel(<, Nat))
  BY <1>2, NatLessThanWellFounded, WFMin
<1>4. PICK i \in T : k = n - i
  BY <1>3
<1>5. ASSUME NEW a \in Nat, NEW b \in Nat, a < b
      PROVE  << a, b >> \in OpToRel(<, Nat)
  BY <1>5 DEF OpToRel
<1>6. ASSUME NEW j \in T
      PROVE  ~(n - j < n - i)
  BY <1>1, <1>3, <1>4, <1>5
<1>7. ASSUME NEW j \in T
      PROVE  j <= i
  BY <1>6
<1> QED
  BY <1>7

\* Placing a variable: its name now stands for it, the other names for what
\* they stood for.
LEMMA PlacedInOrder ==
  ASSUME IInv, PlaceGlobal
  PROVE  LastCounts'
<1> DEFINE v == vars[placed + 1]
           d == DeclarationOf(v)
<1>1. placed \in Nat /\ d.name = v.name /\ AtVariable
  BY DeclarationNext DEF PlaceGlobal, DeclarationOf
<1>2. /\ placed' = placed + 1 /\ vars' = vars
      /\ defines' = [n \in DOMAIN defines \cup {d.name} |->
                       IF n = d.name THEN Slot(d) ELSE defines[n]]
  BY DEF PlaceGlobal, Place
<1>3. /\ DOMAIN defines = {vars[i].name : i \in 1..placed}
      /\ \A i \in 1..placed :
           (\A j \in (i + 1)..placed : vars[j].name # vars[i].name) =>
             /\ defines[vars[i].name].size = DeclarationOf(vars[i]).size
             /\ defines[vars[i].name].align = DeclarationOf(vars[i]).align
  BY DEF IInv, FileInv, LastCounts, DeclarationOf
<1>4. 1..(placed + 1) = (1..placed) \cup {placed + 1}
  BY <1>1
<1>5. DOMAIN defines' = {vars[i].name : i \in 1..(placed + 1)}
  BY <1>1, <1>2, <1>3, <1>4
<1>6. ASSUME NEW i \in 1..(placed + 1),
             \A j \in (i + 1)..(placed + 1) : vars[j].name # vars[i].name
      PROVE  /\ defines'[vars[i].name].size = DeclarationOf(vars[i]).size
             /\ defines'[vars[i].name].align = DeclarationOf(vars[i]).align
  <2>1. CASE i = placed + 1
    <3>1. defines'[v.name] = Slot(d)
      BY <1>1, <1>2
    <3> QED
      BY <2>1, <3>1 DEF Slot
  <2>2. CASE i # placed + 1
    <3>1. i \in 1..placed /\ placed + 1 \in (i + 1)..(placed + 1)
      BY <2>2, <1>1
    <3>2. vars[i].name # d.name /\ vars[i].name \in DOMAIN defines
      BY <3>1, <1>1, <1>3, <1>6
    <3>3. defines'[vars[i].name] = defines[vars[i].name]
      BY <3>2, <1>2
    <3>4. \A j \in (i + 1)..placed : j \in (i + 1)..(placed + 1)
      BY <3>1, <1>1
    <3> QED
      BY <3>1, <3>3, <3>4, <1>3, <1>6
  <2> QED
    BY <2>1, <2>2
<1>7. ASSUME NEW i \in 1..placed',
             \A j \in (i + 1)..placed' : vars'[j].name # vars'[i].name
      PROVE  LET e == DeclarationOf(vars'[i])
             IN  defines'[e.name].size = e.size /\ defines'[e.name].align = e.align
  <2>1. i \in 1..(placed + 1) /\ \A j \in (i + 1)..(placed + 1) : vars[j].name # vars[i].name
    BY <1>2, <1>7
  <2>2. DeclarationOf(vars'[i]) = DeclarationOf(vars[i]) /\ DeclarationOf(vars[i]).name = vars[i].name
    BY <1>2 DEF DeclarationOf
  <2> QED
    BY <2>1, <2>2, <1>6
<1>8. DOMAIN defines' = {vars'[i].name : i \in 1..placed'}
  BY <1>2, <1>5
<1> QED
  BY <1>7, <1>8 DEF LastCounts, DeclarationOf

\* The hoisting passes change texts, and nothing is placed yet.
LEMMA HoistingKept ==
  ASSUME IInv, StorageInv', RenameLocals \/ RejectStatic \/ HoistLocals
  PROVE  IInv'
<1>0. /\ unit \in Units /\ placed \in 0..Len(vars) /\ stmt \in 1..(Len(text.kids) + 1)
      /\ placing # "published" /\ StorageTypeOK'
      /\ pass \in {"rename", "hoist"}
  BY DEF IInv, FileInv, TypeOK, PublishedLast, StorageInv, RenameLocals, RejectStatic, HoistLocals
<1>1. /\ vars = unit.before \o unit.after /\ placed = 0 /\ stmt = 1
      /\ defines = [n \in {} |-> NotSet]
      /\ pass = "hoist" => text = RenamedBody(unit)
      /\ pass = "rename" => text = unit.body
  BY <1>0 DEF IInv, FileInv, Staged
<1>2. /\ placing # "failed" /\ (heap_size # NotSet => placing = "published")
      /\ UNCHANGED svars /\ unit' = unit /\ placed' = placed /\ stmt' = stmt
  BY <1>0 DEF IInv, FileInv, PublishedLast, RenameLocals, RejectStatic, HoistLocals
<1>3. placing' = placing /\ heap_size' = heap_size /\ defines' = defines
  BY <1>2 DEF svars
<1>4. \A n \in Nat : 0 \in 0..n /\ 1 \in 1..(n + 1)
  OBVIOUS
<1>5. LastCounts'
  <2>1. placed' = 0 /\ DOMAIN defines' = {}
    BY <1>1, <1>2, <1>3
  <2>2. 1..0 = {}
    OBVIOUS
  <2> QED
    BY <2>1, <2>2 DEF LastCounts
<1>6. PublishedLast' /\ pass' \in {"rename", "hoist", "translate", "done", "failed"} /\ pass' # "done"
  BY <1>0, <1>2, <1>3 DEF PublishedLast, RenameLocals, RejectStatic, HoistLocals
<1>7. CASE RenameLocals
  <2>1. /\ pass' = "hoist" /\ text' = RenamedBody(unit) /\ vars' = vars
    BY <1>7, <1>1 DEF RenameLocals, RenamedBody
  <2>2. placed' \in 0..Len(vars') /\ stmt' \in 1..(Len(text'.kids) + 1)
    BY <2>1, <1>0, <1>1, <1>2, <1>4, UnitsAssumption
  <2>3. Staged'
    BY <2>1, <1>1, <1>2, <1>3 DEF Staged, RenamedBody, Unhoisted, GlobalNames, NamesOf
  <2>4. TopDown'
    BY <2>1, <1>0, <1>1, <1>2, SourceLayout DEF TopDown
  <2> QED
    BY <2>2, <2>3, <2>4, <1>0, <1>2, <1>5, <1>6 DEF IInv, FileInv, TypeOK
<1>8. CASE RejectStatic
  <2>1. pass' = "failed" /\ text' = text /\ vars' = vars
    BY <1>8 DEF RejectStatic
  <2>2. TopDown'
    BY <2>1, <1>0, <1>1, <1>2, SourceLayout DEF TopDown
  <2> QED
    BY <2>1, <2>2, <1>0, <1>2, <1>5, <1>6 DEF IInv, FileInv, TypeOK, Staged
<1>9. CASE HoistLocals
  <2>1. /\ pass' = "translate" /\ text' = FunctionBody(unit)
        /\ vars' = unit.before \o MovedOut(unit) \o unit.after
    BY <1>9, <1>1 DEF HoistLocals, FunctionBody, MovedOut
  <2>2. /\ Len(vars') \in Nat /\ Above(unit) \in Nat
        /\ Len(vars') - Len(unit.after) = Above(unit)
    BY <2>1, <1>0, Layout
  <2>3. placed' \in 0..Len(vars') /\ stmt' \in 1..(Len(text'.kids) + 1)
    BY <2>1, <2>2, <1>0, <1>1, <1>2, <1>4, UnitsAssumption
  <2>4. Staged'
    BY <2>1, <1>2 DEF Staged, FunctionBody, MovedOut, RenamedBody, Unhoisted, GlobalNames,
                      LocalNames, NamesOf
  <2>5. TopDown'
    <3>1. Len(vars') - Len(unit'.after) = Above(unit) /\ placed' = 0 /\ stmt' = 1
      BY <2>2, <1>1, <1>2
    <3> QED
      BY <3>1, <2>2 DEF TopDown
  <2> QED
    BY <2>1, <2>3, <2>4, <2>5, <1>0, <1>2, <1>5, <1>6 DEF IInv, FileInv, TypeOK
<1> QED
  BY <1>7, <1>8, <1>9

\* Going down the file keeps the invariant.
LEMMA TranslationKept ==
  ASSUME IInv, StorageInv',
         PlaceGlobal \/ RejectGlobal \/ TranslateStatement \/ RefuseStatement \/ PublishHeapSize
  PROVE  IInv'
<1>0. /\ unit \in Units /\ placed \in 0..Len(vars) /\ stmt \in 1..(Len(text.kids) + 1)
      /\ StorageTypeOK' /\ pass = "translate" /\ placing # "published" /\ placing # "failed"
      /\ heap_size = NotSet
  BY DEF IInv, FileInv, TypeOK, PublishedLast, StorageInv, PlaceGlobal, RejectGlobal, TranslateStatement,
         RefuseStatement, PublishHeapSize, AtVariable, AtStatement
<1>1. text = FunctionBody(unit) /\ vars = unit.before \o MovedOut(unit) \o unit.after
  BY <1>0 DEF IInv, FileInv, Staged
<1>2. unit' = unit /\ text' = text /\ vars' = vars
  BY DEF PlaceGlobal, RejectGlobal, TranslateStatement, RefuseStatement, PublishHeapSize
<1>3. /\ Len(vars) \in Nat /\ Above(unit) \in Nat /\ Len(text.kids) \in Nat
      /\ Len(vars) - Len(unit.after) = Above(unit)
      /\ Above(unit) <= Len(vars)
  <2>1. Len(text.kids) \in Nat
    BY <1>0, <1>1, UnitsAssumption
  <2> QED
    BY <2>1, <1>0, <1>1, Layout
<1>4. placed \in Nat /\ placed <= Len(vars) /\ stmt \in Nat /\ 1 <= stmt /\ stmt <= Len(text.kids) + 1
  BY <1>0, <1>3
<1>5. /\ stmt > 1 => placed >= Above(unit)
      /\ placed > Above(unit) => Translated
      /\ LastCounts
  BY <1>3 DEF IInv, FileInv, TopDown
<1>6. /\ AtFunction <=> placed = Above(unit)
      /\ Translated <=> stmt > Len(text.kids)
      /\ Translated' <=> stmt' > Len(text.kids)
  BY <1>2, <1>3 DEF AtFunction, Translated
<1>7. TopDown' <=> /\ stmt' > 1 => placed' >= Above(unit)
                   /\ placed' > Above(unit) => Translated'
  BY <1>2, <1>3 DEF TopDown
<1>8. CASE PlaceGlobal
  <2>1. /\ pass' = pass /\ placed' = placed + 1 /\ stmt' = stmt
        /\ placing' = placing /\ heap_size' = heap_size
        /\ placed < Len(vars) /\ (AtFunction => Translated)
    BY <1>8 DEF PlaceGlobal, Place, AtVariable
  <2>2. placed' \in 0..Len(vars) /\ stmt' \in 1..(Len(text.kids) + 1)
    BY <2>1, <1>0, <1>3, <1>4
  <2>3. TopDown'
    BY <2>1, <1>3, <1>4, <1>5, <1>6, <1>7
  <2>4. Staged'
    BY <2>1, <1>0, <1>1, <1>2 DEF Staged, FunctionBody, MovedOut, RenamedBody, Unhoisted,
                                  GlobalNames, LocalNames, NamesOf
  <2>5. TypeOK' /\ PublishedLast'
    BY <2>1, <2>2, <1>0, <1>2 DEF TypeOK, PublishedLast
  <2> QED
    BY <2>3, <2>4, <2>5, <1>8, PlacedInOrder DEF IInv, FileInv
<1>9. CASE RejectGlobal
  <2>1. /\ pass' = "failed" /\ placed' = placed /\ stmt' = stmt /\ defines' = defines
        /\ placing' = "failed" /\ heap_size' = heap_size
    BY <1>9 DEF RejectGlobal, Reject
  <2>2. LastCounts'
    BY <2>1, <1>2, <1>5 DEF LastCounts, DeclarationOf
  <2>3. TopDown'
    BY <2>1, <1>5, <1>6, <1>7
  <2>4. TypeOK' /\ PublishedLast' /\ Staged'
    BY <2>1, <1>0, <1>2 DEF TypeOK, PublishedLast, Staged
  <2> QED
    BY <2>2, <2>3, <2>4 DEF IInv, FileInv
<1>10. CASE TranslateStatement
  <2>1. /\ pass' = pass /\ placed' = placed /\ stmt' = stmt + 1 /\ UNCHANGED svars
        /\ placed = Above(unit) /\ ~Translated
    BY <1>10, <1>6 DEF TranslateStatement, AtStatement
  <2>2. placing' = placing /\ heap_size' = heap_size /\ defines' = defines
    BY <2>1 DEF svars
  <2>3. stmt' \in 1..(Len(text.kids) + 1)
    BY <2>1, <1>3, <1>4, <1>6
  <2>4. LastCounts'
    BY <2>1, <2>2, <1>2, <1>5 DEF LastCounts, DeclarationOf
  <2>5. TopDown'
    BY <2>1, <1>3, <1>4, <1>7
  <2>6. Staged'
    BY <2>1, <1>0, <1>1, <1>2 DEF Staged, FunctionBody, MovedOut, RenamedBody, Unhoisted,
                                  GlobalNames, LocalNames, NamesOf
  <2>7. TypeOK' /\ PublishedLast'
    BY <2>1, <2>2, <2>3, <1>0, <1>2 DEF TypeOK, PublishedLast
  <2> QED
    BY <2>4, <2>5, <2>6, <2>7 DEF IInv, FileInv
<1>11. CASE RefuseStatement
  <2>1. /\ pass' = "failed" /\ placed' = placed /\ stmt' = stmt /\ UNCHANGED svars
    BY <1>11 DEF RefuseStatement
  <2>2. placing' = placing /\ heap_size' = heap_size /\ defines' = defines
    BY <2>1 DEF svars
  <2>3. LastCounts'
    BY <2>1, <2>2, <1>2, <1>5 DEF LastCounts, DeclarationOf
  <2>4. TopDown'
    BY <2>1, <1>5, <1>6, <1>7
  <2>5. TypeOK' /\ PublishedLast' /\ Staged'
    BY <2>1, <2>2, <1>0, <1>2 DEF TypeOK, PublishedLast, Staged
  <2> QED
    BY <2>3, <2>4, <2>5 DEF IInv, FileInv
<1>12. CASE PublishHeapSize
  <2>1. /\ pass' = "done" /\ placed' = placed /\ stmt' = stmt /\ defines' = defines
        /\ placing' = "published" /\ placed = Len(vars) /\ Translated
    BY <1>12 DEF PublishHeapSize, Publish, AllVisited
  <2>2. LastCounts'
    BY <2>1, <1>2, <1>5 DEF LastCounts, DeclarationOf
  <2>3. TopDown'
    BY <2>1, <1>5, <1>6, <1>7
  <2>4. Staged'
    BY <2>1, <1>0, <1>1, <1>2 DEF Staged, FunctionBody, MovedOut, RenamedBody, Unhoisted,
                                  GlobalNames, LocalNames, NamesOf
  <2>5. TypeOK' /\ PublishedLast'
    BY <2>1, <1>0, <1>2, <1>6 DEF TypeOK, PublishedLast
  <2> QED
    BY <2>2, <2>3, <2>4, <2>5 DEF IInv, FileInv
<1> QED
  BY <1>8, <1>9, <1>10, <1>11, <1>12

LEMMA BackendKept == IInv /\ [Next]_bvars => IInv'
<1> SUFFICES ASSUME IInv, [Next]_bvars
             PROVE  IInv'
  OBVIOUS
<1>1. StorageInv'
  <2>1. StorageInv
    BY DEF IInv, FileInv
  <2> QED
    BY <2>1, StorageStep, StorageKept
<1>2. CASE Next
  BY <1>1, <1>2, HoistingKept, TranslationKept DEF Next
<1>3. CASE UNCHANGED bvars
  <2>1. /\ unit' = unit /\ text' = text /\ vars' = vars /\ placed' = placed /\ stmt' = stmt
        /\ pass' = pass /\ defines' = defines /\ heap_size' = heap_size /\ placing' = placing
    BY <1>3 DEF bvars, svars
  <2>2. LastCounts'
    BY <2>1 DEF IInv, FileInv, LastCounts, DeclarationOf
  <2>3. Staged'
    BY <2>1 DEF IInv, FileInv, Staged, FunctionBody, MovedOut, RenamedBody, Unhoisted, GlobalNames,
                LocalNames, NamesOf
  <2>4. PublishedLast'
    BY <2>1 DEF IInv, FileInv, PublishedLast
  <2>5. TopDown' /\ TypeOK'
    BY <2>1, <1>1 DEF IInv, FileInv, TopDown, TypeOK, StorageInv, Translated
  <2> QED
    BY <1>1, <2>2, <2>3, <2>4, <2>5 DEF IInv, FileInv
<1> QED
  BY <1>2, <1>3
\* In every reachable state of the three passes: texts are what the passes
\* before made of the source, variables have their places from the top of the
\* file, the heap is published once and last.
THEOREM Backend == Spec => []IInv
<1> QED
  BY BackendStarts, BackendKept, PTL DEF Spec

\* pass_c2pancake places the variables of a file, the hoisted ones among them,
\* as GlobalStorage says.
THEOREM PlacesGlobals == Spec => StorageSpec
<1>1. Init => StorageInit
  BY DEF Init
<1>2. IInv /\ [Next]_bvars => [StorageNext]_svars
  BY StorageStep
<1> QED
  BY <1>1, <1>2, Backend, PTL DEF Spec, StorageSpec

\* Whatever the file, its variables never share a byte, are aligned, and lie
\* below the stack.
THEOREM BackendStorage == Spec => [](Apart /\ Aligned /\ InHeap)
<1>1. IInv => Apart /\ Aligned /\ InHeap
  BY DEF IInv, FileInv, StorageInv, InHeap, Behind
<1> QED
  BY <1>1, Backend, PTL

\* The macros a statement is translated with are those of the variables above
\* its function, no fewer and no more.
THEOREM MacrosInScope == Spec => KnowsThoseAbove
<1>1. ASSUME IInv, [Next]_bvars
      PROVE  [code' # code => DOMAIN defines = NamesOf(unit.before) \cup NamesOf(MovedOut(unit))]_bvars
  <2>1. CASE TranslateStatement
    <3>1. /\ unit \in Units /\ vars = unit.before \o MovedOut(unit) \o unit.after
          /\ placed = Len(vars) - Len(unit.after)
      BY <1>1, <2>1 DEF IInv, FileInv, TypeOK, Staged, TranslateStatement, AtStatement, AtFunction
    <3>2. /\ placed = Above(unit)
          /\ {vars[i].name : i \in 1..placed} = NamesOf(unit.before) \cup NamesOf(MovedOut(unit))
      BY <3>1, Layout
    <3> QED
      BY <3>2, <1>1 DEF IInv, FileInv, LastCounts
  <2>2. CASE \/ RenameLocals \/ RejectStatic \/ HoistLocals \/ PlaceGlobal \/ RejectGlobal
             \/ RefuseStatement \/ PublishHeapSize \/ UNCHANGED bvars
    <3>1. code' = code
      BY <2>2 DEF RenameLocals, RejectStatic, HoistLocals, PlaceGlobal, RejectGlobal,
                  RefuseStatement, PublishHeapSize, bvars
    <3> QED
      BY <3>1
  <2> QED
    BY <1>1, <2>1, <2>2 DEF Next
<1> QED
  BY <1>1, Backend, PTL DEF Spec, KnowsThoseAbove

\* When pass_c2pancake is done every variable of the file has a place, and a
\* name has that of its last declaration.
THEOREM AllPlaced ==
  Spec => [](pass = "done" =>
               /\ DOMAIN defines = NamesOf(vars)
               /\ \A n \in DOMAIN defines :
                    \E i \in DOMAIN vars :
                      /\ vars[i].name = n /\ \A j \in DOMAIN vars : j > i => vars[j].name # n
                      /\ defines[n].size = TypeSize(vars[i].type)
                      /\ defines[n].align = TypeAlign(vars[i].type))
<1>1. ASSUME IInv, pass = "done"
      PROVE  /\ DOMAIN defines = NamesOf(vars)
             /\ \A n \in DOMAIN defines :
                  \E i \in DOMAIN vars :
                    /\ vars[i].name = n /\ \A j \in DOMAIN vars : j > i => vars[j].name # n
                    /\ defines[n].size = TypeSize(vars[i].type)
                    /\ defines[n].align = TypeAlign(vars[i].type)
  <2>1. /\ unit \in Units /\ vars = unit.before \o MovedOut(unit) \o unit.after
        /\ placed = Len(vars) /\ LastCounts
    BY <1>1 DEF IInv, FileInv, TypeOK, Staged
  <2>2. vars \in Seq(Variables)
    BY <2>1, Layout
  <2>3. DOMAIN vars = 1..placed /\ placed \in Nat
    <3>1. DOMAIN vars = 1..Len(vars) /\ Len(vars) \in Nat
      BY <2>2
    <3> QED
      BY <3>1, <2>1
  <2>4. DOMAIN defines = NamesOf(vars)
    BY <2>1, <2>3 DEF LastCounts, NamesOf
  <2>5. ASSUME NEW n \in DOMAIN defines
        PROVE  \E i \in DOMAIN vars :
                 /\ vars[i].name = n /\ \A j \in DOMAIN vars : j > i => vars[j].name # n
                 /\ defines[n].size = TypeSize(vars[i].type)
                 /\ defines[n].align = TypeAlign(vars[i].type)
    <3> DEFINE Of == {i \in 1..placed : vars[i].name = n}
    <3>1. Of # {} /\ Of \subseteq 1..placed
      BY <2>3, <2>4 DEF NamesOf
    <3>2. PICK i \in Of : \A j \in Of : j <= i
      BY <3>1, <2>3, LastOne
    <3>3. i \in 1..placed /\ vars[i].name = n /\ \A j \in 1..placed : j > i => vars[j].name # n
      BY <3>2, <2>3
    <3>4. \A j \in (i + 1)..placed : j \in 1..placed /\ j > i
      BY <3>3, <2>3
    <3>5. LET d == DeclarationOf(vars[i])
          IN  defines[d.name].size = d.size /\ defines[d.name].align = d.align
      BY <2>1, <3>3, <3>4 DEF LastCounts
    <3> QED
      BY <3>3, <3>5, <2>3 DEF DeclarationOf
  <2> QED
    BY <2>4, <2>5
<1> QED
  BY <1>1, Backend, PTL
=============================================================================
