----------------------------- MODULE GlobalStorage -----------------------------
(***************************************************************************)
(* Where pass_c2pancake puts the objects with static storage: the          *)
(* declarations of variables at the top level, the program's own and the   *)
(* hoisted ones, in the order they are met.  Each gets the next aligned    *)
(* address of the Pancake heap and two macros, x_addr and x_val; where the *)
(* heap ends after the last one the stack begins.  The macros stand at the *)
(* top of the output: of two definitions of a name the last counts, for    *)
(* all functions.                                                          *)
(***************************************************************************)
EXTENDS Integers

CONSTANTS
  Declarations,   \* [name, size, align], size and align in chars
  NotSet

ASSUME DeclarationsAssumption ==
  \A d \in Declarations : d.size \in Nat /\ d.align \in Nat \ {0}

VARIABLES
  next_global_var_addr,
  defines,    \* name -> [addr, size, align]: what its macros stand for
  heap_size,  \* the artifact the finalizer reads
  placing     \* "running", "published" or "failed"

svars == <<next_global_var_addr, defines, heap_size, placing>>

Names == {d.name : d \in Declarations}

StorageInit == /\ next_global_var_addr = 0 /\ defines = [n \in {} |-> NotSet]
               /\ heap_size = NotSet /\ placing = "running"

-----------------------------------------------------------------------------
\* what ld8, ld32 and lds 1 read: a value of another size has no macro
AccessSizes == {1, 4, 8}

RoundUp(addr, align) == ((addr + align - 1) \div align) * align

MutAddr(d) == (next_global_var_addr \div d.align) * d.align     \* mutant of Addr: rounds down
MutPacked(d) == next_global_var_addr                            \* mutant of Addr: no rounding
Addr(d) == RoundUp(next_global_var_addr, d.align)

MutEndOf(d) == next_global_var_addr + d.size        \* mutant of EndOf: forgets the padding
EndOf(d) == Addr(d) + d.size

Slot(d) == [addr |-> Addr(d), size |-> d.size, align |-> d.align]

Place(d) ==
  /\ placing = "running" /\ d.size \in AccessSizes
  /\ defines' = [n \in DOMAIN defines \cup {d.name} |->
                   IF n = d.name THEN Slot(d) ELSE defines[n]]
  /\ next_global_var_addr' = EndOf(d)
  /\ UNCHANGED <<heap_size, placing>>

\* "Unsupported global variable size": the output is not written
Reject(d) ==
  /\ placing = "running" /\ d.size \notin AccessSizes
  /\ next_global_var_addr' = EndOf(d)
  /\ placing' = "failed"
  /\ UNCHANGED <<defines, heap_size>>

Publish ==
  /\ placing = "running"
  /\ heap_size' = next_global_var_addr /\ placing' = "published"
  /\ UNCHANGED <<next_global_var_addr, defines>>

StorageNext == \/ \E d \in Declarations : Place(d) \/ Reject(d)
               \/ Publish

StorageSpec == StorageInit /\ [][StorageNext]_svars

-----------------------------------------------------------------------------
(* Properties.                                                             *)

StorageTypeOK ==
  /\ next_global_var_addr \in Nat
  /\ DOMAIN defines \subseteq Names
  /\ \A n \in DOMAIN defines :
       defines[n] \in [addr : Nat, size : Nat, align : Nat \ {0}]
  /\ heap_size \in Nat \cup {NotSet}
  /\ placing \in {"running", "published", "failed"}

End(n) == defines[n].addr + defines[n].size

\* A store to one variable never reaches another: their bytes are disjoint,
\* however often and in whatever order names are declared again.
Apart ==
  \A m, n \in DOMAIN defines :
    m # n => End(m) <= defines[n].addr \/ End(n) <= defines[m].addr

\* Every variable is aligned as its type asks, if the heap itself is.
Aligned == \A n \in DOMAIN defines : defines[n].addr % defines[n].align = 0

\* The stack, which the scaffold puts right behind the heap, overlaps no variable.
InHeap == placing = "published" => \A n \in DOMAIN defines : End(n) <= heap_size

\* The strengthening that is inductive: nothing lies behind the next address.
Behind == \A n \in DOMAIN defines : End(n) <= next_global_var_addr
StorageInv == /\ StorageTypeOK /\ Apart /\ Aligned /\ Behind
              /\ placing = "published" => heap_size = next_global_var_addr
=============================================================================
