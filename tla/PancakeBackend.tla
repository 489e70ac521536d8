----------------------------- MODULE PancakeBackend -----------------------------
(***************************************************************************)
(* The end of the pipeline for one file: pass_rename_to_be_hoisted_globals,*)
(* pass_hoist_locals and pass_c2pancake.  The file declares variables,     *)
(* defines one function, and may declare variables again below it; the     *)
(* last pass goes through it from top to bottom, placing variables as      *)
(* GlobalStorage says and translating the function statement by statement. *)
(* What a pass makes of a text is a parameter here: PancakePasses says it.  *)
(***************************************************************************)
EXTENDS GlobalStorage, Sequences

CONSTANTS
  Units,        \* [before, after: in order, params, body, holds]
  Variables,    \* [name, type]: what stands at the top level of a file
  TypeSize(_), TypeAlign(_),    \* of a type, in chars
  DeclaredIn(_), StaticIn(_),   \* names of the locals of a text, those with static storage
  Hoistable(_, _),              \* names of a text, some of them those of globals, to hoist
  LocalOf(_),                   \* the new name for a local
  RenamedText(_, _),            \* a text with the new names for some names
  HoistedText(_, _),            \* a text without the declarations of some names, and
  HoistedVars(_, _),            \* these, in order
  Translation(_, _, _),         \* the Pancake statements for one, by the globals known and its place
  IsRefused(_)                  \* there is no such statement

VARIABLES
  unit,    \* the file the run started from
  params,  \* the parameters and
  text,    \* the body, as the passes have left them
  vars,    \* the top-level variables in order, [name, type]
  placed,  \* how many of them have a place
  code,    \* the Pancake statements so far
  stmt,    \* the statement to translate next
  pass     \* "rename", "hoist", "translate", "done" or "failed"

bvars == <<unit, params, text, vars, placed, code, stmt, pass, svars>>

Init == /\ unit \in Units /\ params = unit.params /\ text = unit.body
        /\ vars = unit.before \o unit.after /\ placed = 0 /\ code = <<>> /\ stmt = 1
        /\ pass = "rename" /\ StorageInit

-----------------------------------------------------------------------------
(* The hoisting passes.                                                    *)

NamesOf(ds)    == {ds[i].name : i \in DOMAIN ds}
GlobalNames(u) == NamesOf(u.before) \cup NamesOf(u.after)
Unhoisted(u)   == Hoistable(u.body, GlobalNames(u))

RenameLocals ==
  /\ pass = "rename" /\ StaticIn(text) = {}
  /\ text' = RenamedText(text, Unhoisted(unit))
  /\ params' = [i \in DOMAIN params |->
                  IF params[i].name \in Unhoisted(unit) THEN [params[i] EXCEPT !.name = LocalOf(@)]
                  ELSE params[i]]
  /\ pass' = "hoist"
  /\ UNCHANGED <<unit, vars, placed, code, stmt, svars>>

\* a variable with static storage inside a function is reported
RejectStatic ==
  /\ pass = "rename" /\ StaticIn(text) # {}
  /\ pass' = "failed"
  /\ UNCHANGED <<unit, params, text, vars, placed, code, stmt, svars>>

\* declarations with the new names, whatever they declare; parameters stay
LocalNames(u) == {LocalOf(n) : n \in DeclaredIn(u.body)}
HoistLocals ==
  /\ pass = "hoist"
  /\ text' = HoistedText(text, LocalNames(unit))
  /\ vars' = unit.before \o HoistedVars(text, LocalNames(unit)) \o unit.after
  /\ pass' = "translate"
  /\ UNCHANGED <<unit, params, placed, code, stmt, svars>>

-----------------------------------------------------------------------------
(* pass_c2pancake.                                                         *)

MutDeclarationOf(v) ==       \* mutant of DeclarationOf: aligned to its size
  [name |-> v.name, size |-> TypeSize(v.type), align |-> TypeSize(v.type)]
DeclarationOf(v) == [name |-> v.name, size |-> TypeSize(v.type), align |-> TypeAlign(v.type)]
AtFunction  == placed = Len(vars) - Len(unit.after)
Translated  == stmt > Len(text.kids)
\* a variable stands next in the file
AtVariable  == pass = "translate" /\ placed < Len(vars) /\ (AtFunction => Translated)

PlaceGlobal ==
  /\ AtVariable /\ Place(DeclarationOf(vars[placed + 1]))
  /\ placed' = placed + 1
  /\ UNCHANGED <<unit, params, text, vars, code, stmt, pass>>
RejectGlobal ==
  /\ AtVariable /\ Reject(DeclarationOf(vars[placed + 1]))
  /\ pass' = "failed"
  /\ UNCHANGED <<unit, params, text, vars, placed, code, stmt>>

Statements == Translation(text.kids[stmt], DOMAIN defines, << stmt >>)
AtStatement == pass = "translate" /\ AtFunction /\ ~Translated
TranslateStatement ==
  /\ AtStatement /\ ~IsRefused(Statements)
  /\ code' = code \o Statements
  /\ stmt' = stmt + 1
  /\ UNCHANGED <<unit, params, text, vars, placed, pass, svars>>
RefuseStatement ==
  /\ AtStatement /\ IsRefused(Statements)
  /\ pass' = "failed"
  /\ UNCHANGED <<unit, params, text, vars, placed, code, stmt, svars>>

AllVisited == Translated /\ placed = Len(vars)
PublishHeapSize ==
  /\ pass = "translate" /\ AllVisited /\ Publish
  /\ pass' = "done"
  /\ UNCHANGED <<unit, params, text, vars, placed, code, stmt>>

Next == \/ RenameLocals \/ RejectStatic \/ HoistLocals
        \/ PlaceGlobal \/ RejectGlobal
        \/ TranslateStatement \/ RefuseStatement \/ PublishHeapSize

Spec == Init /\ [][Next]_bvars

-----------------------------------------------------------------------------
(* What a file goes through.                                               *)

RenamedBody(u)  == RenamedText(u.body, Unhoisted(u))
MovedOut(u)     == HoistedVars(RenamedBody(u), LocalNames(u))
FunctionBody(u) == HoistedText(RenamedBody(u), LocalNames(u))
\* a file is what clang accepts: what it declares, and what is moved out of its
\* function, are variables with a place in memory; a body is a list
ASSUME UnitsAssumption ==
  \A u \in Units :
    /\ u.before \in Seq(Variables) /\ u.after \in Seq(Variables) /\ MovedOut(u) \in Seq(Variables)
    /\ Len(u.body.kids) \in Nat /\ Len(RenamedBody(u).kids) \in Nat
    /\ Len(FunctionBody(u).kids) \in Nat
ASSUME VariablesAssumption ==
  \A v \in Variables :
    [name |-> v.name, size |-> TypeSize(v.type), align |-> TypeAlign(v.type)] \in Declarations

TypeOK ==
  /\ StorageTypeOK
  /\ unit \in Units /\ placed \in 0..Len(vars) /\ stmt \in 1..(Len(text.kids) + 1)
  /\ pass \in {"rename", "hoist", "translate", "done", "failed"}
  /\ pass = "done" => placed = Len(vars) /\ Translated

\* The text a pass finds is what the passes before it make of the source
Staged ==
  /\ pass = "rename" => text = unit.body
  /\ pass = "hoist"  => text = RenamedBody(unit)
  /\ pass \in {"translate", "done"} =>
       text = FunctionBody(unit) /\ vars = unit.before \o MovedOut(unit) \o unit.after
  /\ pass \in {"rename", "hoist"} =>
       vars = unit.before \o unit.after /\ placed = 0 /\ stmt = 1 /\ defines = [n \in {} |-> NotSet]
\* The variables placed are those of the file from the top, and a name stands
\* for the last of them that has it.
LastCounts ==
  /\ DOMAIN defines = {vars[i].name : i \in 1..placed}
  /\ \A i \in 1..placed :
       (\A j \in (i + 1)..placed : vars[j].name # vars[i].name) =>
         LET d == DeclarationOf(vars[i])
         IN  defines[d.name].size = d.size /\ defines[d.name].align = d.align
\* The heap is published once, when all is translated, and never for a file
\* that is reported.
PublishedLast ==
  /\ placing = "published" <=> pass = "done"
  /\ placing = "failed" => pass = "failed"
  /\ heap_size # NotSet => placing = "published"
\* The file is gone through from top to bottom, the function in its place.
TopDown ==
  /\ stmt > 1 => placed >= Len(vars) - Len(unit.after)
  /\ placed > Len(vars) - Len(unit.after) => Translated
FileInv == TypeOK /\ Staged /\ LastCounts /\ PublishedLast /\ TopDown
IInv == StorageInv /\ FileInv

\* A statement is translated with the macros of exactly the variables above the
\* function, those hoisted out of it included.
KnowsThoseAbove ==
  [][code' # code =>
       DOMAIN defines = NamesOf(unit.before) \cup NamesOf(MovedOut(unit))]_bvars
=============================================================================
