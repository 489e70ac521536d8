-------------------------- MODULE FunctionCalling --------------------------
(***************************************************************************)
(* pass_function_calling (Pass_FunctionCalling.cpp): attempts that give    *)
(* calls to external functions a wrapper, then functions and their calls   *)
(* the convention of Pancake, in which aggregates travel through globals   *)
(* and every function returns a word.  An attempt collects the edits of    *)
(* each function as a group and commits a group whole or not at all; the   *)
(* text it leaves is what the next attempt parses.  What running the text  *)
(* does is in CallRuns.                                                    *)
(***************************************************************************)
EXTENDS CallText

CONSTANT Starts     \* what the pass starts from: [source, budget, option]

ASSUME StartsAssumption ==
  \A r \in Starts : r.budget \in Nat /\ r.option \in BOOLEAN /\ CFile(r.source)

VARIABLES
  budget,    \* --max-pass-retries
  option,    \* --treat-external-functions-as-non-ffi
  source,    \* the text the pass started from: [stubs, funs, nodes]
  text,      \* the text the next attempt parses
  attempt,   \* pass_retry
  status     \* "running", "done", "error": the file fails, "spent": no budget

vars == <<budget, option, source, text, attempt, status>>

Init == /\ \E r \in Starts :
             budget = r.budget /\ option = r.option /\ source = r.source
        /\ text = source /\ attempt = 0 /\ status = "running"

-----------------------------------------------------------------------------
(* What a traversal of the text t finds.                                   *)

TakesAgg(f)       == \E i \in DOMAIN f.params : IsAgg(f.params[i])
NeedsRewriting(f) == IsAgg(f.ret) \/ TakesAgg(f)
\* the new signature has neither aggregates nor a void result left
Changes(f)   == NeedsRewriting(f) \/ f.ret = "void"
ToRewrite(f) == ~f.rewritten /\ Changes(f)

\* The callee of a call is the declaration visible there: the definition only
\* if it is not further down; else a prototype, which function_map lacks.
Known(t, s)  == {j \in Defs(t, CalleeOf(t, s)) : j <= s[1]}
\* calls inside the helper of an entry point are left alone
InHelper(t, s) == t.funs[s[1]].entry /\ t.funs[s[1]].rewritten
Visited(t)   == {s \in Sites(t, {"call"}) : ~InHelper(t, s)}
External(t)  == IF option THEN {} ELSE {s \in Visited(t) : Known(t, s) = {}}

\* An edit is a place in the text; Above is the start of the file, the head of
\* a function comes before its body.
Above       == <<0, <<0>>>>
HeadOf(j)   == <<j, <<0>>>>
Proto(j)    == <<0, <<j>>>>
Around(a, b) == a[1] = b[1] /\ Inside(b[2], a[2])
MutOverlap(a, b) == a # b /\ a[1] = b[1]
Overlap(a, b) == Around(a, b) \/ Around(b, a)
Before(a, b)  == a[1] < b[1] \/ (a[1] = b[1] /\ Earlier(a[2], b[2]))

Returns(t, j) ==
  {s \in Sites(t, {"return"}) : s[1] = j /\ (IsAgg(t.funs[j].ret) \/ t.funs[j].ret = "void")}
MutCalls(t, j) == {s \in Visited(t) : j \in Known(t, s) /\ j < s[1]}
Calls(t, j) == {s \in Visited(t) : j \in Known(t, s)}
Places(t, j) == {HeadOf(j)} \cup Returns(t, j) \cup Calls(t, j)
OurGroup(t, j) ==
  Places(t, j)
  \cup (IF t.funs[j].proto = "old" /\ ~option /\ ~t.funs[j].entry THEN {Proto(j)} ELSE {})
MutExternalGroup(t, n) ==
  {Above} \cup {s \in External(t) : CalleeOf(t, s) = n /\ \A r \in External(t) : ~Around(r, s)}
ExternalGroup(t, n) == {Above} \cup {s \in External(t) : CalleeOf(t, s) = n}
Wanted(t)    == {CalleeOf(t, s) : s \in External(t)}
OurGroups(t) == [j \in {i \in DOMAIN t.funs : ToRewrite(t.funs[i])} |-> OurGroup(t, j)]

\* A group that contradicts itself is reported as a recursive call.
SelfOverlap(g) == \E a, b \in g : Overlap(a, b)
Rejected(t) ==
  \/ \E j \in DOMAIN t.funs : t.funs[j].variadic
  \/ \E n \in Wanted(t) : n \in DOMAIN Externals /\ Externals[n].variadic
  \/ \E n \in Wanted(t) : SelfOverlap(ExternalGroup(t, n))
  \/ \E j \in DOMAIN OurGroups(t) : SelfOverlap(OurGroup(t, j))
  \/ \E j \in DOMAIN OurGroups(t) : t.funs[j].entry /\ TakesAgg(t.funs[j])

\* The groups are tried in the order of their first edits, and one is committed
\* if it overlaps none committed before it.
Leads(g, h)      == \E a \in g : \A b \in h : Before(a, b)
Compatible(g, h) == \A a \in g, b \in h : ~Overlap(a, b)
Committed(groups, js) ==
  \A j \in DOMAIN groups :
    j \in js <=> \A i \in js : Leads(groups[i], groups[j]) => Compatible(groups[i], groups[j])

-----------------------------------------------------------------------------
(* The text with edits made; an edit inside another one would be lost.     *)

Made(edits) == {a \in edits : \A b \in edits : ~Around(b, a)}

CallForm(f) == IF NeedsRewriting(f) THEN "hoisted" ELSE "void"
NewForm(s) ==
  IF text.nodes[s].k = "return" THEN IF text.nodes[s].n = 0 THEN "zero" ELSE "store"
  ELSE CallForm(text.funs[CHOOSE j \in Defs(text, CalleeOf(text, s)) : TRUE])
WithOurs(edits) ==
  [text EXCEPT
     !.funs  = [j \in DOMAIN text.funs |->
                  [text.funs[j] EXCEPT !.rewritten = @ \/ HeadOf(j) \in edits,
                                       !.proto = IF Proto(j) \in edits THEN "new" ELSE @]],
     !.nodes = [s \in DOMAIN text.nodes |->
                  [text.nodes[s] EXCEPT !.k = IF s \in Made(edits) THEN NewForm(s) ELSE @]]]
WithWrapper(n) ==
  [text EXCEPT
     !.stubs = <<n>> \o @,
     !.nodes = [s \in DOMAIN text.nodes |->
                  [text.nodes[s] EXCEPT !.k = IF s \in Made(ExternalGroup(text, n)) THEN "wrapped" ELSE @]]]

-----------------------------------------------------------------------------
(* Attempts.                                                               *)

MutAttempting == status = "running" /\ attempt <= budget /\ Compiled(text)
Attempting == status = "running" /\ attempt < budget /\ Compiled(text)
Repeat     == attempt' = attempt + 1 /\ status' = "running"
Continue   == attempt' = attempt + 1 /\ status' = "done"

\* Groups of external functions come first, and all of them start at the top
\* of the file: one is committed, whichever the sort puts first.
WrapExternalCalls ==
  /\ Attempting /\ ~Rejected(text)
  /\ \E n \in Wanted(text) : text' = WithWrapper(n)
  /\ Repeat
  /\ UNCHANGED <<budget, option, source>>

Rewriting(js) ==
  /\ Attempting /\ ~Rejected(text) /\ Wanted(text) = {}
  /\ LET groups == OurGroups(text)
     IN  /\ Committed(groups, js)
         /\ text' = WithOurs(UNION {groups[j] : j \in js})
  /\ UNCHANGED <<budget, option, source>>
Groups == DOMAIN OurGroups(text)
MutContinueAlways    == \E js \in SUBSET Groups : Rewriting(js) /\ Continue
MutRepeatWhileFound  == \E js \in SUBSET Groups : Rewriting(js) /\ IF js = {} THEN Continue ELSE Repeat
RewriteFunctions     == \E js \in SUBSET Groups : Rewriting(js) /\ IF js = Groups THEN Continue ELSE Repeat

Fail == /\ status = "running" /\ attempt < budget
        /\ Rejected(text) \/ ~Compiled(text)
        /\ status' = "error"
        /\ UNCHANGED <<budget, option, source, text, attempt>>

RetriesExhausted ==
  /\ status = "running" /\ attempt >= budget
  /\ status' = "spent"
  /\ UNCHANGED <<budget, option, source, text, attempt>>

Next == WrapExternalCalls \/ RewriteFunctions \/ Fail \/ RetriesExhausted
Spec == Init /\ [][Next]_vars

-----------------------------------------------------------------------------
(* The files the pass supports; README.md says what becomes of others.     *)

\* no other group gets in the way of that of function j
Unhindered(t, j) ==
  \A i \in DOMAIN t.funs \ {j} : ToRewrite(t.funs[i]) => Compatible(Places(t, i), Places(t, j))
\* An entry point that takes aggregates is rejected.  Another one returns none,
\* and what it calls need not wait for others: its calls are left alone once it
\* is a helper.
EntrySupported(t, j) ==
  \/ TakesAgg(t.funs[j])
  \/ /\ ~IsAgg(t.funs[j].ret)
     /\ \A s \in Sites(t, {"call"}) : s[1] = j =>
          \A i \in Defs(t, CalleeOf(t, s)) : i # j /\ ToRewrite(t.funs[i]) => Unhindered(t, i)
\* Every callee of the file is defined at or above the call, and functions to
\* rewrite have prototypes only without the option o.
Supported(t, o) ==
  /\ \A s \in Sites(t, {"call"}) : Defs(t, CalleeOf(t, s)) = Known(t, s)
  /\ \A j \in DOMAIN t.funs : ToRewrite(t.funs[j]) =>
       IF t.funs[j].entry THEN EntrySupported(t, j) ELSE t.funs[j].proto = "old" => ~o

-----------------------------------------------------------------------------
(* Properties, of supported files.                                         *)

TypeOK ==
  /\ budget \in Nat /\ option \in BOOLEAN
  /\ attempt \in 0..budget
  /\ status \in {"running", "done", "error", "spent"}

\* A definition, its prototype, its calls and its returns change together: no
\* staged file has a call of one convention to a function of the other.
StagedCompiles == TypeOK /\ Compiled(text)

\* An external function gets one wrapper, in one attempt for all its calls.
OneWrapper ==
  /\ \A a, b \in DOMAIN text.stubs : text.stubs[a] = text.stubs[b] => a = b
  /\ \A s \in Sites(text, {"call"}) : CalleeOf(text, s) \notin Wrapped(text)

\* When the pass reports Continue nothing is left to do: no aggregate in a
\* signature, no void result, no call as it was of an external or a rewritten
\* function, helpers of entry points included.
Finished ==
  status = "done" =>
    /\ \A j \in DOMAIN text.funs : ~ToRewrite(text.funs[j])
    /\ \A s \in Sites(text, {"call"}) :
         /\ Defs(text, CalleeOf(text, s)) = {} => option
         /\ \A j \in Defs(text, CalleeOf(text, s)) : ~text.funs[j].rewritten

\* The pass needs no more attempts than there are external functions to wrap
\* and functions to rewrite, with one for the latter in any case: every attempt
\* but a failing one retires a group for good.
ToWrap == IF option THEN {}
          ELSE {n \in {CalleeOf(source, s) : s \in Sites(source, {"call"})} : Defs(source, n) = {}}
ToChange == {j \in DOMAIN source.funs : ToRewrite(source.funs[j])}
AttemptsBounded ==
  attempt <= Cardinality(ToWrap) + (IF ToChange = {} THEN 1 ELSE Cardinality(ToChange))

\* The pass fails on variadic functions, on entry points that take aggregates,
\* and on calls nested in a call of the same function, or in what a function
\* that returns an aggregate returns of itself, which it takes for recursion.
Nested(n) ==
  \E s \in Sites(source, {"call"}), r \in Sites(source, {"call", "return"}) :
    /\ Around(r, s) /\ CalleeOf(source, s) = n
    /\ IF source.nodes[r].k = "call" THEN CalleeOf(source, r) = n
       ELSE source.funs[r[1]].name = n /\ IsAgg(source.funs[r[1]].ret)
Unsupported ==
  \/ \E n \in {CalleeOf(source, s) : s \in Sites(source, {"call"})} : Nested(n)
  \/ \E j \in DOMAIN source.funs : source.funs[j].variadic
  \/ \E s \in Sites(source, {"call"}) :
       CalleeOf(source, s) \in DOMAIN Externals /\ Externals[CalleeOf(source, s)].variadic
  \/ \E j \in DOMAIN source.funs : source.funs[j].entry /\ TakesAgg(source.funs[j])
ErrorsJustified == status = "error" => Unsupported

-----------------------------------------------------------------------------
(* The inductive invariant: the text is the source with the wrappers there *)
(* are and the functions rewritten so far, all of each and nothing more.   *)

Rewritten == {j \in DOMAIN text.funs : text.funs[j].rewritten}
FunNow(j) ==
  [source.funs[j] EXCEPT
     !.rewritten = j \in Rewritten,
     !.proto = IF j \in Rewritten /\ @ = "old" /\ ~source.funs[j].entry THEN "new" ELSE @]
FormNow(s) ==
  LET node == source.nodes[s]
      defs == Defs(source, node.of)
  IN  CASE node.k = "return" /\ s[1] \in Rewritten
             /\ (IsAgg(source.funs[s[1]].ret) \/ source.funs[s[1]].ret = "void") ->
               IF node.n = 0 THEN "zero" ELSE "store"
        [] node.k = "call" /\ defs \cap Rewritten # {} ->
               CallForm(source.funs[CHOOSE j \in defs : TRUE])
        [] node.k = "call" /\ defs = {} /\ node.of \in Wrapped(text) -> "wrapped"
        [] OTHER -> node.k
TextNow ==
  text = [stubs |-> text.stubs,
          funs  |-> [j \in DOMAIN source.funs |-> FunNow(j)],
          nodes |-> [s \in DOMAIN source.nodes |-> [source.nodes[s] EXCEPT !.k = FormNow(s)]]]

\* Rewriting begins when every external function has its wrapper, and then
\* with every function no other group hinders.
Started ==
  /\ Rewritten \subseteq ToChange
  /\ \A j \in Rewritten : source.funs[j].entry => ~TakesAgg(source.funs[j])
  /\ Rewritten # {} =>
       /\ ToWrap \subseteq Wrapped(text)
       /\ \A j \in ToChange : Unhindered(source, j) => j \in Rewritten
Stubs ==
  /\ text.stubs \in Seq(ToWrap)
  /\ \A a, b \in DOMAIN text.stubs : text.stubs[a] = text.stubs[b] => a = b
Counted ==
  /\ status \in {"running", "spent", "error"} =>
       /\ attempt <= Cardinality(Wrapped(text)) + Cardinality(Rewritten)
       /\ ToChange # {} => Rewritten # ToChange
  /\ status = "done" => Rewritten = ToChange /\ ToWrap \subseteq Wrapped(text)

IInv ==
  /\ TypeOK /\ CFile(source) /\ Supported(source, option)
  /\ TextNow /\ Started /\ Stubs /\ Counted
  /\ AttemptsBounded /\ ErrorsJustified
=============================================================================
