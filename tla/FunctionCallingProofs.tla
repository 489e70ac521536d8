----------------------- MODULE FunctionCallingProofs -----------------------
(***************************************************************************)
(* Proofs about FunctionCalling, for every supported file, budget and set  *)
(* of external functions, and about CallRuns: what is staged runs as the   *)
(* source does.                                                            *)
(***************************************************************************)
EXTENDS CallRuns, FiniteSetTheorems, SequenceTheorems, WellFoundedInduction, TLAPS

(* The source.                                                             *)

\* A function of the source is the record CFunction says, not rewritten.
LEMMA FunRecord ==
  ASSUME CFile(source), NEW j \in DOMAIN source.funs
  PROVE  /\ source.funs[j].rewritten = FALSE
         /\ source.funs[j] =
              [name |-> source.funs[j].name, params |-> source.funs[j].params,
               ret |-> source.funs[j].ret, entry |-> source.funs[j].entry,
               variadic |-> source.funs[j].variadic, proto |-> source.funs[j].proto,
               rewritten |-> source.funs[j].rewritten]
<1>1. source.funs[j] = [Fun(source.funs[j].name, source.funs[j].params, source.funs[j].ret) EXCEPT
          !.entry = source.funs[j].entry, !.variadic = source.funs[j].variadic, !.proto = source.funs[j].proto]
  BY DEF CFile, CFunction
<1> QED  BY <1>1 DEF Fun

\* The functions of the source are numbered from one.
LEMMA SourceFuns ==
  ASSUME CFile(source)
  PROVE  /\ DOMAIN source.funs = 1..Len(source.funs) /\ Len(source.funs) \in Nat
         /\ IsFiniteSet(DOMAIN source.funs)
         /\ \A j \in DOMAIN source.funs : j \in Nat /\ j # 0 /\ ~source.funs[j].rewritten
<1>1. source.funs \in Seq({source.funs[j] : j \in DOMAIN source.funs})  BY DEF CFile
<1>2. DOMAIN source.funs = 1..Len(source.funs) /\ Len(source.funs) \in Nat  BY <1>1
<1>3. IsFiniteSet(DOMAIN source.funs)  BY <1>2, FS_Interval
<1>4. ASSUME NEW j \in DOMAIN source.funs  PROVE ~source.funs[j].rewritten  BY FunRecord
<1> QED  BY <1>2, <1>3, <1>4

\* The nodes of the source lie in its functions, at paths of child numbers.
LEMMA SourceNodes ==
  ASSUME CFile(source), NEW s \in DOMAIN source.nodes
  PROVE  /\ s[1] \in DOMAIN source.funs /\ s[2] \in Seq(Nat \ {0}) /\ s = <<s[1], s[2]>>
         /\ source.nodes[s] = [k |-> source.nodes[s].k, of |-> source.nodes[s].of, n |-> source.nodes[s].n]
         /\ source.nodes[s].k \in {"body", "stmt", "return", "par", "struct", "int", "call"}
<1>1. s \in (DOMAIN source.funs) \X Seq(Nat \ {0})  BY DEF CFile
<1>2. CNode(source.nodes[s])  BY DEF CFile
<1> QED  BY <1>1, <1>2 DEF CNode

\* A name is defined once.
LEMMA OneDefinition ==
  ASSUME CFile(source), NEW n, NEW j \in Defs(source, n)
  PROVE  Defs(source, n) = {j}
BY DEF CFile, Defs

-----------------------------------------------------------------------------
(* The text by the invariant.                                              *)

\* By the invariant the functions of the text are those of the source, up to
\* whether they are rewritten and which prototype they have.
LEMMA TextFuns ==
  ASSUME CFile(source), TextNow
  PROVE  /\ DOMAIN text.funs = DOMAIN source.funs
         /\ \A j \in DOMAIN source.funs :
              /\ text.funs[j].name = source.funs[j].name
              /\ text.funs[j].params = source.funs[j].params
              /\ text.funs[j].ret = source.funs[j].ret
              /\ text.funs[j].entry = source.funs[j].entry
              /\ text.funs[j].variadic = source.funs[j].variadic
              /\ text.funs[j].rewritten = (j \in Rewritten)
              /\ text.funs[j].proto = IF j \in Rewritten /\ source.funs[j].proto = "old" /\ ~source.funs[j].entry
                                      THEN "new" ELSE source.funs[j].proto
         /\ \A n : Defs(text, n) = Defs(source, n)
         /\ Rewritten \subseteq DOMAIN source.funs
<1>1. text.funs = [j \in DOMAIN source.funs |-> FunNow(j)]  BY DEF TextNow
<1>3. DOMAIN text.funs = DOMAIN source.funs  BY <1>1
<1>4. ASSUME NEW j \in DOMAIN source.funs
      PROVE  /\ text.funs[j].name = source.funs[j].name
             /\ text.funs[j].params = source.funs[j].params
             /\ text.funs[j].ret = source.funs[j].ret
             /\ text.funs[j].entry = source.funs[j].entry
             /\ text.funs[j].variadic = source.funs[j].variadic
             /\ text.funs[j].rewritten = (j \in Rewritten)
             /\ text.funs[j].proto = IF j \in Rewritten /\ source.funs[j].proto = "old" /\ ~source.funs[j].entry
                                      THEN "new" ELSE source.funs[j].proto
  <2>1. text.funs[j] = FunNow(j)  BY <1>1
  <2> QED  BY <2>1, FunRecord DEF FunNow
<1>5. \A n : Defs(text, n) = Defs(source, n)  BY <1>3, <1>4 DEF Defs
<1>6. Rewritten \subseteq DOMAIN source.funs  BY <1>3 DEF Rewritten
<1> QED  BY <1>3, <1>4, <1>5, <1>6

\* By the invariant the nodes of the text are those of the source, up to form.
LEMMA TextNodes ==
  ASSUME CFile(source), TextNow
  PROVE  /\ DOMAIN text.nodes = DOMAIN source.nodes
         /\ \A s \in DOMAIN source.nodes :
              /\ text.nodes[s] = [k |-> FormNow(s), of |-> source.nodes[s].of, n |-> source.nodes[s].n]
              /\ text.nodes[s].k = FormNow(s) /\ text.nodes[s].n = source.nodes[s].n
              /\ CalleeOf(text, s) = CalleeOf(source, s)
<1>1. text.nodes = [s \in DOMAIN source.nodes |-> [source.nodes[s] EXCEPT !.k = FormNow(s)]]
  BY DEF TextNow
<1>2. ASSUME NEW s \in DOMAIN source.nodes
      PROVE  text.nodes[s] = [k |-> FormNow(s), of |-> source.nodes[s].of, n |-> source.nodes[s].n]
  <2>1. text.nodes[s] = [source.nodes[s] EXCEPT !.k = FormNow(s)]  BY <1>1
  <2> QED  BY <2>1, SourceNodes
<1>3. DOMAIN text.nodes = DOMAIN source.nodes  BY <1>1
<1>4. ASSUME NEW s \in DOMAIN source.nodes
      PROVE  /\ text.nodes[s].k = FormNow(s) /\ text.nodes[s].n = source.nodes[s].n
             /\ CalleeOf(text, s) = CalleeOf(source, s)
  <2>1. text.nodes[s] = [k |-> FormNow(s), of |-> source.nodes[s].of, n |-> source.nodes[s].n]  BY <1>2
  <2>2. /\ text.nodes[s].k = FormNow(s) /\ text.nodes[s].n = source.nodes[s].n
        /\ text.nodes[s].of = source.nodes[s].of
    BY <2>1
  <2> QED  BY <2>2 DEF CalleeOf
<1> QED  BY <1>2, <1>3, <1>4

\* Where a call is still as it was: its function is not rewritten, or has no
\* wrapper.
LEMMA CallSites ==
  ASSUME CFile(source), TextNow
  PROVE  \A s : s \in Sites(text, {"call"}) <=>
               /\ s \in Sites(source, {"call"})
               /\ Defs(source, CalleeOf(source, s)) \cap Rewritten = {}
               /\ Defs(source, CalleeOf(source, s)) = {} => CalleeOf(source, s) \notin Wrapped(text)
<1>1. ASSUME NEW s \in DOMAIN source.nodes
      PROVE  FormNow(s) = "call" <=>
               /\ source.nodes[s].k = "call"
               /\ Defs(source, CalleeOf(source, s)) \cap Rewritten = {}
               /\ Defs(source, CalleeOf(source, s)) = {} => CalleeOf(source, s) \notin Wrapped(text)
  BY DEF FormNow, CallForm, CalleeOf
<1>2. \A s \in DOMAIN source.nodes : text.nodes[s].k = FormNow(s)  BY TextNodes
<1>3. DOMAIN text.nodes = DOMAIN source.nodes  BY TextNodes
<1> QED  BY <1>1, <1>2, <1>3 DEF Sites

\* Where a return is still as it was: its function is not rewritten, or returns
\* a word.
LEMMA ReturnSites ==
  ASSUME CFile(source), TextNow
  PROVE  \A s : s \in Sites(text, {"return"}) <=>
               /\ s \in Sites(source, {"return"})
               /\ s[1] \in Rewritten => ~IsAgg(source.funs[s[1]].ret) /\ source.funs[s[1]].ret # "void"
<1>1. ASSUME NEW s \in DOMAIN source.nodes
      PROVE  FormNow(s) = "return" <=>
               /\ source.nodes[s].k = "return"
               /\ s[1] \in Rewritten => ~IsAgg(source.funs[s[1]].ret) /\ source.funs[s[1]].ret # "void"
  BY DEF FormNow, CallForm
<1>2. \A s \in DOMAIN source.nodes : text.nodes[s].k = FormNow(s)  BY TextNodes
<1>3. DOMAIN text.nodes = DOMAIN source.nodes  BY TextNodes
<1> QED  BY <1>1, <1>2, <1>3 DEF Sites

\* A rewritten entry point takes and returns words.
LEMMA EntriesPlain ==
  ASSUME CFile(source), Supported(source, option), Started,
         NEW j \in Rewritten, source.funs[j].entry, Rewritten \subseteq DOMAIN source.funs
  PROVE  /\ ~NeedsRewriting(source.funs[j])
         /\ \A s \in Sites(source, {"call"}) : s[1] = j =>
              \A i \in Defs(source, CalleeOf(source, s)) :
                 i # j /\ ToRewrite(source.funs[i]) => Unhindered(source, i)
<1>1. ~TakesAgg(source.funs[j]) /\ j \in ToChange  BY DEF Started
<1>2. EntrySupported(source, j)  BY <1>1 DEF Supported, ToChange
<1> QED  BY <1>1, <1>2 DEF EntrySupported, NeedsRewriting

\* The text compiles.
LEMMA TextCompiles ==
  ASSUME CFile(source), Supported(source, option), TextNow, Started, Stubs
  PROVE  Compiled(text)
<1> USE SourceNodes, TextFuns, TextNodes
<1>r. /\ Rewritten \subseteq DOMAIN source.funs /\ DOMAIN text.funs = DOMAIN source.funs
      /\ \A n : Defs(text, n) = Defs(source, n)
      /\ \A n : Defs(source, n) \subseteq DOMAIN source.funs
  BY DEF Defs
<1>0. ASSUME NEW j \in DOMAIN source.funs, j \notin Rewritten \/ ~NeedsRewriting(source.funs[j])
      PROVE  KeepsType(text.funs[j])
  <2>1. /\ text.funs[j].params = source.funs[j].params /\ text.funs[j].ret = source.funs[j].ret
        /\ text.funs[j].rewritten = (j \in Rewritten)
    OBVIOUS
  <2> QED  BY <2>1, <1>0 DEF KeepsType, Hoisted, HoistsRet, NeedsRewriting, TakesAgg
<1>1. ASSUME NEW s \in Sites(text, {"call", "void"}), NEW j \in Defs(text, CalleeOf(text, s))
      PROVE  KeepsType(text.funs[j])
  <2>1. s \in DOMAIN source.nodes /\ FormNow(s) \in {"call", "void"}  BY DEF Sites
  <2>2. j \in Defs(source, source.nodes[s].of)
    <3>1. CalleeOf(text, s) = source.nodes[s].of  BY <2>1 DEF CalleeOf
    <3> QED  BY <3>1, <1>r
  <2>3. Defs(source, source.nodes[s].of) = {j}  BY <2>2, OneDefinition
  <2>4. source.nodes[s].k = "call"  BY <2>1, <2>2 DEF FormNow, CallForm
  <2>5. j \in Rewritten => ~NeedsRewriting(source.funs[j])  BY <2>1, <2>3, <2>4 DEF FormNow, CallForm
  <2> QED  BY <1>0, <1>r, <2>2, <2>5
<1>2. ASSUME NEW s \in Sites(text, {"hoisted"}), NEW j \in Defs(text, CalleeOf(text, s))
      PROVE  text.funs[j].rewritten
  <2>1. s \in DOMAIN source.nodes /\ FormNow(s) = "hoisted"  BY DEF Sites
  <2>2. j \in Defs(source, source.nodes[s].of)
    <3>1. CalleeOf(text, s) = source.nodes[s].of  BY <2>1 DEF CalleeOf
    <3> QED  BY <3>1, <1>r
  <2>3. Defs(source, source.nodes[s].of) = {j}  BY <2>2, OneDefinition
  <2>4. source.nodes[s].k # "hoisted"  BY <2>1
  <2>5. Defs(source, source.nodes[s].of) \cap Rewritten # {}  BY <2>1, <2>4 DEF FormNow
  <2> QED  BY <1>r, <2>3, <2>5
<1>3. ASSUME NEW s \in Sites(text, {"wrapped"})  PROVE  CalleeOf(text, s) \in Wrapped(text)
  <2>1. s \in DOMAIN source.nodes /\ FormNow(s) = "wrapped"  BY DEF Sites
  <2> QED  BY <2>1 DEF FormNow, CallForm, CalleeOf
<1>4. ASSUME NEW n \in Wrapped(text), NEW j \in Defs(text, n)  PROVE  KeepsType(text.funs[j])
  <2>1. n \in ToWrap  BY DEF Wrapped, Stubs
  <2> QED  BY <2>1, <1>r DEF ToWrap
<1>5. ASSUME NEW s \in Sites(text, {"return"})  PROVE  ~HoistsRet(text.funs[s[1]])
  <2>1. /\ s \in Sites(source, {"return"})
        /\ s[1] \in Rewritten => ~IsAgg(source.funs[s[1]].ret) /\ source.funs[s[1]].ret # "void"
    BY ReturnSites
  <2>2. s[1] \in DOMAIN source.funs  BY <2>1 DEF Sites
  <2> QED  BY <2>1, <2>2 DEF HoistsRet
<1>6. ASSUME NEW s \in Sites(text, {"store", "zero"})  PROVE  text.funs[s[1]].rewritten
  <2>1. s \in DOMAIN source.nodes /\ FormNow(s) \in {"store", "zero"}  BY DEF Sites
  <2>2. s[1] \in Rewritten  BY <2>1 DEF FormNow, CallForm
  <2> QED  BY <2>1, <2>2
<1>7. ASSUME NEW j \in DOMAIN text.funs
      PROVE  /\ text.funs[j].proto = "old" => ~text.funs[j].rewritten \/ text.funs[j].entry
             /\ text.funs[j].entry => ~HoistsRet(text.funs[j])
  <2>1. j \in DOMAIN source.funs  BY <1>r
  <2>2. /\ text.funs[j].rewritten = (j \in Rewritten)
        /\ text.funs[j].entry = source.funs[j].entry /\ text.funs[j].ret = source.funs[j].ret
        /\ text.funs[j].proto = IF j \in Rewritten /\ source.funs[j].proto = "old" /\ ~source.funs[j].entry
                               THEN "new" ELSE source.funs[j].proto
    BY <2>1
  <2>3. j \in Rewritten /\ source.funs[j].entry => ~IsAgg(source.funs[j].ret)
    BY <1>r, EntriesPlain DEF NeedsRewriting
  <2>4. text.funs[j].proto = "old" => ~text.funs[j].rewritten \/ text.funs[j].entry
    BY <2>2
  <2>5. text.funs[j].entry => ~HoistsRet(text.funs[j])  BY <2>2, <2>3 DEF HoistsRet
  <2> QED  BY <2>4, <2>5
<1> QED  BY <1>1, <1>2, <1>3, <1>4, <1>5, <1>6, <1>7 DEF Compiled

-----------------------------------------------------------------------------
(* Edits and groups.                                                       *)

\* The places of a function to rewrite are those it had in the source: nothing
\* an attempt does to other functions moves or hides one.
LEMMA SamePlaces ==
  ASSUME CFile(source), Supported(source, option), TextNow, Started, NEW j \in ToChange \ Rewritten
  PROVE  Places(text, j) = Places(source, j) /\ OurGroup(text, j) = OurGroup(source, j)
<1>1. j \in DOMAIN source.funs /\ ToRewrite(source.funs[j])  BY DEF ToChange
<1>2. \A s : s \in Returns(text, j) <=> s \in Returns(source, j)
  BY <1>1, ReturnSites, TextFuns DEF Returns
<1>3. ASSUME NEW s  PROVE s \in Calls(text, j) => s \in Calls(source, j)
  <2> SUFFICES ASSUME s \in Calls(text, j)  PROVE s \in Calls(source, j)  OBVIOUS
  <2>1. s \in Sites(text, {"call"}) /\ j \in Defs(text, CalleeOf(text, s)) /\ j <= s[1]
    BY DEF Calls, Visited, Known
  <2>2. s \in Sites(source, {"call"})  BY <2>1, CallSites
  <2>3. s \in DOMAIN source.nodes  BY <2>2 DEF Sites
  <2>4. j \in Defs(source, CalleeOf(source, s))  BY <2>1, <2>3, TextFuns, TextNodes
  <2>5. ~source.funs[s[1]].rewritten  BY <2>3, SourceFuns, SourceNodes
  <2> QED  BY <2>1, <2>2, <2>4, <2>5 DEF Calls, Visited, Known, InHelper
<1>4. ASSUME NEW s  PROVE s \in Calls(source, j) => s \in Calls(text, j)
  <2> SUFFICES ASSUME s \in Calls(source, j)  PROVE s \in Calls(text, j)  OBVIOUS
  <2>1. s \in Sites(source, {"call"}) /\ j \in Defs(source, CalleeOf(source, s)) /\ j <= s[1]
    BY DEF Calls, Visited, Known
  <2>2. s \in DOMAIN source.nodes  BY <2>1 DEF Sites
  <2>3. Defs(source, CalleeOf(source, s)) = {j}  BY <2>1, OneDefinition
  <2>4. s \in Sites(text, {"call"})  BY <2>1, <2>3, CallSites
  <2>5. j \in Defs(text, CalleeOf(text, s))  BY <2>1, <2>2, TextFuns, TextNodes
  <2>6. ASSUME InHelper(text, s)  PROVE FALSE
    <3>1. s[1] \in Rewritten /\ source.funs[s[1]].entry
      BY <2>2, <2>6, SourceNodes, TextFuns DEF InHelper
    <3>2. Unhindered(source, j)  BY <1>1, <2>1, <3>1, EntriesPlain, TextFuns
    <3> QED  BY <3>1, <3>2 DEF Started
  <2> QED  BY <2>1, <2>4, <2>5, <2>6 DEF Calls, Visited, Known
<1>5. Places(text, j) = Places(source, j)
  <2> HIDE DEF Returns, Calls
  <2>1. Returns(text, j) = Returns(source, j)
    <3>1. Returns(text, j) \subseteq Returns(source, j)  BY <1>2
    <3>2. Returns(source, j) \subseteq Returns(text, j)  BY <1>2
    <3> QED  BY <3>1, <3>2
  <2>2. Calls(text, j) = Calls(source, j)  BY <1>3, <1>4
  <2> QED  BY <2>1, <2>2 DEF Places
<1>6. text.funs[j].proto = source.funs[j].proto /\ text.funs[j].entry = source.funs[j].entry
  BY <1>1, TextFuns
<1> QED  BY <1>5, <1>6 DEF OurGroup

\* What a group consists of.
LEMMA PlacesOf ==
  ASSUME CFile(source), NEW j \in DOMAIN source.funs, NEW s \in Places(source, j)
  PROVE  \/ s = HeadOf(j)
         \/ /\ s \in Sites(source, {"return"}) /\ s[1] = j
            /\ IsAgg(source.funs[j].ret) \/ source.funs[j].ret = "void"
         \/ /\ s \in Sites(source, {"call"}) /\ j <= s[1]
            /\ j \in Defs(source, CalleeOf(source, s))
BY DEF Places, Returns, Calls, Visited, Known

\* A head lies before the nodes of its function and around none of them.
LEMMA HeadsApart ==
  ASSUME CFile(source), NEW j \in DOMAIN source.funs, NEW s \in DOMAIN source.nodes, s[2] # <<>>
  PROVE  /\ HeadOf(j) # s /\ Proto(j) # s
         /\ ~Around(HeadOf(j), s) /\ ~Around(s, HeadOf(j))
<1>1. s[2] \in Seq(Nat \ {0}) /\ s[1] \in Nat /\ s[1] # 0 /\ s[1] \in DOMAIN source.funs
  BY SourceNodes, SourceFuns
<1>2. Len(s[2]) # 0 /\ Len(s[2]) \in Nat /\ s[2][1] \in Nat \ {0}  BY <1>1
<1>3. HeadOf(j)[2] = <<0>> /\ Len(<<0>>) = 1 /\ <<0>>[1] = 0 BY DEF HeadOf
<1>4. ~Inside(<<0>>, s[2])  BY <1>2 DEF Inside
<1>5. ~Inside(s[2], <<0>>)
  <2> SUFFICES ASSUME Inside(s[2], << 0 >>)  PROVE FALSE  OBVIOUS
  <2>1. <<0>> = SubSeq(s[2], 1, 1)  BY DEF Inside
  <2>2. SubSeq(s[2], 1, 1)[1] = s[2][1]  BY <1>1, <1>2
  <2> QED  BY <2>1, <2>2, <1>2
<1> QED  BY <1>1, <1>2, <1>3, <1>4, <1>5 DEF HeadOf, Proto, Around

\* Every edit of a group.
LEMMA GroupEdits ==
  ASSUME CFile(source), NEW j \in DOMAIN source.funs, NEW s \in OurGroup(source, j)
  PROVE  \/ s = HeadOf(j)
         \/ s = Proto(j)
         \/ /\ s \in Sites(source, {"call", "return"}) /\ s \in DOMAIN source.nodes /\ s[2] # <<>>
            /\ j <= s[1] /\ s[1] \in Nat
            /\ \/ /\ s \in Sites(source, {"return"}) /\ s[1] = j
                  /\ IsAgg(source.funs[j].ret) \/ source.funs[j].ret = "void"
               \/ /\ s \in Sites(source, {"call"}) /\ j \in Defs(source, CalleeOf(source, s))
<1>1. s \in Places(source, j) \/ s = Proto(j)  BY DEF OurGroup
<1>2. CASE s = Proto(j) \/ s = HeadOf(j)  BY <1>2
<1>3. CASE s \in Places(source, j) /\ s # HeadOf(j)
  <2>1. s \in Sites(source, {"call", "return"}) /\ j <= s[1]
    BY <1>3, PlacesOf, SourceFuns DEF Sites
  <2>2. s \in DOMAIN source.nodes /\ s[2] # <<>>  BY <2>1 DEF Sites, CFile
  <2>3. s[1] \in Nat  BY <2>2, SourceNodes, SourceFuns
  <2> QED  BY <1>3, <2>1, <2>2, <2>3, PlacesOf
<1> QED  BY <1>1, <1>2, <1>3

\* Of two paths of length one the smaller comes first.
LEMMA EarlierSingle ==
  ASSUME NEW i \in Nat, NEW j \in Nat
  PROVE  Earlier(<<i>>, <<j>>) <=> i < j
<1>1. DOMAIN <<i>> = {1} /\ DOMAIN <<j>> = {1} /\ <<i>>[1] = i /\ <<j>>[1] = j
  OBVIOUS
<1>2. ~Inside(<<j>>, <<i>>)  BY DEF Inside
<1>3. 1..(1 - 1) = {}  OBVIOUS
<1>4. ASSUME i < j  PROVE Earlier(<<i>>, <<j>>)
  <2>1. 1 \in (DOMAIN <<i>>) \cap (DOMAIN <<j>>)  BY <1>1
  <2> QED  BY <1>1, <1>3, <1>4, <2>1 DEF Earlier
<1>5. ASSUME Earlier(<<i>>, <<j>>)  PROVE i < j
  <2>1. PICK k \in (DOMAIN <<i>>) \cap (DOMAIN <<j>>) : <<i>>[k] < <<j>>[k]  BY <1>2, <1>5 DEF Earlier
  <2>2. k = 1  BY <1>1, <2>1
  <2> QED  BY <1>1, <2>1, <2>2
<1> QED  BY <1>4, <1>5

\* The group of function j replaces a prototype.
HasProto(j) == Proto(j) \in OurGroup(source, j)

\* The order of the groups: those with a prototype, then the others, each by
\* the position of the function.
LEMMA GroupOrder ==
  ASSUME CFile(source), NEW i \in DOMAIN source.funs, NEW j \in DOMAIN source.funs, i # j
  PROVE  Leads(OurGroup(source, i), OurGroup(source, j)) <=>
           IF HasProto(i) THEN HasProto(j) => i < j ELSE ~HasProto(j) /\ i < j
<1>n. i \in Nat /\ i # 0 /\ j \in Nat /\ j # 0  BY SourceFuns
<1>h. HeadOf(i) \in OurGroup(source, i) /\ HeadOf(j) \in OurGroup(source, j)  BY DEF OurGroup, Places
<1>1. ASSUME HasProto(i), HasProto(j) => i < j
      PROVE  Leads(OurGroup(source, i), OurGroup(source, j))
  <2>1. ASSUME NEW b \in OurGroup(source, j)  PROVE  Before(Proto(i), b)
    <3>1. CASE b = Proto(j)
      <4>1. i < j  BY <1>1, <3>1 DEF HasProto
      <4> QED  BY <3>1, <4>1, <1>n, EarlierSingle DEF Before, Proto
    <3>2. CASE b # Proto(j)
      <4>1. b[1] \in Nat /\ b[1] >= j  BY <3>2, <1>n, GroupEdits DEF HeadOf
      <4> QED  BY <4>1, <1>n DEF Before, Proto
    <3> QED  BY <3>1, <3>2
  <2> QED  BY <2>1, <1>1 DEF Leads, HasProto
<1>2. ASSUME ~HasProto(i), ~HasProto(j), i < j
      PROVE  Leads(OurGroup(source, i), OurGroup(source, j))
  <2>1. ASSUME NEW b \in OurGroup(source, j)  PROVE  Before(HeadOf(i), b)
    <3>1. b[1] \in Nat /\ b[1] >= j  BY <1>2, <1>n, GroupEdits DEF HeadOf, HasProto
    <3> QED  BY <3>1, <1>2, <1>n DEF Before, HeadOf
  <2> QED  BY <2>1, <1>h DEF Leads
<1>3. ASSUME Leads(OurGroup(source, i), OurGroup(source, j)), HasProto(j)
      PROVE  HasProto(i) /\ i < j
  <2>1. PICK a \in OurGroup(source, i) : Before(a, Proto(j))  BY <1>3 DEF Leads, HasProto
  <2>2. CASE a = Proto(i)
    <3>1. Earlier(<<i>>, <<j>>)  BY <2>1, <2>2 DEF Before, Proto
    <3> QED  BY <2>2, <3>1, <1>n, EarlierSingle DEF HasProto
  <2>3. CASE a # Proto(i)
    <3>1. a[1] \in Nat /\ a[1] >= i  BY <2>3, <1>n, GroupEdits DEF HeadOf
    <3> QED  BY <2>1, <3>1, <1>n DEF Before, Proto
  <2> QED  BY <2>2, <2>3
<1>4. ASSUME Leads(OurGroup(source, i), OurGroup(source, j)), ~HasProto(i)
      PROVE  i < j
  <2>1. PICK a \in OurGroup(source, i) : Before(a, HeadOf(j))  BY <1>3, <1>4, <1>h DEF Leads
  <2>2. a[1] \in Nat /\ a[1] >= i  BY <1>4, <1>n, GroupEdits DEF HeadOf, HasProto
  <2>3. ASSUME a[1] = j  PROVE ~Earlier(a[2], <<0>>)
    <3>1. a \in DOMAIN source.nodes /\ a[2] # <<>>  BY <2>3, <1>4, <1>n, GroupEdits DEF HeadOf, HasProto
    <3>2. a[2] \in Seq(Nat \ {0})  BY <3>1, SourceNodes
    <3>3. Len(a[2]) \in Nat /\ Len(a[2]) # 0 /\ a[2][1] \in Nat  BY <3>1, <3>2
    <3>4. ~Inside(<<0>>, a[2])  BY <3>3 DEF Inside
    <3> QED  BY <3>3, <3>4 DEF Earlier
  <2> QED  BY <2>1, <2>2, <2>3, <1>n DEF Before, HeadOf
<1> QED  BY <1>1, <1>2, <1>3, <1>4

\* Every set of numbers has a smallest one.
LEMMA Smallest ==
  ASSUME NEW T \in SUBSET Nat, T # {}
  PROVE  \E j \in T : \A i \in T : j <= i
<1>1. \E j \in T : \A i \in T : ~(<<i, j>> \in OpToRel(<, Nat))
  BY NatLessThanWellFounded, WFMin
<1>2. ASSUME NEW i \in Nat, NEW j \in Nat, i < j  PROVE <<i, j>> \in OpToRel(<, Nat)
  BY <1>2 DEF OpToRel
<1>3. PICK j \in T : \A i \in T : ~(<<i, j>> \in OpToRel(<, Nat))  BY <1>1
<1>4. \A i \in T : ~(i < j)  BY <1>2, <1>3
<1>5. j \in T  BY <1>3
<1> QED  BY <1>4, <1>5

\* Of any functions to rewrite one group comes first.
LEMMA FirstGroup ==
  ASSUME CFile(source), NEW D \in SUBSET DOMAIN source.funs, D # {}
  PROVE  \E j \in D : \A i \in D \ {j} : ~Leads(OurGroup(source, i), OurGroup(source, j))
<1>1. ASSUME NEW T \in SUBSET D, T # {}  PROVE  \E j \in T : \A i \in T : j <= i
  <2>1. T \in SUBSET Nat  BY SourceFuns
  <2> QED  BY <1>1, <2>1, Smallest
<1>2. CASE \E j \in D : HasProto(j)
  <2>1. PICK j \in {i \in D : HasProto(i)} : \A i \in {k \in D : HasProto(k)} : j <= i
    <3>1. {i \in D : HasProto(i)} # {}  BY <1>2
    <3> QED  BY <3>1, <1>1
  <2>2. ASSUME NEW i \in D \ {j}  PROVE ~Leads(OurGroup(source, i), OurGroup(source, j))
    <3>1. HasProto(j) /\ (HasProto(i) => j <= i) /\ i \in Nat /\ j \in Nat  BY <2>1, SourceFuns
    <3>2. Leads(OurGroup(source, i), OurGroup(source, j)) => HasProto(i) /\ i < j
      BY <3>1, GroupOrder
    <3> QED  BY <3>1, <3>2
  <2> QED  BY <2>1, <2>2
<1>3. CASE \A j \in D : ~HasProto(j)
  <2>1. PICK j \in D : \A i \in D : j <= i  BY <1>1
  <2>2. ASSUME NEW i \in D \ {j}  PROVE ~Leads(OurGroup(source, i), OurGroup(source, j))
    <3>1. j <= i /\ i \in Nat /\ j \in Nat  BY <2>1, SourceFuns
    <3>2. Leads(OurGroup(source, i), OurGroup(source, j)) => i < j  BY <1>3, GroupOrder
    <3> QED  BY <3>1, <3>2
  <2> QED  BY <2>1, <2>2
<1> QED  BY <1>2, <1>3

\* The groups of an attempt are those the functions not yet rewritten had in
\* the source.
LEMMA GroupsNow ==
  ASSUME CFile(source), Supported(source, option), TextNow, Started
  PROVE  /\ Groups = ToChange \ Rewritten
         /\ \A j \in Groups : OurGroups(text)[j] = OurGroup(source, j)
<1>1. ASSUME NEW j \in DOMAIN source.funs
      PROVE  ToRewrite(text.funs[j]) <=> ToRewrite(source.funs[j]) /\ j \notin Rewritten
  <2>1. /\ text.funs[j].params = source.funs[j].params /\ text.funs[j].ret = source.funs[j].ret
        /\ text.funs[j].rewritten = (j \in Rewritten) /\ ~source.funs[j].rewritten
    BY TextFuns, SourceFuns
  <2> QED  BY <2>1 DEF ToRewrite, Changes, NeedsRewriting, TakesAgg
<1>2. Groups = ToChange \ Rewritten
  <2>1. Groups = {i \in DOMAIN text.funs : ToRewrite(text.funs[i])}  BY DEF Groups, OurGroups
  <2> QED  BY <2>1, <1>1, TextFuns DEF ToChange
<1>3. \A j \in Groups : OurGroups(text)[j] = OurGroup(text, j)  BY DEF Groups, OurGroups
<1> QED  BY <1>2, <1>3, SamePlaces

\* The edits of the groups of the functions js.
Edits(js) == UNION {OurGroup(source, j) : j \in js}

\* No edit of the groups committed together is lost.
LEMMA NothingLost ==
  ASSUME CFile(source), NEW js \in SUBSET DOMAIN source.funs,
         \A j \in js : ~SelfOverlap(OurGroup(source, j)),
         \A i, j \in js : Leads(OurGroup(source, i), OurGroup(source, j)) =>
                            Compatible(OurGroup(source, i), OurGroup(source, j))
  PROVE  Made(Edits(js)) = Edits(js)
<1> SUFFICES ASSUME NEW a \in Edits(js), NEW b \in Edits(js), Around(b, a)  PROVE FALSE
  BY DEF Made
<1>1. PICK i \in js : a \in OurGroup(source, i)  BY DEF Edits
<1>2. PICK j \in js : b \in OurGroup(source, j)  BY DEF Edits
<1>3. CASE i = j  BY <1>1, <1>2, <1>3 DEF SelfOverlap, Overlap
<1>4. CASE i # j
  <2>1. \/ Leads(OurGroup(source, i), OurGroup(source, j))
        \/ Leads(OurGroup(source, j), OurGroup(source, i))
    BY <1>4, GroupOrder, SourceFuns
  <2> QED  BY <1>1, <1>2, <2>1 DEF Compatible, Overlap
<1> QED  BY <1>3, <1>4

\* What an edit of committed groups can be.
LEMMA CommittedEdits ==
  ASSUME CFile(source), Supported(source, option), NEW js \in SUBSET ToChange
  PROVE  \A j \in DOMAIN source.funs :
           /\ HeadOf(j) \in Edits(js) <=> j \in js
           /\ Proto(j) \in Edits(js) <=> j \in js /\ source.funs[j].proto = "old" /\ ~source.funs[j].entry
<1> TAKE j \in DOMAIN source.funs
<1>n. j # 0 /\ js \subseteq DOMAIN source.funs /\ \A i \in js : i # 0  BY SourceFuns DEF ToChange
<1>2. ASSUME NEW s \in DOMAIN source.nodes, s[2] # <<>>  PROVE s # HeadOf(j) /\ s # Proto(j)
  BY <1>2, HeadsApart
<1>3. ASSUME HeadOf(j) \in Edits(js)  PROVE j \in js
  <2>1. PICK i \in js : HeadOf(j) \in OurGroup(source, i)  BY <1>3 DEF Edits
  <2>2. HeadOf(j) = HeadOf(i) \/ HeadOf(j) = Proto(i)  BY <1>2, <1>n, <2>1, GroupEdits
  <2> QED  BY <2>2, <1>n DEF HeadOf, Proto
<1>4. ASSUME j \in js  PROVE HeadOf(j) \in Edits(js)
  BY <1>4 DEF Edits, OurGroup, Places
<1>5. ASSUME Proto(j) \in Edits(js)
      PROVE  j \in js /\ source.funs[j].proto = "old" /\ ~source.funs[j].entry
  <2>1. PICK i \in js : Proto(j) \in OurGroup(source, i)  BY <1>5 DEF Edits
  <2>2. Proto(j) = HeadOf(i) \/ Proto(j) = Proto(i)  BY <1>2, <1>n, <2>1, GroupEdits
  <2>3. i = j  BY <2>2, <1>n DEF HeadOf, Proto
  <2>4. Proto(j) \notin Places(source, j)
    <3> SUFFICES ASSUME Proto(j) \in Places(source, j)  PROVE FALSE  OBVIOUS
    <3>1. Proto(j) # HeadOf(j)  BY <1>n DEF HeadOf, Proto
    <3>2. Proto(j) \in Sites(source, {"call", "return"})  BY <3>1, PlacesOf DEF Sites
    <3>3. Proto(j) \in DOMAIN source.nodes  BY <3>2 DEF Sites
    <3>4. Proto(j)[2] # <<>>  BY <3>2 DEF CFile
    <3> QED  BY <1>2, <3>3, <3>4
  <2> QED  BY <2>1, <2>3, <2>4 DEF OurGroup
<1>6. ASSUME j \in js, source.funs[j].proto = "old", ~source.funs[j].entry  PROVE Proto(j) \in Edits(js)
  <2>1. ~option  BY <1>6 DEF Supported, ToChange
  <2> QED  BY <1>6, <2>1 DEF Edits, OurGroup
<1> QED  BY <1>3, <1>4, <1>5, <1>6

\* The nodes edited with the functions js: what these return and all calls of
\* them.
LEMMA CommittedSites ==
  ASSUME CFile(source), Supported(source, option), NEW js \in SUBSET ToChange, NEW s \in DOMAIN source.nodes
  PROVE  s \in Edits(js) <=>
           \/ /\ source.nodes[s].k = "return" /\ s[1] \in js
              /\ IsAgg(source.funs[s[1]].ret) \/ source.funs[s[1]].ret = "void"
           \/ /\ source.nodes[s].k = "call" /\ Defs(source, source.nodes[s].of) \cap js # {}
<1>n. js \subseteq DOMAIN source.funs  BY DEF ToChange
<1>1. ASSUME s \in Edits(js)
      PROVE  \/ /\ source.nodes[s].k = "return" /\ s[1] \in js
                /\ IsAgg(source.funs[s[1]].ret) \/ source.funs[s[1]].ret = "void"
             \/ /\ source.nodes[s].k = "call" /\ Defs(source, source.nodes[s].of) \cap js # {}
  <2>1. PICK j \in js : s \in OurGroup(source, j)  BY <1>1 DEF Edits
  <2>2. s # HeadOf(j) /\ s # Proto(j)
    <3>1. s[1] # 0 /\ s[2] \in Seq(Nat \ {0})  BY SourceNodes, SourceFuns
    <3>2. s[2] # <<0>>
      <4> SUFFICES ASSUME s[2] = << 0 >>  PROVE FALSE  OBVIOUS
      <4>1. <<0>>[1] = 0 /\ Len(<<0>>) = 1  OBVIOUS
      <4> QED  BY <3>1, <4>1
    <3> QED  BY <3>1, <3>2 DEF HeadOf, Proto
  <2> QED  BY <1>n, <2>1, <2>2, GroupEdits DEF Sites, CalleeOf
<1>2. ASSUME source.nodes[s].k = "return", s[1] \in js,
             IsAgg(source.funs[s[1]].ret) \/ source.funs[s[1]].ret = "void"
      PROVE  s \in OurGroup(source, s[1])
  BY <1>2 DEF OurGroup, Places, Returns, Sites
<1>3. ASSUME source.nodes[s].k = "call", NEW j \in js, j \in Defs(source, source.nodes[s].of)
      PROVE  s \in OurGroup(source, j)
  <2>1. s \in Sites(source, {"call"})  BY <1>3 DEF Sites
  <2>2. j \in Known(source, s)  BY <1>3, <2>1 DEF Supported, CalleeOf
  <2>3. ~source.funs[s[1]].rewritten  BY SourceNodes, SourceFuns
  <2> QED  BY <2>1, <2>2, <2>3 DEF OurGroup, Places, Calls, Visited, InHelper
<1> QED  BY <1>1, <1>2, <1>3 DEF Edits

-----------------------------------------------------------------------------
(* What an attempt does to the text.                                       *)

\* Rewriting the functions js makes their edits and nothing else.
LEMMA RewritesText ==
  ASSUME CFile(source), Supported(source, option), TextNow, Started,
         NEW js \in SUBSET (ToChange \ Rewritten), Made(Edits(js)) = Edits(js),
         text' = WithOurs(Edits(js)), UNCHANGED <<option, source>>
  PROVE  TextNow' /\ Rewritten' = Rewritten \cup js /\ text'.stubs = text.stubs
<1>j. js \in SUBSET ToChange /\ js \subseteq DOMAIN source.funs  BY DEF ToChange
<1>1. /\ text'.stubs = text.stubs
      /\ text'.funs = [j \in DOMAIN text.funs |->
                  [text.funs[j] EXCEPT !.rewritten = @ \/ HeadOf(j) \in Edits(js),
                                       !.proto = IF Proto(j) \in Edits(js) THEN "new" ELSE @]]
      /\ text'.nodes = [s \in DOMAIN text.nodes |->
                  [text.nodes[s] EXCEPT !.k = IF s \in Edits(js) THEN NewForm(s) ELSE @]]
      /\ text' = [stubs |-> text'.stubs, funs |-> text'.funs, nodes |-> text'.nodes]
  BY DEF WithOurs, TextNow
<1>2. ASSUME NEW j \in DOMAIN source.funs
      PROVE  text'.funs[j] = [FunNow(j) EXCEPT !.rewritten = j \in Rewritten \cup js,
                                !.proto = IF j \in js /\ source.funs[j].proto = "old" /\ ~source.funs[j].entry
                                          THEN "new" ELSE @]
  <2>1. text.funs[j] = FunNow(j) /\ text.funs[j].rewritten = (j \in Rewritten)
    BY TextFuns DEF TextNow
  <2>2. /\ HeadOf(j) \in Edits(js) <=> j \in js
        /\ Proto(j) \in Edits(js) <=> j \in js /\ source.funs[j].proto = "old" /\ ~source.funs[j].entry
    BY <1>j, CommittedEdits
  <2> DEFINE marked == text.funs[j].rewritten \/ HeadOf(j) \in Edits(js)
             proto  == IF Proto(j) \in Edits(js) THEN "new" ELSE text.funs[j].proto
  <2>3. text'.funs[j] = [text.funs[j] EXCEPT !.rewritten = marked, !.proto = proto]
    BY <1>1, TextFuns
  <2>4. marked = (j \in Rewritten \cup js)
    <3>1. ((j \in Rewritten) \/ HeadOf(j) \in Edits(js)) = (j \in Rewritten \cup js)  BY <2>2
    <3> QED  BY <2>1, <3>1, Zenon
  <2>5. proto = IF j \in js /\ source.funs[j].proto = "old" /\ ~source.funs[j].entry
                THEN "new" ELSE FunNow(j).proto
    BY <2>1, <2>2
  <2> HIDE DEF marked, proto
  <2>6. text'.funs[j] = [FunNow(j) EXCEPT !.rewritten = j \in Rewritten \cup js, !.proto = proto]
    BY <2>1, <2>3, <2>4, Zenon
  <2> QED  BY <2>5, <2>6, Zenon
<1>3. ASSUME NEW j \in DOMAIN source.funs
      PROVE  /\ text'.funs[j].rewritten <=> j \in Rewritten \cup js
             /\ text'.funs[j] = [source.funs[j] EXCEPT
                   !.rewritten = j \in Rewritten \cup js,
                   !.proto = IF j \in Rewritten \cup js /\ @ = "old" /\ ~source.funs[j].entry THEN "new" ELSE @]
  <2>1. source.funs[j] =
              [name |-> source.funs[j].name, params |-> source.funs[j].params,
               ret |-> source.funs[j].ret, entry |-> source.funs[j].entry,
               variadic |-> source.funs[j].variadic, proto |-> source.funs[j].proto,
               rewritten |-> source.funs[j].rewritten]
    BY FunRecord
  <2>2. FunNow(j) = [source.funs[j] EXCEPT !.rewritten = j \in Rewritten, !.proto = FunNow(j).proto]
    BY <2>1 DEF FunNow
  <2>3. FunNow(j).proto = IF j \in Rewritten /\ source.funs[j].proto = "old" /\ ~source.funs[j].entry
                          THEN "new" ELSE source.funs[j].proto
    BY <2>1 DEF FunNow
  <2> DEFINE now    == FunNow(j).proto
             before == IF j \in js /\ source.funs[j].proto = "old" /\ ~source.funs[j].entry THEN "new" ELSE now
             after  == IF j \in Rewritten \cup js /\ source.funs[j].proto = "old" /\ ~source.funs[j].entry
                       THEN "new" ELSE source.funs[j].proto
  <2>4. text'.funs[j] = [FunNow(j) EXCEPT !.rewritten = j \in Rewritten \cup js, !.proto = before]  BY <1>2
  <2>5. before = after  BY <2>3
  <2> HIDE DEF now, before, after
  <2>6. text'.funs[j] = [source.funs[j] EXCEPT !.rewritten = j \in Rewritten \cup js, !.proto = after]
    <3>1. FunNow(j) = [source.funs[j] EXCEPT !.rewritten = j \in Rewritten, !.proto = now]  BY <2>2 DEF now
    <3> QED  BY <2>1, <2>4, <2>5, <3>1
  <2>7. text'.funs[j].rewritten <=> j \in Rewritten \cup js  BY <2>1, <2>6
  <2> QED  BY <2>6, <2>7 DEF after
<1>4. DOMAIN text'.funs = DOMAIN source.funs  BY <1>1, TextFuns
<1>5. Rewritten' = Rewritten \cup js
  BY <1>3, <1>4, <1>j, TextFuns DEF Rewritten
<1>6. text'.funs = [j \in DOMAIN source.funs |-> FunNow(j)']
  <2>1. ASSUME NEW j \in DOMAIN source.funs  PROVE text'.funs[j] = FunNow(j)'
    BY <1>3, <1>5 DEF FunNow
  <2> QED  BY <1>1, <1>4, <2>1
<1>7. ASSUME NEW s \in DOMAIN source.nodes
      PROVE  (IF s \in Edits(js) THEN NewForm(s) ELSE FormNow(s)) = FormNow(s)'
  <2>v. text'.stubs = text.stubs  BY <1>1
  <2>w. Wrapped(text)' = Wrapped(text)  BY <2>v DEF Wrapped
  <2>d. /\ s[1] \in DOMAIN source.funs
        /\ Defs(text, source.nodes[s].of) = Defs(source, source.nodes[s].of)
        /\ text.nodes[s].k = FormNow(s) /\ text.nodes[s].n = source.nodes[s].n
        /\ CalleeOf(text, s) = source.nodes[s].of
    BY SourceNodes, TextFuns, TextNodes DEF CalleeOf
  <2>e. s \in Edits(js) <=>
           \/ /\ source.nodes[s].k = "return" /\ s[1] \in js
              /\ IsAgg(source.funs[s[1]].ret) \/ source.funs[s[1]].ret = "void"
           \/ /\ source.nodes[s].k = "call" /\ Defs(source, source.nodes[s].of) \cap js # {}
    BY <1>j, CommittedSites
  <2>1. CASE source.nodes[s].k = "return"
    <3>1. CASE s[1] \in js /\ (IsAgg(source.funs[s[1]].ret) \/ source.funs[s[1]].ret = "void")
      <4>1. FormNow(s) = "return"  BY <2>1, <3>1 DEF FormNow
      <4>2. NewForm(s) = IF source.nodes[s].n = 0 THEN "zero" ELSE "store"  BY <2>d, <4>1 DEF NewForm
      <4>3. FormNow(s)' = IF source.nodes[s].n = 0 THEN "zero" ELSE "store"  BY <1>5, <2>1, <3>1 DEF FormNow
      <4> QED  BY <2>1, <2>e, <3>1, <4>2, <4>3
    <3>2. CASE ~(s[1] \in js /\ (IsAgg(source.funs[s[1]].ret) \/ source.funs[s[1]].ret = "void"))
      <4>1. FormNow(s)' = FormNow(s)  BY <1>5, <2>1, <3>2 DEF FormNow
      <4> QED  BY <2>1, <2>e, <3>2, <4>1
    <3> QED  BY <3>1, <3>2
  <2>2. CASE source.nodes[s].k = "call"
    <3>1. CASE Defs(source, source.nodes[s].of) \cap js # {}
      <4>1. PICK j \in js : j \in Defs(source, source.nodes[s].of)  BY <3>1
      <4>2. Defs(source, source.nodes[s].of) = {j} /\ j \in DOMAIN source.funs  BY <4>1, <1>j, OneDefinition
      <4>3. FormNow(s) = "call"  BY <2>2, <4>2 DEF FormNow
      <4>4. NewForm(s) = CallForm(text.funs[j])  BY <2>d, <4>2, <4>3 DEF NewForm
      <4>5. CallForm(text.funs[j]) = CallForm(source.funs[j])
        BY <4>2, TextFuns DEF CallForm, NeedsRewriting, TakesAgg
      <4>6. FormNow(s)' = CallForm(source.funs[j])
        <5>1. (Defs(source, source.nodes[s].of) \cap Rewritten)' # {}  BY <1>5, <4>2
        <5> QED  BY <2>2, <4>2, <5>1 DEF FormNow
      <4> QED  BY <2>2, <2>e, <3>1, <4>4, <4>5, <4>6
    <3>2. CASE Defs(source, source.nodes[s].of) \cap js = {}
      <4>1. Defs(source, source.nodes[s].of)' \cap Rewritten' = Defs(source, source.nodes[s].of) \cap Rewritten
        BY <1>5, <3>2
      <4>2. FormNow(s)' = FormNow(s)  BY <2>2, <2>w, <4>1 DEF FormNow
      <4> QED  BY <2>2, <2>e, <3>2, <4>2
    <3> QED  BY <3>1, <3>2
  <2>3. CASE source.nodes[s].k \notin {"return", "call"}
    <3>1. FormNow(s)' = FormNow(s)  BY <2>3 DEF FormNow
    <3> QED  BY <2>3, <2>e, <3>1
  <2> QED  BY <2>1, <2>2, <2>3
<1>8. text'.nodes = [s \in DOMAIN source.nodes |-> [source.nodes[s] EXCEPT !.k = FormNow(s)']]
  <2>1. ASSUME NEW s \in DOMAIN source.nodes
        PROVE  text'.nodes[s] = [source.nodes[s] EXCEPT !.k = FormNow(s)']
    <3>1. /\ text.nodes[s] = [k |-> FormNow(s), of |-> source.nodes[s].of, n |-> source.nodes[s].n]
          /\ s \in DOMAIN text.nodes
      BY TextNodes
    <3>2. text'.nodes[s] = [text.nodes[s] EXCEPT !.k = IF s \in Edits(js) THEN NewForm(s) ELSE text.nodes[s].k]
      BY <1>1, <3>1
    <3>3. source.nodes[s] = [k |-> source.nodes[s].k, of |-> source.nodes[s].of, n |-> source.nodes[s].n]
      BY SourceNodes
    <3> QED  BY <1>7, <3>1, <3>2, <3>3
  <2> QED  BY <1>1, <2>1, TextNodes
<1>9. TextNow'
  BY <1>1, <1>6, <1>8 DEF TextNow
<1> QED  BY <1>1, <1>5, <1>9

\* The calls that wait for a wrapper: all calls of external functions that
\* have none.
LEMMA ExternalNow ==
  ASSUME CFile(source), Supported(source, option), TextNow, Started
  PROVE  /\ \A s : s \in External(text) <=>
               /\ ~option /\ s \in Sites(source, {"call"})
               /\ Defs(source, CalleeOf(source, s)) = {} /\ CalleeOf(source, s) \notin Wrapped(text)
         /\ \A s \in External(text) : s \in DOMAIN source.nodes /\ CalleeOf(text, s) = CalleeOf(source, s)
         /\ Wanted(text) = ToWrap \ Wrapped(text)
<1>1. ASSUME NEW s
      PROVE  s \in External(text) <=>
               /\ ~option /\ s \in Sites(source, {"call"})
               /\ Defs(source, CalleeOf(source, s)) = {} /\ CalleeOf(source, s) \notin Wrapped(text)
  <2>1. ASSUME s \in External(text)
        PROVE  /\ ~option /\ s \in Sites(source, {"call"})
               /\ Defs(source, CalleeOf(source, s)) = {} /\ CalleeOf(source, s) \notin Wrapped(text)
    <3>1. ~option /\ s \in Sites(text, {"call"}) /\ Known(text, s) = {}  BY <2>1 DEF External, Visited
    <3>2. s \in Sites(source, {"call"})  BY <3>1, CallSites
    <3>3. s \in DOMAIN source.nodes  BY <3>2 DEF Sites
    <3>4. Known(text, s) = Known(source, s)  BY <3>3, TextFuns, TextNodes DEF Known
    <3>5. Defs(source, CalleeOf(source, s)) = {}  BY <3>1, <3>2, <3>4 DEF Supported
    <3> QED  BY <3>1, <3>2, <3>5, CallSites
  <2>2. ASSUME ~option, s \in Sites(source, {"call"}),
               Defs(source, CalleeOf(source, s)) = {}, CalleeOf(source, s) \notin Wrapped(text)
        PROVE  s \in External(text)
    <3>1. s \in DOMAIN source.nodes  BY <2>2 DEF Sites
    <3>2. s \in Sites(text, {"call"})  BY <2>2, CallSites
    <3>3. Known(text, s) = {}  BY <2>2, <3>1, TextFuns, TextNodes DEF Known
    <3>4. CalleeOf(source, s) \in ToWrap  BY <2>2 DEF ToWrap
    <3>5. Rewritten = {}  BY <2>2, <3>4 DEF Started
    <3>6. ~InHelper(text, s)  BY <3>1, <3>5, SourceNodes, TextFuns DEF InHelper
    <3> QED  BY <2>2, <3>2, <3>3, <3>6 DEF External, Visited
  <2> QED  BY <2>1, <2>2
<1>2. ASSUME NEW s \in External(text)
      PROVE  s \in DOMAIN source.nodes /\ CalleeOf(text, s) = CalleeOf(source, s)
  <2>1. s \in DOMAIN source.nodes  BY <1>1 DEF Sites
  <2> QED  BY <2>1, TextNodes
<1>3. Wanted(text) = ToWrap \ Wrapped(text)
  <2>1. ASSUME NEW n \in Wanted(text)  PROVE n \in ToWrap \ Wrapped(text)
    <3>1. PICK s \in External(text) : n = CalleeOf(text, s)  BY DEF Wanted
    <3> QED  BY <1>1, <1>2, <3>1 DEF ToWrap
  <2>2. ASSUME NEW n \in ToWrap \ Wrapped(text)  PROVE n \in Wanted(text)
    <3>1. ~option /\ Defs(source, n) = {} /\ \E s \in Sites(source, {"call"}) : n = CalleeOf(source, s)
      BY DEF ToWrap
    <3>2. PICK s \in Sites(source, {"call"}) : n = CalleeOf(source, s)  BY <3>1
    <3>3. s \in External(text)  BY <1>1, <3>1, <3>2
    <3> QED  BY <1>2, <3>2, <3>3 DEF Wanted
  <2> QED  BY <2>1, <2>2
<1> QED  BY <1>1, <1>2, <1>3

\* Wrapping an external function changes all its calls and nothing else.
LEMMA WrapsText ==
  ASSUME CFile(source), Supported(source, option), TextNow, Started, Stubs,
         NEW n \in Wanted(text), ~SelfOverlap(ExternalGroup(text, n)),
         text' = WithWrapper(n), UNCHANGED <<option, source>>
  PROVE  /\ TextNow' /\ Rewritten' = Rewritten /\ Stubs'
         /\ Wrapped(text)' = Wrapped(text) \cup {n}
<1>n. n \in ToWrap /\ n \notin Wrapped(text)  BY ExternalNow
<1>1. /\ text'.stubs = <<n>> \o text.stubs /\ text'.funs = text.funs
      /\ text'.nodes = [s \in DOMAIN text.nodes |->
           [text.nodes[s] EXCEPT !.k = IF s \in Made(ExternalGroup(text, n)) THEN "wrapped" ELSE @]]
      /\ text' = [stubs |-> text'.stubs, funs |-> text'.funs, nodes |-> text'.nodes]
  BY DEF WithWrapper, TextNow
<1>2. /\ Stubs' /\ Wrapped(text)' = Wrapped(text) \cup {n}
  <2>1. ToWrap' = ToWrap  BY DEF ToWrap
  <2>2. text.stubs \in Seq(ToWrap)  BY DEF Stubs
  <2>3. text'.stubs \in Seq(ToWrap)  BY <1>n, <1>1, <2>2
  <2>4. /\ DOMAIN text'.stubs = 1..(Len(text.stubs) + 1) /\ Len(text.stubs) \in Nat
        /\ \A a \in DOMAIN text'.stubs : text'.stubs[a] = IF a = 1 THEN n ELSE text.stubs[a - 1]
        /\ DOMAIN text.stubs = 1..Len(text.stubs)
    BY <1>n, <1>1, <2>2
  <2>5. \A a \in DOMAIN text.stubs : text.stubs[a] # n  BY <1>n DEF Wrapped
  <2>6. \A a, b \in DOMAIN text'.stubs : text'.stubs[a] = text'.stubs[b] => a = b
    <3> SUFFICES ASSUME NEW a \in DOMAIN text'.stubs, NEW b \in DOMAIN text'.stubs,
                        text'.stubs[a] = text'.stubs[b]
                 PROVE  a = b
      OBVIOUS
    <3>1. /\ a # 1 => a - 1 \in DOMAIN text.stubs
          /\ b # 1 => b - 1 \in DOMAIN text.stubs
          /\ a \in Nat /\ b \in Nat
      BY <2>4
    <3>2. CASE a = 1 \/ b = 1  BY <2>4, <2>5, <3>1, <3>2
    <3>3. CASE a # 1 /\ b # 1
      <4>1. text.stubs[a - 1] = text.stubs[b - 1]  BY <2>4, <3>3
      <4>2. a - 1 = b - 1  BY <3>1, <3>3, <4>1 DEF Stubs
      <4> QED  BY <3>1, <4>2
    <3> QED  BY <3>2, <3>3
  <2>7. ASSUME NEW m  PROVE m \in Wrapped(text)' <=> m \in Wrapped(text) \cup {n}
    <3>1. ASSUME m \in Wrapped(text)'  PROVE m \in Wrapped(text) \cup {n}
      <4>1. PICK a \in DOMAIN text'.stubs : m = text'.stubs[a]  BY <3>1 DEF Wrapped
      <4>2. a # 1 => a - 1 \in DOMAIN text.stubs  BY <2>4
      <4> QED  BY <2>4, <4>1, <4>2 DEF Wrapped
    <3>2. ASSUME m \in Wrapped(text)  PROVE m \in Wrapped(text)'
      <4>1. PICK a \in DOMAIN text.stubs : m = text.stubs[a]  BY <3>2 DEF Wrapped
      <4>2. a + 1 \in DOMAIN text'.stubs /\ text'.stubs[a + 1] = m  BY <2>4, <4>1
      <4> QED  BY <4>2 DEF Wrapped
    <3>3. n \in Wrapped(text)'
      <4>1. 1 \in DOMAIN text'.stubs /\ text'.stubs[1] = n  BY <2>4
      <4> QED  BY <4>1 DEF Wrapped
    <3> QED  BY <3>1, <3>2, <3>3
  <2>8. Wrapped(text)' = Wrapped(text) \cup {n}  BY <2>7
  <2> QED  BY <2>1, <2>3, <2>6, <2>8 DEF Stubs
<1>3. Rewritten' = Rewritten  BY <1>1 DEF Rewritten
<1>4. text'.funs = [j \in DOMAIN source.funs |-> FunNow(j)']
  <2>1. \A j \in DOMAIN source.funs : FunNow(j)' = FunNow(j)  BY <1>3 DEF FunNow
  <2> QED  BY <1>1, <2>1 DEF TextNow
<1>5. ASSUME NEW s \in DOMAIN source.nodes
      PROVE  s \in Made(ExternalGroup(text, n)) <=>
               source.nodes[s].k = "call" /\ source.nodes[s].of = n
  <2>1. s # Above
    <3>1. s[1] # 0  BY SourceNodes, SourceFuns
    <3> QED  BY <3>1 DEF Above
  <2>2. s \in External(text) /\ CalleeOf(text, s) = n <=> source.nodes[s].k = "call" /\ source.nodes[s].of = n
    <3>1. ~option /\ Defs(source, n) = {}  BY <1>n DEF ToWrap
    <3> QED  BY <1>n, <3>1, ExternalNow DEF Sites, CalleeOf
  <2>3. s \in ExternalGroup(text, n) => \A b \in ExternalGroup(text, n) : ~Around(b, s)
    BY DEF SelfOverlap, Overlap
  <2> QED  BY <2>1, <2>2, <2>3 DEF Made, ExternalGroup
<1>6. ASSUME NEW s \in DOMAIN source.nodes
      PROVE  (IF s \in Made(ExternalGroup(text, n)) THEN "wrapped" ELSE FormNow(s)) = FormNow(s)'
  <2>1. CASE source.nodes[s].k = "call" /\ source.nodes[s].of = n
    <3>1. Defs(source, n) = {}  BY <1>n DEF ToWrap
    <3>2. FormNow(s)' = "wrapped"  BY <1>2, <1>3, <2>1, <3>1 DEF FormNow
    <3> QED  BY <1>5, <2>1, <3>2
  <2>2. CASE ~(source.nodes[s].k = "call" /\ source.nodes[s].of = n)
    <3>1. FormNow(s)' = FormNow(s)  BY <1>2, <1>3, <2>2 DEF FormNow
    <3> QED  BY <1>5, <2>2, <3>1
  <2> QED  BY <2>1, <2>2
<1>7. text'.nodes = [s \in DOMAIN source.nodes |-> [source.nodes[s] EXCEPT !.k = FormNow(s)']]
  <2>1. ASSUME NEW s \in DOMAIN source.nodes
        PROVE  text'.nodes[s] = [source.nodes[s] EXCEPT !.k = FormNow(s)']
    <3>1. /\ text.nodes[s] = [k |-> FormNow(s), of |-> source.nodes[s].of, n |-> source.nodes[s].n]
          /\ s \in DOMAIN text.nodes
      BY TextNodes
    <3>2. text'.nodes[s] =
            [text.nodes[s] EXCEPT !.k = IF s \in Made(ExternalGroup(text, n)) THEN "wrapped" ELSE text.nodes[s].k]
      BY <1>1, <3>1
    <3>3. source.nodes[s] = [k |-> source.nodes[s].k, of |-> source.nodes[s].of, n |-> source.nodes[s].n]
      BY SourceNodes
    <3> QED  BY <1>6, <3>1, <3>2, <3>3
  <2> QED  BY <1>1, <2>1, TextNodes
<1>8. TextNow'  BY <1>1, <1>4, <1>7 DEF TextNow
<1> QED  BY <1>2, <1>3, <1>8

\* What makes the pass fail is in the source.
LEMMA InGroup ==
  ASSUME CFile(source), NEW j \in DOMAIN source.funs,
         NEW r \in OurGroup(source, j), NEW s \in OurGroup(source, j), Around(r, s)
  PROVE  \E n \in {CalleeOf(source, c) : c \in Sites(source, {"call"})} : Nested(n)
<1>1. /\ r \in Sites(source, {"call", "return"}) /\ s \in Sites(source, {"call", "return"})
      /\ r # HeadOf(j) /\ s # HeadOf(j) /\ r # Proto(j) /\ s # Proto(j)
  <2>1. j \in Nat /\ j # 0  BY SourceFuns
  <2>2. \A e \in OurGroup(source, j) :
          \/ e = HeadOf(j) \/ e = Proto(j)
          \/ e \in DOMAIN source.nodes /\ e[2] # <<>> /\ e \in Sites(source, {"call", "return"})
    BY GroupEdits
  <2>3. /\ ~Around(HeadOf(j), HeadOf(j)) /\ ~Around(Proto(j), Proto(j))
        /\ ~Around(HeadOf(j), Proto(j)) /\ ~Around(Proto(j), HeadOf(j))
    BY <2>1 DEF Around, Inside, HeadOf, Proto
  <2>4. ASSUME NEW e \in DOMAIN source.nodes, e[2] # <<>>
        PROVE  /\ ~Around(HeadOf(j), e) /\ ~Around(e, HeadOf(j))
               /\ ~Around(Proto(j), e) /\ ~Around(e, Proto(j))
               /\ e # HeadOf(j) /\ e # Proto(j)
    <3>1. e[1] # 0  BY SourceNodes, SourceFuns
    <3> QED  BY <2>4, <3>1, HeadsApart DEF Around, Proto
  <2> QED  BY <2>2, <2>3, <2>4
<1>2. r[1] = s[1] /\ Inside(s[2], r[2])  BY DEF Around
<1>3. s \notin Sites(source, {"return"})  BY <1>1, <1>2 DEF CFile, Sites
<1>4. s \in Sites(source, {"call"}) /\ j \in Defs(source, CalleeOf(source, s))
  BY <1>1, <1>3, GroupEdits
<1>5. source.funs[j].name = CalleeOf(source, s)  BY <1>4 DEF Defs
<1>6. CASE r \in Sites(source, {"return"}) /\ r[1] = j /\ (IsAgg(source.funs[j].ret) \/ source.funs[j].ret = "void")
  <2>1. r \in DOMAIN source.nodes /\ s \in DOMAIN source.nodes /\ source.nodes[r].k = "return"
    BY <1>6, <1>4 DEF Sites
  <2>2. source.nodes[r].n # 0  BY <1>2, <2>1 DEF CFile
  <2>3. source.funs[r[1]].ret # "void"  BY <1>1, <2>1, <2>2 DEF CFile
  <2> QED  BY <1>1, <1>4, <1>5, <1>6, <2>1, <2>3 DEF Nested
<1>7. CASE r \in Sites(source, {"call"}) /\ j \in Defs(source, CalleeOf(source, r))
  <2>1. CalleeOf(source, r) = CalleeOf(source, s)  BY <1>5, <1>7 DEF Defs
  <2>2. source.nodes[r].k = "call"  BY <1>7 DEF Sites
  <2> QED  BY <1>1, <1>4, <2>1, <2>2 DEF Nested
<1> QED  BY <1>1, <1>6, <1>7, GroupEdits

\* What an attempt rejects is something the pass does not support, whatever
\* earlier attempts have changed.
LEMMA RejectedUnsupported ==
  ASSUME CFile(source), Supported(source, option), TextNow, Started, Rejected(text)
  PROVE  Unsupported
<1>1. ASSUME NEW j \in DOMAIN text.funs, text.funs[j].variadic  PROVE Unsupported
  BY <1>1, TextFuns DEF Unsupported
<1>2. ASSUME NEW n \in Wanted(text), n \in DOMAIN Externals, Externals[n].variadic  PROVE Unsupported
  <2>1. n \in ToWrap  BY ExternalNow
  <2> QED  BY <1>2, <2>1 DEF ToWrap, Unsupported
<1>3. ASSUME NEW n \in Wanted(text), SelfOverlap(ExternalGroup(text, n))  PROVE Unsupported
  <2>1. PICK r \in ExternalGroup(text, n), s \in ExternalGroup(text, n) : Around(r, s)
    BY <1>3 DEF SelfOverlap, Overlap
  <2>2. ASSUME NEW e \in External(text)  PROVE e[1] # 0
    <3>1. e \in DOMAIN source.nodes  BY ExternalNow
    <3> QED  BY <3>1, SourceNodes, SourceFuns
  <2>3. ~Around(Above, Above)  BY DEF Around, Inside, Above
  <2>4. r \in External(text) /\ s \in External(text) /\ CalleeOf(text, r) = n /\ CalleeOf(text, s) = n
    BY <2>1, <2>2, <2>3 DEF ExternalGroup, Around, Above
  <2>5. /\ r \in Sites(source, {"call"}) /\ s \in Sites(source, {"call"})
        /\ CalleeOf(source, r) = n /\ CalleeOf(source, s) = n
    BY <2>4, ExternalNow
  <2>6. r \in Sites(source, {"call", "return"}) /\ source.nodes[r].k = "call"  BY <2>5 DEF Sites
  <2>7. Nested(n)  BY <2>1, <2>5, <2>6 DEF Nested
  <2> QED  BY <2>5, <2>7 DEF Unsupported
<1>4. ASSUME NEW j \in DOMAIN OurGroups(text), SelfOverlap(OurGroup(text, j))  PROVE Unsupported
  <2>1. j \in ToChange \ Rewritten  BY GroupsNow DEF Groups
  <2>2. OurGroup(text, j) = OurGroup(source, j)  BY <2>1, SamePlaces
  <2>3. j \in DOMAIN source.funs  BY <2>1 DEF ToChange
  <2>4. PICK r \in OurGroup(source, j), s \in OurGroup(source, j) : Around(r, s)
    BY <1>4, <2>2 DEF SelfOverlap, Overlap
  <2> QED  BY <2>3, <2>4, InGroup DEF Unsupported
<1>5. ASSUME NEW j \in DOMAIN OurGroups(text), text.funs[j].entry, TakesAgg(text.funs[j])  PROVE Unsupported
  <2>1. j \in DOMAIN source.funs  BY GroupsNow DEF Groups, ToChange
  <2> QED  BY <1>5, <2>1, TextFuns DEF Unsupported, TakesAgg
<1> QED  BY <1>1, <1>2, <1>3, <1>4, <1>5 DEF Rejected

-----------------------------------------------------------------------------
(* Progress.                                                               *)

\* There are no more wrappers and rewritten functions than there are to make.
LEMMA Sizes ==
  ASSUME CFile(source), Started, Stubs
  PROVE  /\ IsFiniteSet(ToWrap) /\ IsFiniteSet(ToChange)
         /\ Wrapped(text) \subseteq ToWrap /\ IsFiniteSet(Wrapped(text)) /\ IsFiniteSet(Rewritten)
         /\ Cardinality(Wrapped(text)) \in Nat /\ Cardinality(Rewritten) \in Nat
         /\ Cardinality(ToWrap) \in Nat /\ Cardinality(ToChange) \in Nat
         /\ Cardinality(Wrapped(text)) <= Cardinality(ToWrap)
         /\ Cardinality(Rewritten) <= Cardinality(ToChange)
         /\ Rewritten # ToChange => Cardinality(Rewritten) + 1 <= Cardinality(ToChange)
<1>1. IsFiniteSet(ToWrap)
  <2> DEFINE C == Sites(source, {"call"})
             N == {CalleeOf(source, s) : s \in C}
             f == [s \in C |-> CalleeOf(source, s)]
  <2>1. IsFiniteSet(C)
    <3>1. C \subseteq DOMAIN source.nodes /\ IsFiniteSet(DOMAIN source.nodes)  BY DEF CFile, Sites
    <3> QED  BY <3>1, FS_Subset
  <2> HIDE DEF C
  <2>2. f \in [C -> N] /\ \A n \in N : \E s \in C : f[s] = n  OBVIOUS
  <2>3. f \in Surjection(C, N)  BY <2>2 DEF Surjection
  <2>4. IsFiniteSet(N)  BY <2>1, <2>3, FS_Surjection
  <2>5. ToWrap \subseteq N  BY DEF ToWrap, C
  <2> QED  BY <2>4, <2>5, FS_Subset
<1>2. IsFiniteSet(ToChange)
  <2>1. ToChange \subseteq DOMAIN source.funs  BY DEF ToChange
  <2> QED  BY <2>1, SourceFuns, FS_Subset
<1>3. Wrapped(text) \subseteq ToWrap  BY DEF Wrapped, Stubs
<1>4. Rewritten \subseteq ToChange  BY DEF Started
<1>5. IsFiniteSet(Wrapped(text)) /\ Cardinality(Wrapped(text)) <= Cardinality(ToWrap)
  BY <1>1, <1>3, FS_Subset
<1>6. /\ IsFiniteSet(Rewritten) /\ Cardinality(Rewritten) <= Cardinality(ToChange)
      /\ Cardinality(ToChange) = Cardinality(Rewritten) => ToChange = Rewritten
  BY <1>2, <1>4, FS_Subset
<1>7. /\ Cardinality(Wrapped(text)) \in Nat /\ Cardinality(Rewritten) \in Nat
      /\ Cardinality(ToWrap) \in Nat /\ Cardinality(ToChange) \in Nat
  BY <1>1, <1>2, <1>5, <1>6, FS_CardinalityType
<1> QED  BY <1>1, <1>2, <1>3, <1>5, <1>6, <1>7

\* Prototypes overlap nothing.
LEMMA PrototypesApart ==
  ASSUME CFile(source), NEW i \in DOMAIN source.funs, NEW j \in DOMAIN source.funs, i # j,
         Compatible(Places(source, i), Places(source, j))
  PROVE  Compatible(OurGroup(source, i), OurGroup(source, j))
<1> SUFFICES ASSUME NEW a \in OurGroup(source, i), NEW b \in OurGroup(source, j), Overlap(a, b)
             PROVE  FALSE
  BY DEF Compatible
<1>n. i \in Nat /\ j \in Nat /\ i # 0 /\ j # 0  BY SourceFuns
<1>1. /\ a \in Places(source, i) \/ a = Proto(i)
      /\ b \in Places(source, j) \/ b = Proto(j)
  BY DEF OurGroup
<1>2. /\ a # Proto(i) => a[1] # 0
      /\ b # Proto(j) => b[1] # 0
  BY <1>n, GroupEdits DEF HeadOf
<1>3. CASE a = Proto(i) /\ b = Proto(j)  BY <1>n, <1>3 DEF Overlap, Around, Inside, Proto
<1>4. CASE a = Proto(i) /\ b # Proto(j)  BY <1>2, <1>4 DEF Overlap, Around, Proto
<1>5. CASE a # Proto(i) /\ b = Proto(j)  BY <1>2, <1>5 DEF Overlap, Around, Proto
<1>6. CASE a # Proto(i) /\ b # Proto(j)  BY <1>1, <1>6 DEF Compatible
<1> QED  BY <1>3, <1>4, <1>5, <1>6

\* What is committed: the first group, and at the start every unhindered one.
LEMMA CommittedGroups ==
  ASSUME CFile(source), Supported(source, option), TextNow, Started, ~Rejected(text),
         NEW js \in SUBSET Groups, Committed(OurGroups(text), js)
  PROVE  /\ UNION {OurGroups(text)[j] : j \in js} = Edits(js)
         /\ Made(Edits(js)) = Edits(js)
         /\ Groups # {} => js # {}
         /\ \A j \in Groups : Unhindered(source, j) => j \in js
<1>1. /\ Groups = ToChange \ Rewritten /\ Groups \subseteq DOMAIN source.funs
      /\ \A j \in Groups : OurGroups(text)[j] = OurGroup(source, j)
  BY GroupsNow DEF ToChange
<1>2. \A j \in Groups : ~SelfOverlap(OurGroup(source, j))
  <2>1. \A j \in Groups : ~SelfOverlap(OurGroup(text, j))  BY DEF Rejected, Groups
  <2> QED  BY <1>1, <2>1, SamePlaces
<1>3. \A j \in Groups :
        j \in js <=> \A i \in js : Leads(OurGroup(source, i), OurGroup(source, j)) =>
                                    Compatible(OurGroup(source, i), OurGroup(source, j))
  BY <1>1 DEF Committed, Groups
<1>4. UNION {OurGroups(text)[j] : j \in js} = Edits(js)  BY <1>1 DEF Edits
<1>5. Made(Edits(js)) = Edits(js)
  <2>1. js \in SUBSET DOMAIN source.funs  BY <1>1
  <2> QED  BY <1>2, <1>3, <2>1, NothingLost
<1>6. ASSUME NEW j \in Groups  PROVE Compatible(OurGroup(source, j), OurGroup(source, j))
  BY <1>2 DEF Compatible, SelfOverlap
<1>7. ASSUME Groups # {}  PROVE js # {}
  <2>1. PICK j \in Groups : \A i \in Groups \ {j} : ~Leads(OurGroup(source, i), OurGroup(source, j))
    BY <1>1, <1>7, FirstGroup
  <2>2. j \in js  BY <1>3, <1>6, <2>1
  <2> QED  BY <2>2
<1>8. ASSUME NEW j \in Groups, Unhindered(source, j)  PROVE j \in js
  <2>1. ASSUME NEW i \in js, i # j  PROVE Compatible(OurGroup(source, i), OurGroup(source, j))
    <3>1. i \in DOMAIN source.funs /\ j \in DOMAIN source.funs /\ ToRewrite(source.funs[i])
      BY <1>1 DEF ToChange
    <3> QED  BY <1>8, <2>1, <3>1, PrototypesApart DEF Unhindered
  <2> QED  BY <1>3, <1>6, <2>1
<1> QED  BY <1>4, <1>5, <1>7, <1>8

-----------------------------------------------------------------------------
(* The invariant.                                                          *)

\* A step that leaves the source alone leaves what is said of it alone.
LEMMA SourceKept ==
  ASSUME CFile(source), Supported(source, option), UNCHANGED <<option, source>>
  PROVE  /\ CFile(source)' /\ Supported(source, option)'
         /\ ToWrap' = ToWrap /\ ToChange' = ToChange /\ Unsupported' = Unsupported
         /\ \A j \in DOMAIN source.funs : Unhindered(source, j)' = Unhindered(source, j)
<1>1. CFile(source)' /\ Supported(source, option)'
  OBVIOUS
<1>2. ToWrap' = ToWrap /\ ToChange' = ToChange  BY DEF ToWrap, ToChange
<1>3. Unsupported' = Unsupported  BY DEF Unsupported, Nested
<1>4. \A j \in DOMAIN source.funs : Unhindered(source, j)' = Unhindered(source, j)
  OBVIOUS
<1> QED  BY <1>1, <1>2, <1>3, <1>4

\* The invariant holds of a file as it reaches the pass.
LEMMA InitIInv ==
  ASSUME Init, Supported(source, option)
  PROVE  IInv
<1>1. /\ CFile(source) /\ budget \in Nat /\ option \in BOOLEAN
      /\ text = source /\ attempt = 0 /\ status = "running"
  BY StartsAssumption DEF Init
<1>2. Rewritten = {}  BY <1>1, SourceFuns DEF Rewritten
<1>3. text.stubs = <<>>  BY <1>1 DEF CFile
<1>4. TextNow
  <2>1. ASSUME NEW j \in DOMAIN source.funs  PROVE source.funs[j] = FunNow(j)
    <3>1. (j \in Rewritten) = FALSE  BY <1>2
    <3>2. FunNow(j) = [source.funs[j] EXCEPT !.rewritten = FALSE, !.proto = source.funs[j].proto]
      BY <3>1 DEF FunNow
    <3>3. /\ source.funs[j].rewritten = FALSE
          /\ source.funs[j] =
               [name |-> source.funs[j].name, params |-> source.funs[j].params,
                ret |-> source.funs[j].ret, entry |-> source.funs[j].entry,
                variadic |-> source.funs[j].variadic, proto |-> source.funs[j].proto,
                rewritten |-> source.funs[j].rewritten]
      BY <1>1, FunRecord
    <3> QED  BY <3>2, <3>3
  <2>2. source.funs = [j \in DOMAIN source.funs |-> FunNow(j)]
    <3>1. source.funs = [j \in DOMAIN source.funs |-> source.funs[j]]
      <4>1. source.funs \in Seq({source.funs[j] : j \in DOMAIN source.funs})  BY <1>1 DEF CFile
      <4> QED  BY <4>1
    <3> QED  BY <2>1, <3>1
  <2>3. ASSUME NEW s \in DOMAIN source.nodes
        PROVE  source.nodes[s] = [source.nodes[s] EXCEPT !.k = FormNow(s)]
    <3>1. FormNow(s) = source.nodes[s].k  BY <1>2, <1>3 DEF FormNow, Wrapped
    <3>2. source.nodes[s] = [k |-> source.nodes[s].k, of |-> source.nodes[s].of, n |-> source.nodes[s].n]
      BY <1>1, SourceNodes
    <3> QED  BY <3>1, <3>2
  <2>4. source.nodes = [s \in DOMAIN source.nodes |-> [source.nodes[s] EXCEPT !.k = FormNow(s)]]
    <3>1. source.nodes = [s \in DOMAIN source.nodes |-> source.nodes[s]]  BY <1>1 DEF CFile
    <3> QED  BY <2>3, <3>1
  <2>5. source = [stubs |-> source.stubs, funs |-> source.funs, nodes |-> source.nodes]
    BY <1>1 DEF CFile
  <2> QED  BY <1>1, <2>2, <2>4, <2>5 DEF TextNow
<1>5. Started /\ Stubs  BY <1>2, <1>3 DEF Started, Stubs
<1>6. Wrapped(text) = {}  BY <1>3 DEF Wrapped
<1>7. Counted /\ AttemptsBounded
  <2>1. Cardinality({}) = 0  BY FS_EmptySet
  <2>2. Cardinality(ToWrap) \in Nat /\ Cardinality(ToChange) \in Nat  BY <1>1, <1>5, Sizes
  <2> QED  BY <1>1, <1>2, <1>6, <2>1, <2>2 DEF Counted, AttemptsBounded
<1>8. TypeOK /\ ErrorsJustified  BY <1>1 DEF TypeOK, ErrorsJustified
<1> QED  BY <1>1, <1>4, <1>5, <1>7, <1>8 DEF IInv

\* While attempts go on their number stays below the bound.
LEMMA CountedBounded ==
  ASSUME CFile(source), Started, Stubs, Counted, status # "done", TypeOK
  PROVE  /\ AttemptsBounded
         /\ attempt + 1 <= Cardinality(ToWrap) + (IF ToChange = {} THEN 1 ELSE Cardinality(ToChange))
<1>1. /\ attempt <= Cardinality(Wrapped(text)) + Cardinality(Rewritten)
      /\ ToChange # {} => Rewritten # ToChange /\ attempt \in Int
  BY DEF Counted, TypeOK
<1>2. ToChange = {} => Rewritten = {} /\ Cardinality(Rewritten) = 0  BY FS_EmptySet DEF Started
<1>3. attempt \in Int  BY DEF TypeOK
<1> QED  BY <1>1, <1>2, <1>3, Sizes DEF AttemptsBounded

\* An attempt that wraps external calls keeps the invariant.
LEMMA WrapKeeps ==
  ASSUME IInv, WrapExternalCalls
  PROVE  IInv'
<1>1. PICK n \in Wanted(text) : text' = WithWrapper(n)  BY DEF WrapExternalCalls
<1>2. /\ CFile(source) /\ Supported(source, option) /\ TextNow /\ Started /\ Stubs /\ Counted /\ TypeOK
      /\ ~Rejected(text) /\ UNCHANGED <<budget, option, source>>
      /\ status = "running" /\ attempt < budget /\ attempt' = attempt + 1 /\ status' = "running"
  BY DEF IInv, WrapExternalCalls, Attempting, Repeat
<1>3. ~SelfOverlap(ExternalGroup(text, n))  BY <1>2 DEF Rejected
<1>4. TextNow' /\ Rewritten' = Rewritten /\ Stubs' /\ Wrapped(text)' = Wrapped(text) \cup {n}
  BY <1>1, <1>2, <1>3, WrapsText
<1>5. /\ CFile(source)' /\ Supported(source, option)'
      /\ ToWrap' = ToWrap /\ ToChange' = ToChange
      /\ \A j \in DOMAIN source.funs : Unhindered(source, j)' = Unhindered(source, j)
  BY <1>2, SourceKept
<1>6. n \in ToWrap /\ n \notin Wrapped(text)  BY <1>2, ExternalNow
<1>7. Started'
  <2>1. Rewritten = {}  BY <1>2, <1>6 DEF Started
  <2> QED  BY <1>4, <2>1 DEF Started
<1>8. Counted' /\ TypeOK'
  <2>1. Cardinality(Wrapped(text)') = Cardinality(Wrapped(text)) + 1
    BY <1>2, <1>4, <1>6, Sizes, FS_AddElement
  <2>2. Cardinality(Wrapped(text))' = Cardinality(Wrapped(text)') /\ Cardinality(Rewritten)' = Cardinality(Rewritten)
    BY <1>4
  <2>3. attempt \in Nat /\ budget \in Nat  BY <1>2 DEF TypeOK
  <2>4. attempt' <= Cardinality(Wrapped(text))' + Cardinality(Rewritten)'
    BY <1>2, <2>1, <2>2, <2>3, Sizes DEF Counted
  <2>5. ToChange' # {} => Rewritten' # ToChange'  BY <1>2, <1>4, <1>5 DEF Counted
  <2>6. Counted'  BY <1>2, <2>4, <2>5 DEF Counted
  <2>7. TypeOK'  BY <1>2, <2>3 DEF TypeOK
  <2> QED  BY <2>6, <2>7
<1>9. AttemptsBounded'
  <2>1. (status # "done")'  BY <1>2
  <2> QED  BY <1>4, <1>5, <1>7, <1>8, <2>1, CountedBounded, PTL
<1>10. ErrorsJustified'  BY <1>2 DEF ErrorsJustified
<1> QED  BY <1>4, <1>5, <1>7, <1>8, <1>9, <1>10 DEF IInv

\* An attempt that rewrites functions keeps the invariant.
LEMMA RewriteKeeps ==
  ASSUME IInv, RewriteFunctions
  PROVE  IInv'
<1>1. PICK js \in SUBSET Groups : Rewriting(js) /\ IF js = Groups THEN Continue ELSE Repeat
  BY DEF RewriteFunctions
<1>2. /\ CFile(source) /\ Supported(source, option) /\ TextNow /\ Started /\ Stubs /\ Counted /\ TypeOK
      /\ ~Rejected(text) /\ Wanted(text) = {} /\ UNCHANGED <<budget, option, source>>
      /\ status = "running" /\ attempt < budget /\ attempt' = attempt + 1
      /\ status' = IF js = Groups THEN "done" ELSE "running"
      /\ Committed(OurGroups(text), js)
      /\ text' = WithOurs(UNION {OurGroups(text)[j] : j \in js})
  BY <1>1 DEF IInv, Rewriting, Attempting, Repeat, Continue
<1>3. /\ text' = WithOurs(Edits(js)) /\ Made(Edits(js)) = Edits(js)
      /\ Groups # {} => js # {}
      /\ \A j \in Groups : Unhindered(source, j) => j \in js
  BY <1>2, CommittedGroups
<1>g. Groups = ToChange \ Rewritten /\ Rewritten \subseteq ToChange
  BY <1>2, GroupsNow DEF Started
<1>4. TextNow' /\ Rewritten' = Rewritten \cup js /\ text'.stubs = text.stubs
  BY <1>2, <1>3, <1>g, RewritesText
<1>5. /\ CFile(source)' /\ Supported(source, option)'
      /\ ToWrap' = ToWrap /\ ToChange' = ToChange
      /\ \A j \in DOMAIN source.funs : Unhindered(source, j)' = Unhindered(source, j)
  BY <1>2, SourceKept
<1>6. Wrapped(text)' = Wrapped(text) /\ Stubs'  BY <1>2, <1>4, <1>5 DEF Wrapped, Stubs
<1>7. ToWrap \subseteq Wrapped(text)  BY <1>2, ExternalNow
<1>8. Started'
  <2>1. Rewritten' \subseteq ToChange'  BY <1>4, <1>5, <1>g
  <2>2. ASSUME NEW j \in js, source.funs[j].entry  PROVE ~TakesAgg(source.funs[j])
    <3>1. j \in DOMAIN source.funs  BY <1>g DEF ToChange
    <3>2. ~(text.funs[j].entry /\ TakesAgg(text.funs[j]))  BY <1>2 DEF Rejected, Groups
    <3> QED  BY <1>2, <2>2, <3>1, <3>2, TextFuns DEF TakesAgg
  <2>3. \A j \in Rewritten' : source'.funs[j].entry => ~TakesAgg(source'.funs[j])
    BY <1>2, <1>4, <2>2 DEF Started
  <2>4. ASSUME Rewritten' # {}, NEW j \in ToChange, Unhindered(source, j)  PROVE j \in Rewritten'
    <3>1. CASE j \in Groups  BY <1>3, <1>4, <2>4, <3>1
    <3>2. CASE j \notin Groups  BY <1>4, <1>g, <3>2
    <3> QED  BY <3>1, <3>2
  <2>5. ToChange \subseteq DOMAIN source.funs  BY DEF ToChange
  <2>6. \A j \in ToChange' : Rewritten' # {} /\ Unhindered(source, j)' => j \in Rewritten'
    BY <1>5, <2>4, <2>5
  <2>7. (ToWrap \subseteq Wrapped(text))'  BY <1>5, <1>6, <1>7
  <2> QED  BY <2>1, <2>3, <2>6, <2>7 DEF Started
<1>9. attempt + 1 <= Cardinality(ToWrap) + (IF ToChange = {} THEN 1 ELSE Cardinality(ToChange))
  BY <1>2, CountedBounded
<1>10. attempt \in Nat /\ budget \in Nat  BY <1>2 DEF TypeOK
<1>11. CASE js = Groups
  <2>1. Rewritten' = ToChange' /\ ToWrap' \subseteq Wrapped(text)'  BY <1>4, <1>5, <1>6, <1>7, <1>g, <1>11
  <2>2. status' = "done"  BY <1>2, <1>11
  <2>3. Counted'  BY <2>1, <2>2 DEF Counted
  <2>4. AttemptsBounded'
    <3>1. Cardinality(ToWrap)' = Cardinality(ToWrap) /\ Cardinality(ToChange)' = Cardinality(ToChange)  BY <1>5
    <3> QED  BY <1>2, <1>5, <1>9, <3>1 DEF AttemptsBounded
  <2>5. TypeOK' /\ ErrorsJustified'  BY <1>2, <1>10, <2>2 DEF TypeOK, ErrorsJustified
  <2> QED  BY <1>4, <1>5, <1>6, <1>8, <2>3, <2>4, <2>5 DEF IInv
<1>12. CASE js # Groups
  <2>1. status' = "running"  BY <1>2, <1>12
  <2>2. TypeOK' /\ ErrorsJustified'  BY <1>2, <1>10, <2>1 DEF TypeOK, ErrorsJustified
  <2>3. Cardinality(Rewritten) + 1 <= Cardinality(Rewritten')
    <3>1. PICK j \in js : j \notin Rewritten  BY <1>3, <1>12, <1>g
    <3>2. IsFiniteSet(ToChange) /\ IsFiniteSet(Rewritten) /\ Cardinality(Rewritten) \in Nat  BY <1>2, Sizes
    <3>3. IsFiniteSet(Rewritten')
      <4>1. Rewritten' \subseteq ToChange  BY <1>4, <1>g
      <4> QED  BY <3>2, <4>1, FS_Subset
    <3>4. Cardinality(Rewritten \cup {j}) = Cardinality(Rewritten) + 1  BY <3>1, <3>2, FS_AddElement
    <3>5. Cardinality(Rewritten \cup {j}) <= Cardinality(Rewritten')
      <4>1. (Rewritten \cup {j}) \in SUBSET Rewritten'  BY <1>4, <3>1
      <4> QED  BY <3>3, <4>1, FS_Subset
    <3>6. Cardinality(Rewritten') \in Nat  BY <3>3, FS_CardinalityType
    <3> QED  BY <3>2, <3>4, <3>5, <3>6
  <2>4. Counted'
    <3>1. attempt <= Cardinality(Wrapped(text)) + Cardinality(Rewritten)  BY <1>2 DEF Counted
    <3>2. Cardinality(Wrapped(text))' = Cardinality(Wrapped(text)) /\ Cardinality(Rewritten)' = Cardinality(Rewritten')
      BY <1>6
    <3>3. IsFiniteSet(Rewritten') /\ Cardinality(Rewritten') \in Nat
      <4>1. Rewritten' \subseteq ToChange /\ IsFiniteSet(ToChange)  BY <1>2, <1>4, <1>g, Sizes
      <4> QED  BY <4>1, FS_Subset, FS_CardinalityType
    <3>4. attempt' <= Cardinality(Wrapped(text))' + Cardinality(Rewritten)'
      BY <1>2, <1>10, <2>3, <3>1, <3>2, <3>3, Sizes
    <3>5. Rewritten' # ToChange'  BY <1>4, <1>5, <1>g, <1>12
    <3> QED  BY <2>1, <3>4, <3>5 DEF Counted
  <2>5. AttemptsBounded'
    <3>1. (status # "done")'  BY <2>1
    <3> QED  BY <1>5, <1>6, <1>8, <2>2, <2>4, <3>1, CountedBounded, PTL
  <2> QED  BY <1>4, <1>5, <1>6, <1>8, <2>2, <2>4, <2>5 DEF IInv
<1> QED  BY <1>11, <1>12

\* A step that leaves the text alone.
LEMMA EndKeeps ==
  ASSUME IInv, UNCHANGED <<budget, option, source, text, attempt>>,
         \/ status' = status
         \/ /\ status # "done" /\ status' \in {"running", "error", "spent"}
            /\ status' = "error" => Unsupported
  PROVE  IInv'
<1>1. /\ CFile(source) /\ Supported(source, option) /\ TextNow /\ Started /\ Stubs /\ Counted /\ TypeOK
      /\ AttemptsBounded /\ ErrorsJustified
  BY DEF IInv
<1>2. /\ CFile(source)' /\ Supported(source, option)' /\ ToWrap' = ToWrap /\ ToChange' = ToChange
      /\ Unsupported' = Unsupported
      /\ \A j \in DOMAIN source.funs : Unhindered(source, j)' = Unhindered(source, j)
  BY <1>1, SourceKept
<1>3. Rewritten' = Rewritten /\ Wrapped(text)' = Wrapped(text)  BY DEF Rewritten, Wrapped
<1>4. TextNow'
  <2>1. /\ \A j \in DOMAIN source.funs : FunNow(j)' = FunNow(j)
        /\ \A s \in DOMAIN source.nodes : FormNow(s)' = FormNow(s)
    BY <1>3 DEF FunNow, FormNow
  <2> QED  BY <1>1, <2>1 DEF TextNow
<1>5. Started' /\ Stubs'
  <2>1. ToChange \subseteq DOMAIN source.funs  BY DEF ToChange
  <2> QED  BY <1>1, <1>2, <1>3, <2>1 DEF Started, Stubs
<1>6. Counted'
  <2>1. Cardinality(Wrapped(text))' = Cardinality(Wrapped(text)) /\ Cardinality(Rewritten)' = Cardinality(Rewritten)
    BY <1>3
  <2>2. CASE status' = status  BY <1>1, <1>2, <1>3, <2>1, <2>2 DEF Counted
  <2>3. CASE status # "done" /\ status' \in {"running", "error", "spent"}
    <3>1. status \in {"running", "error", "spent"}  BY <1>1, <2>3 DEF TypeOK
    <3> QED  BY <1>1, <1>2, <1>3, <2>1, <2>3, <3>1 DEF Counted
  <2> QED  BY <2>2, <2>3
<1>7. TypeOK' /\ AttemptsBounded' /\ ErrorsJustified'
  <2>1. Cardinality(ToWrap)' = Cardinality(ToWrap) /\ Cardinality(ToChange)' = Cardinality(ToChange)  BY <1>2
  <2> QED  BY <1>1, <1>2, <2>1 DEF TypeOK, AttemptsBounded, ErrorsJustified
<1> QED  BY <1>2, <1>4, <1>5, <1>6, <1>7 DEF IInv

\* Every step keeps the invariant.
LEMMA NextKeeps ==
  ASSUME IInv, [Next]_vars
  PROVE  IInv'
<1>1. CASE WrapExternalCalls  BY <1>1, WrapKeeps
<1>2. CASE RewriteFunctions  BY <1>2, RewriteKeeps
<1>3. CASE Fail
  <2>1. Unsupported
    <3>1. Compiled(text)  BY TextCompiles DEF IInv
    <3> QED  BY <1>3, <3>1, RejectedUnsupported DEF IInv, Fail
  <2> QED  BY <1>3, <2>1, EndKeeps DEF Fail
<1>4. CASE RetriesExhausted  BY <1>4, EndKeeps DEF RetriesExhausted
<1>5. CASE UNCHANGED vars
  <2>1. UNCHANGED <<budget, option, source, text, attempt, status>>  BY <1>5 DEF vars
  <2> QED  BY <2>1, EndKeeps
<1> QED  BY <1>1, <1>2, <1>3, <1>4, <1>5 DEF Next

\* A supported file stays described by IInv through every attempt.
THEOREM TextTracksSource == Spec /\ Supported(source, option) => []IInv
<1>1. Init /\ Supported(source, option) => IInv  BY InitIInv
<1>2. IInv /\ [Next]_vars => IInv'  BY NextKeeps
<1> QED  BY <1>1, <1>2, PTL DEF Spec

-----------------------------------------------------------------------------
(* The properties.                                                         *)

\* Every staged file compiles: a definition, its prototype, its calls and its
\* returns change together, whichever groups an attempt drops.
THEOREM StagedFilesCompile == Spec /\ Supported(source, option) => []StagedCompiles
<1>1. IInv => StagedCompiles  BY TextCompiles DEF IInv, StagedCompiles
<1> QED  BY <1>1, TextTracksSource, PTL

\* An external function gets one wrapper, in one attempt for all its calls.
THEOREM OneWrapperEach == Spec /\ Supported(source, option) => []OneWrapper
<1>1. ASSUME IInv  PROVE OneWrapper
  <2>1. ASSUME NEW s \in Sites(text, {"call"})  PROVE CalleeOf(text, s) \notin Wrapped(text)
    <3>1. /\ s \in Sites(source, {"call"})
          /\ Defs(source, CalleeOf(source, s)) = {} => CalleeOf(source, s) \notin Wrapped(text)
      BY <1>1, CallSites DEF IInv
    <3>2. CalleeOf(text, s) = CalleeOf(source, s)
      <4>1. s \in DOMAIN source.nodes  BY <3>1 DEF Sites
      <4> QED  BY <1>1, <4>1, TextNodes DEF IInv
    <3>3. \A n \in Wrapped(text) : Defs(source, n) = {}
      <4>1. Wrapped(text) \subseteq ToWrap  BY <1>1, Sizes DEF IInv
      <4> QED  BY <4>1 DEF ToWrap
    <3> QED  BY <3>1, <3>2, <3>3
  <2> QED  BY <1>1, <2>1 DEF OneWrapper, IInv, Stubs
<1> QED  BY <1>1, TextTracksSource, PTL

\* When the pass reports Continue nothing is left to do.
THEOREM ContinueMeansFinished == Spec /\ Supported(source, option) => []Finished
<1>1. ASSUME IInv  PROVE Finished
  <2> SUFFICES ASSUME status = "done"
               PROVE  /\ \A j \in DOMAIN text.funs : ~ToRewrite(text.funs[j])
                      /\ \A s \in Sites(text, {"call"}) :
                           /\ Defs(text, CalleeOf(text, s)) = {} => option
                           /\ \A j \in Defs(text, CalleeOf(text, s)) : ~text.funs[j].rewritten
    BY DEF Finished
  <2>1. /\ CFile(source) /\ Supported(source, option) /\ TextNow /\ Started
        /\ Rewritten = ToChange /\ ToWrap \subseteq Wrapped(text)
    BY <1>1 DEF IInv, Counted
  <2>2. Groups = {}  BY <2>1, GroupsNow
  <2>3. \A j \in DOMAIN text.funs : ~ToRewrite(text.funs[j])  BY <2>2 DEF Groups, OurGroups
  <2>4. ASSUME NEW s \in Sites(text, {"call"})
        PROVE  /\ Defs(text, CalleeOf(text, s)) = {} => option
               /\ \A j \in Defs(text, CalleeOf(text, s)) : ~text.funs[j].rewritten
    <3>1. /\ s \in Sites(source, {"call"})
          /\ Defs(source, CalleeOf(source, s)) \cap Rewritten = {}
          /\ Defs(source, CalleeOf(source, s)) = {} => CalleeOf(source, s) \notin Wrapped(text)
      BY <2>1, CallSites
    <3>2. s \in DOMAIN source.nodes  BY <3>1 DEF Sites
    <3>3. Defs(text, CalleeOf(text, s)) = Defs(source, CalleeOf(source, s))  BY <2>1, <3>2, TextNodes, TextFuns
    <3>4. Defs(source, CalleeOf(source, s)) = {} => option  BY <2>1, <3>1 DEF ToWrap
    <3>5. ASSUME NEW j \in Defs(source, CalleeOf(source, s))  PROVE ~text.funs[j].rewritten
      <4>1. j \in DOMAIN source.funs /\ j \notin Rewritten  BY <3>1 DEF Defs
      <4> QED  BY <2>1, <4>1, TextFuns
    <3> QED  BY <3>3, <3>4, <3>5
  <2> QED  BY <2>3, <2>4
<1> QED  BY <1>1, TextTracksSource, PTL

\* The pass needs no more attempts than there are external functions to wrap
\* and functions to rewrite: no attempt is wasted.
THEOREM NoAttemptWasted == Spec /\ Supported(source, option) => []AttemptsBounded
<1>1. IInv => AttemptsBounded  BY DEF IInv
<1> QED  BY <1>1, TextTracksSource, PTL

\* The pass fails on nothing but what it does not support.
THEOREM FailsOnUnsupported == Spec /\ Supported(source, option) => []ErrorsJustified
<1>1. IInv => ErrorsJustified  BY DEF IInv
<1> QED  BY <1>1, TextTracksSource, PTL

-----------------------------------------------------------------------------
(* Running the text: sites and forms.                                      *)

\* A text has the sites of the source, and its forms are told apart as there.
LEMMA TextSites ==
  ASSUME CFile(source), TextNow
  PROVE  /\ DOMAIN text.nodes = DOMAIN source.nodes
         /\ \A j : SitesOf(text, j) = SitesOf(source, j)
         /\ \A n : Defs(text, n) = Defs(source, n) /\ TheFun(text, n) = TheFun(source, n)
<1>1. DOMAIN text.nodes = DOMAIN source.nodes  BY TextNodes
<1>2. \A n : Defs(text, n) = Defs(source, n)  BY TextFuns
<1> QED  BY <1>1, <1>2 DEF SitesOf, TheFun

\* What a node of the source has become.
LEMMA TextForms ==
  ASSUME CFile(source), TextNow, NEW s \in DOMAIN source.nodes
  PROVE  /\ source.nodes[s].k \in Leaves \cup {"body"} => text.nodes[s].k = source.nodes[s].k
         /\ source.nodes[s].k = "call" => text.nodes[s].k \in CallKinds
         /\ source.nodes[s].k = "return" => text.nodes[s].k \in {"return", "zero", "store"}
         /\ source.nodes[s].k \in Leaves \cup {"body", "call", "return"}
         /\ text.nodes[s].n = source.nodes[s].n /\ text.nodes[s].of = source.nodes[s].of
<1>1. text.nodes[s] = [k |-> FormNow(s), of |-> source.nodes[s].of, n |-> source.nodes[s].n]
  BY TextNodes
<1>2. source.nodes[s].k \in Leaves \cup {"body", "call", "return"}  BY SourceNodes DEF Leaves
<1>3. CASE source.nodes[s].k \in Leaves \cup {"body"}
  <2>1. FormNow(s) = source.nodes[s].k  BY <1>3 DEF FormNow, Leaves
  <2> QED  BY <1>1, <1>3, <2>1 DEF Leaves
<1>4. CASE source.nodes[s].k = "call"
  <2>1. FormNow(s) \in CallKinds  BY <1>4 DEF FormNow, CallForm, CallKinds
  <2> QED  BY <1>1, <1>4, <2>1 DEF Leaves
<1>5. CASE source.nodes[s].k = "return"
  <2>1. FormNow(s) \in {"return", "zero", "store"}  BY <1>5 DEF FormNow
  <2> QED  BY <1>1, <1>5, <2>1 DEF Leaves
<1> QED  BY <1>2, <1>3, <1>4, <1>5

\* What is left of a call of a function of the file: it goes through globals
\* exactly if the function takes its arguments from them.
LEMMA FileCalls ==
  ASSUME CFile(source), TextNow, NEW s \in Sites(source, {"call"}),
         Defs(source, CalleeOf(source, s)) # {}
  PROVE  /\ TheFun(source, CalleeOf(source, s)) \in DOMAIN source.funs
         /\ source.funs[TheFun(source, CalleeOf(source, s))].name = CalleeOf(source, s)
         /\ text.nodes[s].k # "wrapped"
         /\ Hoisted(text.funs[TheFun(source, CalleeOf(source, s))]) \subseteq Stores(text, s)
         /\ text.nodes[s].k = "hoisted" => Stores(text, s) = Aggregates(source, CalleeOf(source, s))
<1> DEFINE n == CalleeOf(source, s)
           j == TheFun(source, n)
<1>1. s \in DOMAIN source.nodes /\ source.nodes[s].k = "call" /\ n = source.nodes[s].of
  BY DEF Sites, CalleeOf
<1>2. j \in Defs(source, n)  BY DEF TheFun
<1>3. j \in DOMAIN source.funs /\ source.funs[j].name = n /\ Defs(source, n) = {j}
  BY <1>2, OneDefinition DEF Defs
<1>4. CFunction(source.funs[j])  BY <1>3 DEF CFile
<1>5. n \notin DOMAIN Externals  BY <1>3, <1>4 DEF CFunction
<1>6. CalleeOf(text, s) = n /\ TheFun(text, n) = j /\ text.nodes[s].k = FormNow(s)
  BY <1>1, TextNodes, TextSites
<1>7. /\ text.funs[j].rewritten = (j \in Rewritten) /\ text.funs[j].params = source.funs[j].params
  BY <1>3, TextFuns
<1>8. FormNow(s) = IF j \in Rewritten THEN CallForm(source.funs[j]) ELSE "call"
  <2>1. (CHOOSE i \in Defs(source, n) : TRUE) = j  BY <1>3
  <2>2. Defs(source, source.nodes[s].of) = {j} BY <1>1, <1>3
  <2> HIDE DEF n, j
  <2>3. CASE j \in Rewritten
    <3>1. FormNow(s) = CallForm(source.funs[CHOOSE i \in Defs(source, source.nodes[s].of) : TRUE])
      BY <1>1, <2>2, <2>3 DEF FormNow
    <3> QED  BY <1>1, <2>1, <2>3, <3>1
  <2>4. CASE j \notin Rewritten  BY <1>1, <2>2, <2>4 DEF FormNow
  <2> QED  BY <2>3, <2>4
<1>9. text.nodes[s].k # "wrapped"  BY <1>6, <1>8 DEF CallForm
<1>10. ASSUME text.nodes[s].k = "hoisted"
       PROVE  Stores(text, s) = Hoisted(text.funs[j]) /\ Stores(text, s) = Aggregates(source, n)
  <2>1. Stores(text, s) = Hoisted(text.funs[j])  BY <1>6, <1>10 DEF Stores
  <2>2. j \in Rewritten  BY <1>6, <1>8, <1>10
  <2>3. Aggregates(source, n) = {i \in DOMAIN source.funs[j].params : IsAgg(source.funs[j].params[i])}
    BY <1>5 DEF Aggregates
  <2> QED  BY <2>1, <2>2, <2>3, <1>7 DEF Hoisted
<1>11. CASE Hoisted(text.funs[j]) = {}
  BY <1>3, <1>9, <1>10, <1>11
<1>12. CASE Hoisted(text.funs[j]) # {}
  <2>1. j \in Rewritten /\ NeedsRewriting(source.funs[j])
    BY <1>7, <1>12 DEF Hoisted, NeedsRewriting, TakesAgg
  <2>2. text.nodes[s].k = "hoisted"  BY <1>6, <1>8, <2>1 DEF CallForm
  <2> QED  BY <1>3, <1>9, <1>10, <2>2
<1> QED  BY <1>11, <1>12

\* What is stored belongs to a call of the source, and is all its aggregates.
LEMMA StoresOf ==
  ASSUME CFile(source), TextNow, NEW s \in DOMAIN source.nodes, Stores(text, s) # {}
  PROVE  /\ s \in Sites(source, {"call"}) /\ text.nodes[s].k \in {"hoisted", "wrapped"}
         /\ Stores(text, s) = Aggregates(source, CalleeOf(source, s))
<1>1. text.nodes[s].k \in {"hoisted", "wrapped"}  BY DEF Stores
<1>2. source.nodes[s].k = "call"  BY <1>1, TextForms DEF Leaves
<1>3. s \in Sites(source, {"call"}) /\ CalleeOf(text, s) = CalleeOf(source, s)
  BY <1>2, TextNodes DEF Sites
<1>4. CASE text.nodes[s].k = "hoisted"
  <2>1. Defs(source, source.nodes[s].of) # {}
    <3>1. FormNow(s) = "hoisted"  BY <1>4, TextNodes
    <3> QED  BY <1>2, <3>1 DEF FormNow
  <2> QED  BY <1>1, <1>3, <1>4, <2>1, FileCalls DEF CalleeOf
<1>5. CASE text.nodes[s].k = "wrapped"
  BY <1>1, <1>3, <1>5 DEF Stores, Aggregates
<1> QED  BY <1>1, <1>4, <1>5
-----------------------------------------------------------------------------
(* The order of evaluation.                                                *)

\* The path to a child.
LEMMA KidSite ==
  ASSUME NEW s, NEW i \in Nat \ {0}, s[2] \in Seq(Nat \ {0})
  PROVE  /\ Kid(s, i)[1] = s[1] /\ Kid(s, i)[2] = Append(s[2], i)
         /\ Kid(s, i)[2] \in Seq(Nat \ {0}) /\ Len(Kid(s, i)[2]) = Len(s[2]) + 1
         /\ Kid(s, i)[2][Len(s[2]) + 1] = i
         /\ \A m \in 1..Len(s[2]) : Kid(s, i)[2][m] = s[2][m]
         /\ Inside(Kid(s, i)[2], s[2])
         /\ \A t : Sooner(t, Kid(s, i), s)
<1> DEFINE p == s[2]
           q == Append(p, i)
<1>1. Kid(s, i)[1] = s[1] /\ Kid(s, i)[2] = q  BY DEF Kid
<1>2. /\ q \in Seq(Nat \ {0}) /\ Len(q) = Len(p) + 1 /\ q[Len(p) + 1] = i
      /\ \A m \in 1..Len(p) : q[m] = p[m]
  OBVIOUS
<1>3. SubSeq(q, 1, Len(p)) = p
  BY AppendProperties
<1>4. Inside(q, p)  BY <1>2, <1>3 DEF Inside
<1> QED  BY <1>1, <1>2, <1>4 DEF Sooner

\* No operand is written or evaluated before itself, nor each of two before
\* the other; of two one is before the other.
LEMMA OperandOrder ==
  ASSUME NEW t, NEW s, NEW i \in Nat, NEW j \in Nat
  PROVE  /\ ~OperandSooner(t, s, i, i)
         /\ ~(OperandSooner(t, s, i, j) /\ OperandSooner(t, s, j, i))
         /\ i # j => OperandSooner(t, s, i, j) \/ OperandSooner(t, s, j, i)
BY DEF OperandSooner

\* What lies inside agrees with what is around it.
LEMMA InsideAgrees ==
  ASSUME NEW p \in Seq(Nat \ {0}), NEW q \in Seq(Nat \ {0}), Inside(p, q)
  PROVE  Len(q) < Len(p) /\ \A m \in 1..Len(q) : p[m] = q[m]
<1>1. Len(q) < Len(p) /\ q = SubSeq(p, 1, Len(q))  BY DEF Inside
<1>2. \A m \in 1..Len(q) : SubSeq(p, 1, Len(q))[m] = p[m]  BY <1>1
<1> QED  BY <1>1, <1>2

\* Two paths that agree up to a place have the same beginning.
LEMMA SameStart ==
  ASSUME NEW p \in Seq(Nat \ {0}), NEW q \in Seq(Nat \ {0}), NEW n \in DOMAIN p \cap DOMAIN q,
         \A m \in 1..(n - 1) : p[m] = q[m]
  PROVE  SubSeq(p, 1, n - 1) = SubSeq(q, 1, n - 1)
<1>1. n \in 1..Len(p) /\ n \in 1..Len(q) /\ Len(p) \in Nat /\ Len(q) \in Nat  OBVIOUS
<1>2. SubSeq(p, 1, n - 1) = [m \in 1..(n - 1) |-> p[m]]  BY <1>1
<1>3. SubSeq(q, 1, n - 1) = [m \in 1..(n - 1) |-> q[m]]  BY <1>1
<1> QED  BY <1>2, <1>3

\* Of two sites at most one comes first.
LEMMA SoonerAsymmetric ==
  ASSUME NEW t, NEW a, NEW b, a[1] = b[1], a[2] \in Seq(Nat \ {0}), b[2] \in Seq(Nat \ {0}),
         Sooner(t, a, b), Sooner(t, b, a)
  PROVE  FALSE
<1> DEFINE p == a[2]
           q == b[2]
           Parts(x, y, n) == /\ n \in (DOMAIN x) \cap (DOMAIN y)
                             /\ \A m \in 1..(n - 1) : x[m] = y[m]
                             /\ OperandSooner(t, <<a[1], SubSeq(x, 1, n - 1)>>, x[n], y[n])
<1>1. Inside(p, q) \/ \E n : Parts(p, q, n)  BY DEF Sooner
<1>2. Inside(q, p) \/ \E n : Parts(q, p, n)  BY DEF Sooner
<1>n. /\ Len(p) \in Nat /\ DOMAIN p = 1..Len(p) /\ \A n \in DOMAIN p : p[n] \in Nat
      /\ Len(q) \in Nat /\ DOMAIN q = 1..Len(q) /\ \A n \in DOMAIN q : q[n] \in Nat
  OBVIOUS
<1>3. CASE Inside(p, q)
  <2>1. Len(q) < Len(p) /\ \A m \in 1..Len(q) : p[m] = q[m]  BY <1>3, InsideAgrees
  <2>2. ~Inside(q, p)  BY <2>1, <1>n DEF Inside
  <2>3. PICK n : Parts(q, p, n)  BY <1>2, <2>2
  <2>4. q[n] = p[n]  BY <2>1, <2>3, <1>n
  <2> QED  BY <2>3, <2>4, <1>n, OperandOrder
<1>4. CASE Inside(q, p)
  <2>1. Len(p) < Len(q) /\ \A m \in 1..Len(p) : q[m] = p[m]  BY <1>4, InsideAgrees
  <2>2. ~Inside(p, q)  BY <2>1, <1>n DEF Inside
  <2>3. PICK n : Parts(p, q, n)  BY <1>1, <2>2
  <2>4. q[n] = p[n]  BY <2>1, <2>3, <1>n
  <2> QED  BY <2>3, <2>4, <1>n, OperandOrder
<1>5. CASE ~Inside(p, q) /\ ~Inside(q, p)
  <2>1. PICK n : Parts(p, q, n)  BY <1>1, <1>5
  <2>2. PICK m : Parts(q, p, m)  BY <1>2, <1>5
  <2>a. n \in Nat /\ p[n] \in Nat /\ q[n] \in Nat  BY <2>1, <1>n
  <2>b. m \in Nat /\ p[m] \in Nat /\ q[m] \in Nat  BY <2>2, <1>n
  <2>c. OperandSooner(t, <<a[1], SubSeq(p, 1, n - 1)>>, p[n], q[n])  BY <2>1
  <2>d. OperandSooner(t, <<a[1], SubSeq(q, 1, m - 1)>>, q[m], p[m])  BY <1>5, <2>2
  <2>3. p[n] # q[n] /\ q[m] # p[m]
    <3>1. \A e, x, y : x \in Nat /\ y \in Nat /\ OperandSooner(t, e, x, y) => x # y
      BY OperandOrder
    <3> HIDE DEF p, q
    <3>2. p[n] # q[n]  BY <2>a, <2>c, <3>1
    <3>3. q[m] # p[m]  BY <2>b, <2>d, <3>1
    <3> QED  BY <3>2, <3>3
  <2>4. n = m
    <3>1. ~(n < m)  BY <2>1, <2>2, <2>3, <2>a, <2>b, <1>n
    <3>2. ~(m < n)  BY <2>1, <2>2, <2>3, <2>a, <2>b, <1>n
    <3> QED  BY <2>a, <2>b, <3>1, <3>2
  <2>5. SubSeq(p, 1, n - 1) = SubSeq(q, 1, n - 1)  BY <2>1, SameStart
  <2> HIDE DEF p, q
  <2> QED  BY <2>4, <2>5, <2>a, <2>c, <2>d, OperandOrder
<1> QED  BY <1>3, <1>4, <1>5
-----------------------------------------------------------------------------
(* Frames.                                                                 *)

\* The file that is run and the text of it.
Ran == CFile(source) /\ TextNow /\ Runnable(source)

\* Children are sites of the same function, and nothing of a body is stored.
LEMMA Children ==
  ASSUME Ran, NEW s \in DOMAIN source.nodes
  PROVE  /\ s[2] \in Seq(Nat \ {0}) /\ s = <<s[1], s[2]>> /\ s[1] \in DOMAIN source.funs
         /\ \A i \in 1..source.nodes[s].n : Kid(s, i) \in SitesOf(source, s[1])
         /\ s[2] = <<>> <=> source.nodes[s].k = "body"
         /\ \A i : Kid(s, i) \in DOMAIN source.nodes => i \in Nat \ {0}
<1>1. s[2] \in Seq(Nat \ {0}) /\ s = <<s[1], s[2]>> /\ s[1] \in DOMAIN source.funs
  BY SourceNodes DEF Ran
<1>2. \A i \in 1..source.nodes[s].n : Kid(s, i) \in DOMAIN source.nodes /\ Kid(s, i)[1] = s[1]
  BY DEF Ran, Runnable, Kid
<1>3. s[2] = <<>> <=> source.nodes[s].k = "body"  BY DEF Ran, Runnable
<1>4. ASSUME NEW i, Kid(s, i) \in DOMAIN source.nodes  PROVE i \in Nat \ {0}
  <2>1. Kid(s, i)[2] \in Seq(Nat \ {0})  BY <1>4, SourceNodes DEF Ran
  <2>2. Append(s[2], i) \in Seq(Nat \ {0})  BY <2>1 DEF Kid
  <2>3. Append(s[2], i) = [m \in 1..(Len(s[2]) + 1) |-> IF m = Len(s[2]) + 1 THEN i ELSE s[2][m]]
    BY <1>1
  <2>4. Append(s[2], i)[Len(s[2]) + 1] = i /\ DOMAIN Append(s[2], i) = 1..(Len(s[2]) + 1)
    BY <1>1, <2>3
  <2>5. Len(s[2]) + 1 \in 1..(Len(s[2]) + 1)  BY <1>1
  <2>6. \A m \in DOMAIN Append(s[2], i) : Append(s[2], i)[m] \in Nat \ {0}  BY <2>2
  <2> QED  BY <2>4, <2>5, <2>6
<1> QED  BY <1>1, <1>2, <1>3, <1>4 DEF SitesOf

\* A site's parent and place are its own.
LEMMA KidInjective ==
  ASSUME Ran, NEW s \in DOMAIN source.nodes, NEW r \in DOMAIN source.nodes, NEW i, NEW j,
         Kid(s, i) = Kid(r, j), Kid(s, i) \in DOMAIN source.nodes
  PROVE  s = r /\ i = j /\ i = Kid(s, i)[2][Len(Kid(s, i)[2])]
<1>1. i \in Nat \ {0} /\ j \in Nat \ {0}  BY Children
<1>2. s[2] \in Seq(Nat \ {0}) /\ r[2] \in Seq(Nat \ {0}) /\ s = <<s[1], s[2]>> /\ r = <<r[1], r[2]>>
  BY Children
<1>3. s[1] = r[1] /\ Append(s[2], i) = Append(r[2], j)
  <2>1. /\ Kid(s, i)[1] = s[1] /\ Kid(s, i)[2] = Append(s[2], i)
        /\ Kid(r, j)[1] = r[1] /\ Kid(r, j)[2] = Append(r[2], j)
    BY DEF Kid
  <2> QED  BY <2>1
<1>4. s[2] = r[2] /\ i = j
  <2> HIDE DEF Kid
  <2> DEFINE p == s[2]
             q == r[2]
  <2>1. p \in Seq(Nat \ {0}) /\ q \in Seq(Nat \ {0})  BY <1>2
  <2>2. Append(p, i) = Append(q, j)  BY <1>3
  <2> HIDE DEF p, q
  <2>3. p = q /\ i = j  BY <1>1, <2>1, <2>2, AppendInjective
  <2> QED  BY <2>3 DEF p, q
<1>5. i = Kid(s, i)[2][Len(Kid(s, i)[2])]  BY <1>1, <1>2, KidSite
<1> QED  BY <1>2, <1>3, <1>4, <1>5

\* Whatever comes before the site whose turn it is has been evaluated.
LEMMA BeforeFirst ==
  ASSUME Ran, NEW f, NEW s, First(f, s), NEW r \in SitesOf(source, f.fun), Sooner(text, r, s)
  PROVE  r \in DOMAIN f.vals
<1> SUFFICES ASSUME r \notin DOMAIN f.vals  PROVE FALSE  OBVIOUS
<1>1. s \in Left(f) /\ r \in Left(f) /\ s \in SitesOf(source, f.fun)  BY TextSites DEF Left, First, Ran
<1>2. s[1] = r[1] /\ s[2] \in Seq(Nat \ {0}) /\ r[2] \in Seq(Nat \ {0})
  BY <1>1, Children DEF SitesOf
<1>3. CASE r = s  BY <1>2, <1>3, SoonerAsymmetric
<1>4. CASE r # s
  <2>1. Sooner(text, s, r)  BY <1>1, <1>4 DEF First
  <2> QED  BY <1>2, <2>1, SoonerAsymmetric
<1> QED  BY <1>3, <1>4

\* If an operand has been evaluated and what it is for has not, then what comes
\* next is another operand that comes later, or is inside of one.
LEMMA PendingAround ==
  ASSUME Ran, NEW f, InOrder(f), NEW x, First(f, x), NEW s \in Left(f), x # s,
         NEW i, Kid(s, i) \in DOMAIN f.vals
  PROVE  /\ Around(s, x)
         /\ \E j \in 1..source.nodes[s].n :
              /\ x = Kid(s, j) \/ Inside(x[2], Kid(s, j)[2])
              /\ OperandSooner(text, s, i, j)
<1> DEFINE p == s[2]
           q == x[2]
           n == Len(p) + 1
           c == Kid(s, i)
<1>1. /\ s \in DOMAIN source.nodes /\ x \in DOMAIN source.nodes /\ s[1] = f.fun /\ x[1] = f.fun
      /\ c \in DOMAIN source.nodes /\ c # x
      /\ x \notin DOMAIN f.vals
  BY TextSites DEF Left, First, Ran, InOrder, SitesOf
<1>2. p \in Seq(Nat \ {0}) /\ q \in Seq(Nat \ {0}) /\ i \in Nat \ {0} /\ s = <<s[1], p>> /\ x = <<x[1], q>>
  BY <1>1, Children
<1>3. /\ c[1] = f.fun /\ c[2] = Append(p, i) /\ c[2] \in Seq(Nat \ {0}) /\ Len(c[2]) = n
      /\ c[2][n] = i /\ \A m \in 1..Len(p) : c[2][m] = p[m]
  BY <1>1, <1>2, KidSite
<1>4. Sooner(text, x, s)  BY <1>1 DEF First
<1>5. ~Sooner(text, x, c)
  <2>1. x \in SitesOf(source, f.fun)  BY <1>1 DEF SitesOf
  <2> QED  BY <1>1, <2>1 DEF InOrder
<1>n. /\ Len(p) \in Nat /\ DOMAIN p = 1..Len(p) /\ Len(q) \in Nat /\ DOMAIN q = 1..Len(q)
      /\ DOMAIN c[2] = 1..n /\ n \in Nat
      /\ \A m \in DOMAIN q : q[m] \in Nat \ {0}
  BY <1>2, <1>3
<1> HIDE DEF p, q, n, c
<1>6. CASE Inside(q, p)
  <2>1. Len(p) < Len(q) /\ \A m \in 1..Len(p) : q[m] = p[m]  BY <1>2, <1>6, InsideAgrees
  <2>2. n \in 1..Len(q) /\ n - 1 = Len(p) BY <2>1, <1>n DEF n
  <2>3. SubSeq(q, 1, n - 1) = p  BY <1>6, <2>2 DEF Inside
  <2>4. q[n] \in 1..source.nodes[s].n
    <3>1. q[n] \in 1..source.nodes[<<x[1], SubSeq(q, 1, n - 1)>>].n
      BY <1>1, <1>n, <2>2 DEF Ran, Runnable, q
    <3> QED  BY <1>1, <1>2, <2>3, <3>1
  <2>5. /\ Kid(s, q[n])[1] = f.fun /\ Kid(s, q[n])[2] = Append(p, q[n])
        /\ Kid(s, q[n])[2] \in Seq(Nat \ {0}) /\ Len(Kid(s, q[n])[2]) = n
    <3>1. q[n] \in Nat \ {0}  BY <1>n, <2>2
    <3>2. Kid(s, q[n])[1] = s[1] /\ Kid(s, q[n])[2] = Append(p, q[n])  BY DEF Kid, p
    <3>3. Append(p, q[n]) \in Seq(Nat \ {0}) /\ Len(Append(p, q[n])) = n  BY <1>2, <3>1 DEF n
    <3> QED  BY <1>1, <3>2, <3>3
  <2>6. SubSeq(q, 1, n) = Append(p, q[n])
    <3>1. SubSeq(q, 1, n) = [m \in 1..n |-> q[m]]  BY <1>2, <1>n, <2>2
    <3>2. Append(p, q[n]) = [m \in 1..n |-> IF m = n THEN q[n] ELSE p[m]]
      BY <1>2, <1>n, <2>2 DEF n
    <3>3. \A m \in 1..n : q[m] = IF m = n THEN q[n] ELSE p[m]
      <4>1. \A m \in 1..n : m = n \/ m \in 1..Len(p)  BY <1>n DEF n
      <4> QED  BY <2>1, <4>1
    <3> QED  BY <3>1, <3>2, <3>3
  <2>7. x = Kid(s, q[n]) \/ Inside(q, Kid(s, q[n])[2])
    <3>1. CASE Len(q) = n
      <4>1. SubSeq(q, 1, n) = q  BY <1>2, <3>1
      <4>2. Kid(s, q[n]) = <<f.fun, Append(p, q[n])>>  BY <1>1 DEF Kid, p
      <4> QED  BY <1>1, <1>2, <2>6, <4>1, <4>2
    <3>2. CASE n < Len(q)  BY <2>5, <2>6, <3>2 DEF Inside
    <3>3. Len(q) = n \/ n < Len(q)
      <4>1. n \in Nat /\ Len(q) \in Nat /\ n \in 1..Len(q)  BY <1>n, <2>2
      <4> QED  BY <4>1
    <3> QED  BY <3>1, <3>2, <3>3
  <2>8. q[n] # i
    <3> SUFFICES ASSUME q[n] = i  PROVE FALSE  OBVIOUS
    <3>1. Inside(q, c[2])  BY <1>1, <2>7 DEF c
    <3> QED  BY <1>5, <3>1 DEF Sooner, q
  <2>9. ~OperandSooner(text, s, q[n], i)
    <3> SUFFICES ASSUME OperandSooner(text, s, q[n], i)  PROVE FALSE  OBVIOUS
    <3>1. n \in (DOMAIN q) \cap (DOMAIN c[2])  BY <1>n, <2>2
    <3>2. \A m \in 1..(n - 1) : q[m] = c[2][m]  BY <1>3, <2>1, <2>2
    <3>3. <<x[1], SubSeq(q, 1, n - 1)>> = s  BY <1>1, <1>2, <2>3
    <3>4. OperandSooner(text, <<x[1], SubSeq(q, 1, n - 1)>>, q[n], c[2][n])  BY <1>3, <3>3
    <3> QED  BY <1>5, <3>1, <3>2, <3>4 DEF Sooner, q
  <2>10. q[n] \in Nat /\ i \in Nat  BY <1>2, <1>n, <2>2
  <2>11. OperandSooner(text, s, i, q[n])  BY <2>8, <2>9, <2>10, OperandOrder
  <2>12. Around(s, x)  BY <1>1, <1>6 DEF Around, p, q
  <2> QED  BY <2>4, <2>7, <2>11, <2>12 DEF q
<1>7. CASE ~Inside(q, p)
  <2>1. PICK m \in (DOMAIN q) \cap (DOMAIN p) :
          /\ \A l \in 1..(m - 1) : q[l] = p[l]
          /\ OperandSooner(text, <<x[1], SubSeq(q, 1, m - 1)>>, q[m], p[m])
    BY <1>4, <1>7 DEF Sooner, p, q
  <2>2. m \in 1..Len(p) /\ m \in (DOMAIN q) \cap (DOMAIN c[2]) /\ c[2][m] = p[m]
    BY <1>3, <1>n, <2>1 DEF n
  <2>3. \A l \in 1..(m - 1) : q[l] = c[2][l]
    <3>1. \A l \in 1..(m - 1) : l \in 1..Len(p)  BY <1>n, <2>2
    <3> QED  BY <1>3, <2>1, <3>1
  <2>4. Sooner(text, x, c)  BY <2>1, <2>2, <2>3 DEF Sooner, q
  <2> QED  BY <1>5, <2>4
<1> QED  BY <1>6, <1>7
\* What lies around a child lies around its parent, or is it.
LEMMA AroundParent ==
  ASSUME NEW p \in Seq(Nat \ {0}), NEW q \in Seq(Nat \ {0}), NEW i \in Nat \ {0},
         Inside(Append(q, i), p)
  PROVE  p = q \/ Inside(q, p)
<1>1. /\ Append(q, i) \in Seq(Nat \ {0}) /\ Len(Append(q, i)) = Len(q) + 1
      /\ \A m \in 1..Len(q) : Append(q, i)[m] = q[m]
  OBVIOUS
<1>2. Len(p) < Len(q) + 1 /\ \A m \in 1..Len(p) : Append(q, i)[m] = p[m]
  BY <1>1, InsideAgrees
<1>3. Len(p) \in Nat /\ Len(q) \in Nat /\ Len(p) <= Len(q)  BY <1>2
<1>4. \A m \in 1..Len(p) : q[m] = p[m]  BY <1>1, <1>2, <1>3
<1>5. p = SubSeq(q, 1, Len(p))
  <2>1. SubSeq(q, 1, Len(p)) = [m \in 1..Len(p) |-> q[m]]  BY <1>3
  <2>2. p = [m \in 1..Len(p) |-> p[m]]  OBVIOUS
  <2> QED  BY <1>4, <2>1, <2>2
<1>6. CASE Len(p) = Len(q)
  <2>1. SubSeq(q, 1, Len(q)) = q  OBVIOUS
  <2> QED  BY <1>5, <1>6, <2>1
<1>7. CASE Len(p) < Len(q)  BY <1>5, <1>7 DEF Inside
<1> QED  BY <1>3, <1>6, <1>7

\* While a call has a stored operand and is not begun, no operand is stored for
\* another call of its function: of the function that runs ...
LEMMA NotInSameFrame ==
  ASSUME Ran, Untangled, NEW f, InOrder(f), NEW x, First(f, x), NEW s \in Left(f), x # s,
         NEW i \in Stores(text, s), Kid(s, i) \in DOMAIN f.vals,
         NEW r \in DOMAIN source.nodes, NEW j \in Stores(text, r), x = Kid(r, j), r # s
  PROVE  CalleeOf(source, r) # CalleeOf(source, s)
<1>1. Around(s, x)  BY PendingAround
<1>2. x \in DOMAIN source.nodes /\ s \in DOMAIN source.nodes
  BY TextSites DEF Left, First, Ran, SitesOf
<1>3. /\ j \in Nat \ {0} /\ r[2] \in Seq(Nat \ {0}) /\ s[2] \in Seq(Nat \ {0})
      /\ s = <<s[1], s[2]>> /\ r = <<r[1], r[2]>>
  BY <1>2, Children
<1>4. x[1] = r[1] /\ x[2] = Append(r[2], j)  BY DEF Kid
<1>5. s[2] = r[2] \/ Inside(r[2], s[2])
  <2>1. Inside(Append(r[2], j), s[2])  BY <1>1, <1>4 DEF Around
  <2> QED  BY <2>1, <1>3, AroundParent
<1>6. Around(s, r)  BY <1>1, <1>3, <1>4, <1>5 DEF Around
<1>7. s \in Sites(source, {"call"}) /\ r \in Sites(source, {"call"}) /\ text.nodes[s].k \in {"hoisted", "wrapped"}
  BY <1>2, StoresOf DEF Ran
<1> QED  BY <1>6, <1>7 DEF Untangled

\* ... and of any function that the call in progress leads to.
LEMMA NotReached ==
  ASSUME Ran, Untangled, NonReentrant(source), NEW f, InOrder(f), NEW x \in Sites(source, {"call"}),
         First(f, x), NEW s \in Left(f), x # s,
         NEW i \in Stores(text, s), Kid(s, i) \in DOMAIN f.vals
  PROVE  \E ns \in SUBSET Names(source) :
           Closed(source, ns) /\ CalleeOf(source, x) \in ns /\ CalleeOf(source, s) \notin ns
<1>1. /\ Around(s, x)
      /\ \E j \in 1..source.nodes[s].n :
           /\ x = Kid(s, j) \/ Inside(x[2], Kid(s, j)[2])
           /\ OperandSooner(text, s, i, j)
  BY PendingAround
<1>2. s \in DOMAIN source.nodes  BY TextSites DEF Left, Ran, SitesOf
<1>3. /\ s \in Sites(source, {"call"}) /\ text.nodes[s].k \in {"hoisted", "wrapped"}
      /\ Stores(text, s) = Aggregates(source, CalleeOf(source, s))
  BY <1>2, StoresOf DEF Ran
<1>4. CalleeOf(source, x) # CalleeOf(source, s)  BY <1>1, <1>3 DEF Untangled
<1>5. Amid(source, s, x)
  <2>1. PICK j \in 1..source.nodes[s].n :
           /\ x = Kid(s, j) \/ Inside(x[2], Kid(s, j)[2])
           /\ OperandSooner(text, s, i, j)
    BY <1>1
  <2>2. j \in Aggregates(source, CalleeOf(source, s)) => i < j  BY <1>3, <2>1 DEF OperandSooner
  <2> QED  BY <1>3, <2>1, <2>2 DEF Amid
<1> QED  BY <1>1, <1>3, <1>4, <1>5 DEF NonReentrant
-----------------------------------------------------------------------------
(* The steps of a run keep the invariant.                                  *)

\* A sequence is one of its own members.
LEMMA OwnMembers ==
  ASSUME NEW S, NEW q \in Seq(S)
  PROVE  q \in Seq({q[k] : k \in DOMAIN q})
<1>1. Len(q) \in Nat /\ q = [k \in 1..Len(q) |-> q[k]] /\ DOMAIN q = 1..Len(q)  OBVIOUS
<1>2. q \in [1..Len(q) -> {q[k] : k \in DOMAIN q}]  BY <1>1
<1> QED  BY <1>1, <1>2, SeqDef

\* The length of a sequence is that of its domain.
LEMMA LengthIs ==
  ASSUME NEW S, NEW q \in Seq(S), NEW n \in Nat, DOMAIN q = 1..n
  PROVE  Len(q) = n
<1>1. Len(q) \in Nat /\ 1..Len(q) = 1..n  OBVIOUS
<1>2. ASSUME NEW m \in Nat, 1..m = 1..n  PROVE m = n
  <2>1. ~(m < n)
    <3> SUFFICES ASSUME m < n  PROVE FALSE  OBVIOUS
    <3>1. n \in 1..n /\ n \notin 1..m  OBVIOUS
    <3> QED  BY <1>2, <3>1
  <2>2. ~(n < m)
    <3> SUFFICES ASSUME n < m  PROVE FALSE  OBVIOUS
    <3>1. m \in 1..m /\ m \notin 1..n  OBVIOUS
    <3> QED  BY <1>2, <3>1
  <2> QED  BY <2>1, <2>2
<1> QED  BY <1>1, <1>2

\* The frames of a run.
LEMMA StackFrames ==
  ASSUME RunInv
  PROVE  /\ Len(stack) \in Nat /\ DOMAIN stack = 1..Len(stack)
         /\ stack # <<>> <=> Len(stack) # 0
         /\ stack # <<>> => Len(stack) \in DOMAIN stack
         /\ Ran /\ Untangled /\ NonReentrant(source)
         /\ \A k \in DOMAIN stack :
              /\ InOrder(stack[k]) /\ stack[k].fun \in DOMAIN source.funs
              /\ stack[k] = [fun |-> stack[k].fun, args |-> stack[k].args,
                             vals |-> stack[k].vals, at |-> stack[k].at]
<1>1. stack \in Seq({stack[k] : k \in DOMAIN stack})  BY DEF RunInv
<1>2. Ran /\ Untangled /\ NonReentrant(source)  BY DEF RunInv, IInv, Ran
<1>3. ASSUME NEW k \in DOMAIN stack
      PROVE  /\ InOrder(stack[k]) /\ stack[k].fun \in DOMAIN source.funs
             /\ stack[k] = [fun |-> stack[k].fun, args |-> stack[k].args,
                             vals |-> stack[k].vals, at |-> stack[k].at]
  <2>1. InOrder(stack[k])  BY DEF RunInv
  <2> DEFINE f == stack[k]
             w == [s \in DOMAIN f.vals |-> f.vals[s]]
  <2>2. f = [fun |-> f.fun, args |-> f.args, vals |-> w, at |-> f.at] /\ f.fun \in DOMAIN source.funs
    BY <2>1 DEF InOrder
  <2> HIDE DEF f, w
  <2>3. f.vals = w  BY <2>2
  <2> QED  BY <2>1, <2>2, <2>3 DEF f
<1> QED  BY <1>1, <1>2, <1>3

\* The stack when the value of s is known.
LEMMA Settled ==
  ASSUME RunInv, stack # <<>>, NEW s, NEW v, Settle(s, v)
  PROVE  /\ Len(stack') = Len(stack) /\ DOMAIN stack' = DOMAIN stack
         /\ stack' \in Seq({stack'[k] : k \in DOMAIN stack'})
         /\ \A k \in DOMAIN stack \ {Len(stack)} : stack'[k] = stack[k]
         /\ stack'[Len(stack)] = [fun |-> Top.fun, args |-> Top.args,
                                  vals |-> With(Top.vals, s, v), at |-> NoSite]
<1> DEFINE L == Len(stack)
           e == [fun |-> Top.fun, args |-> Top.args, vals |-> With(Top.vals, s, v), at |-> NoSite]
           S == {stack[k] : k \in DOMAIN stack} \cup {e}
<1>1. L \in Nat \ {0} /\ DOMAIN stack = 1..L /\ L \in DOMAIN stack  BY StackFrames
<1>2. Top = [fun |-> Top.fun, args |-> Top.args, vals |-> Top.vals, at |-> Top.at]
  BY <1>1, StackFrames DEF Top
<1>3. stack' = [stack EXCEPT ![L].vals = With(@, s, v), ![L].at = NoSite]
  BY DEF Settle
<1>4. stack \in Seq({stack[k] : k \in DOMAIN stack})  BY DEF RunInv
<1>5. DOMAIN stack' = 1..L /\ \A k \in 1..L \ {L} : stack'[k] = stack[k]  BY <1>1, <1>3
<1>6. stack'[L] = e
  <2>1. stack'[L] = [[Top EXCEPT !.vals = With(@, s, v)] EXCEPT !.at = NoSite]
    BY <1>1, <1>3 DEF Top
  <2> QED  BY <1>2, <2>1
<1> HIDE DEF e
<1>7. stack' = [k \in 1..L |-> stack'[k]]  BY <1>1, <1>3
<1>8. stack' \in [1..L -> S]  BY <1>1, <1>5, <1>6, <1>7
<1> HIDE DEF S
<1>9. stack' \in Seq(S)  BY <1>1, <1>8, SeqDef
<1>10. Len(stack') = L  BY <1>1, <1>5, <1>9, LengthIs
<1>11. stack' \in Seq({stack'[k] : k \in DOMAIN stack'})  BY <1>9, OwnMembers
<1> QED  BY <1>1, <1>5, <1>6, <1>10, <1>11 DEF e

\* What is not about frames stays while the text does.
LEMMA TextStays ==
  ASSUME RunInv, UNCHANGED vars
  PROVE  IInv' /\ Runnable(source)' /\ NonReentrant(source)' /\ Untangled'
<1>1. IInv /\ Runnable(source) /\ NonReentrant(source) /\ Untangled  BY DEF RunInv
<1>2. IInv'  BY <1>1, NextKeeps
<1>3. source' = source /\ text' = text  BY DEF vars
<1>4. Runnable(source)' /\ NonReentrant(source)'  BY <1>1, <1>3
<1>5. Untangled'  BY <1>1, <1>3 DEF Untangled
<1> QED  BY <1>1, <1>2, <1>4, <1>5
\* The value of a stored operand, and no other, goes to the global of its
\* parameter.
LEMMA StoredValue ==
  ASSUME Ran, NEW s \in DOMAIN source.nodes, NEW v, Settle(s, v)
  PROVE  /\ \/ globals' = globals
            \/ \E r \in SitesOf(source, Top.fun) : \E i \in Stores(text, r) :
                 s = Kid(r, i) /\ globals' = With(globals, Param(CalleeOf(source, r), i), v)
         /\ \A r \in SitesOf(source, Top.fun) : \A i \in Stores(text, r) :
              s = Kid(r, i) => globals' = With(globals, Param(CalleeOf(source, r), i), v)
<1> DEFINE sites == SitesOf(text, Top.fun)
           Of(r) == \E i \in Stores(text, r) : s = Kid(r, i)
           owner == CHOOSE q \in sites : Of(q)
<1>1. globals' = IF \E r \in sites : Of(r)
                 THEN With(globals, Param(CalleeOf(text, owner), s[2][Len(s[2])]), v) ELSE globals
  BY DEF Settle
<1>2. sites = SitesOf(source, Top.fun) /\ sites \subseteq DOMAIN source.nodes
  BY TextSites DEF Ran, SitesOf
<1> HIDE DEF sites
<1>3. CASE \E r \in sites : Of(r)
  <2>1. owner \in sites /\ Of(owner)  BY <1>3
  <2> HIDE DEF owner
  <2>2. PICK i \in Stores(text, owner) : s = Kid(owner, i)  BY <2>1
  <2>3. owner \in DOMAIN source.nodes /\ i = s[2][Len(s[2])]  BY <1>2, <2>1, <2>2, KidInjective
  <2>4. CalleeOf(text, owner) = CalleeOf(source, owner)  BY <2>3, TextNodes DEF Ran
  <2>5. globals' = With(globals, Param(CalleeOf(source, owner), i), v)  BY <1>1, <1>3, <2>3, <2>4
  <2>6. ASSUME NEW r \in sites, NEW j \in Stores(text, r), s = Kid(r, j)  PROVE r = owner /\ j = i
    BY <1>2, <2>2, <2>3, <2>6, KidInjective
  <2> QED  BY <1>2, <2>1, <2>2, <2>5, <2>6
<1>4. CASE ~\E r \in sites : Of(r)
  BY <1>1, <1>2, <1>4
<1> QED  BY <1>3, <1>4

\* What was stored is still there after a value has been stored by the running
\* function.
LEMMA SettleKeepsStored ==
  ASSUME RunInv, stack # <<>>, NEW s, NEW v, First(Top, s), Top.at \in {NoSite, s},
         Settle(s, v), UNCHANGED vars
  PROVE  StoredKept'
<1> DEFINE L == Len(stack)
<1>1. /\ L \in DOMAIN stack /\ DOMAIN stack = 1..L /\ L \in Nat
      /\ Ran /\ Untangled /\ NonReentrant(source)
      /\ \A k \in DOMAIN stack : InOrder(stack[k])
  BY StackFrames
<1>2. /\ DOMAIN stack' = DOMAIN stack
      /\ \A k \in DOMAIN stack \ {L} : stack'[k] = stack[k]
      /\ stack'[L].fun = Top.fun /\ stack'[L].at = NoSite /\ stack'[L].vals = With(Top.vals, s, v)
  <2>1. /\ DOMAIN stack' = DOMAIN stack
        /\ \A k \in DOMAIN stack \ {L} : stack'[k] = stack[k]
        /\ stack'[L] = [fun |-> Top.fun, args |-> Top.args,
                        vals |-> With(Top.vals, s, v), at |-> NoSite]
    BY Settled
  <2> QED  BY <2>1
<1>3. source' = source /\ text' = text  BY DEF vars
<1>4. s \in Left(Top) /\ s \in DOMAIN source.nodes /\ s \in SitesOf(source, Top.fun)
  BY <1>1, TextSites DEF First, Left, Ran, SitesOf
<1>5. AtCalls /\ Reaching /\ StoredKept  BY DEF RunInv
<1> SUFFICES ASSUME NEW k \in DOMAIN stack, NEW r \in (SitesOf(source, stack'[k].fun) \ DOMAIN stack'[k].vals) \ {stack'[k].at},
                    NEW i \in Stores(text, r), Kid(r, i) \in DOMAIN stack'[k].vals
             PROVE  /\ Param(CalleeOf(source, r), i) \in DOMAIN globals'
                    /\ globals'[Param(CalleeOf(source, r), i)] = stack'[k].vals[Kid(r, i)]
  <2>1. \A j : SitesOf(text', j) = SitesOf(source, j)  BY <1>1, <1>3, TextSites DEF Ran
  <2> QED  BY <1>2, <1>3, <2>1 DEF StoredKept, Left
<1> DEFINE g == Param(CalleeOf(source, r), i)
<1>6. r \in SitesOf(source, stack[k].fun) /\ r \in DOMAIN source.nodes /\ r \in Left(stack[k])
  <2>1. r \in SitesOf(text, stack'[k].fun) \ DOMAIN stack'[k].vals  BY <1>1, TextSites DEF Ran
  <2>2. stack'[k].fun = stack[k].fun /\ DOMAIN stack[k].vals \subseteq DOMAIN stack'[k].vals
    BY <1>1, <1>2 DEF Top, With
  <2> QED  BY <1>1, <2>1, <2>2, TextSites DEF Left, Ran, SitesOf
<1>7. CASE k = L /\ Kid(r, i) = s
  <2>1. globals' = With(globals, g, v)  BY <1>1, <1>4, <1>6, <1>7, StoredValue DEF Top
  <2>2. stack'[k].vals[Kid(r, i)] = v  BY <1>2, <1>7 DEF With
  <2> QED  BY <2>1, <2>2 DEF With
<1>8. CASE k # L \/ Kid(r, i) # s
  <2>1. r # stack[k].at
    <3>1. CASE k = L
      <4>1. r # s  BY <1>2, <3>1 DEF With
      <4>2. r # NoSite  BY <1>2, <3>1
      <4> QED  BY <3>1, <4>1, <4>2 DEF Top
    <3>2. CASE k # L  BY <1>2, <3>2
    <3> QED  BY <3>1, <3>2
  <2>2. /\ Kid(r, i) \in DOMAIN stack[k].vals /\ stack'[k].vals[Kid(r, i)] = stack[k].vals[Kid(r, i)]
    <3>1. CASE k = L
      <4>1. Kid(r, i) # s /\ stack'[k].vals = With(stack[k].vals, s, v)  BY <1>2, <1>8, <3>1 DEF Top
      <4> QED  BY <4>1 DEF With
    <3>2. CASE k # L  BY <1>2, <3>2
    <3> QED  BY <3>1, <3>2
  <2>3. g \in DOMAIN globals /\ globals[g] = stack[k].vals[Kid(r, i)]
    BY <1>5, <1>6, <2>1, <2>2 DEF StoredKept
  <2>4. CASE globals' = globals  BY <2>2, <2>3, <2>4
  <2>5. ASSUME NEW q \in SitesOf(source, Top.fun), NEW j \in Stores(text, q), s = Kid(q, j),
               globals' = With(globals, Param(CalleeOf(source, q), j), v)
        PROVE  g # Param(CalleeOf(source, q), j)
    <3>0. q \in DOMAIN source.nodes /\ q[1] = Top.fun  BY DEF SitesOf
    <3> SUFFICES ASSUME g = Param(CalleeOf(source, q), j)  PROVE FALSE  OBVIOUS
    <3>1. CalleeOf(source, r) = CalleeOf(source, q) /\ i = j  BY DEF Param
    <3>2. CASE k = L
      <4>1. r # q  BY <1>8, <2>5, <3>1, <3>2
      <4>2. r # s
        <5>1. r \notin DOMAIN stack'[k].vals  OBVIOUS
        <5> QED  BY <5>1, <1>2, <3>2 DEF With
      <4>3. /\ InOrder(Top) /\ r \in Left(Top) /\ Kid(r, i) \in DOMAIN Top.vals
        BY <1>1, <1>6, <2>2, <3>2 DEF Top
      <4> QED  BY <1>1, <2>5, <3>0, <3>1, <4>1, <4>2, <4>3, NotInSameFrame
    <3>3. CASE k # L
      <4>1. k < L /\ k \in DOMAIN stack  BY <1>1, <3>3
      <4>2. stack[k].at \in Sites(source, {"call"}) /\ First(stack[k], stack[k].at)
        BY <1>5, <4>1 DEF AtCalls, Waits
      <4>3. PICK ns \in SUBSET Names(source) :
               Closed(source, ns) /\ CalleeOf(source, stack[k].at) \in ns /\ CalleeOf(source, r) \notin ns
        BY <1>1, <1>6, <2>1, <2>2, <4>2, NotReached
      <4>4. source.funs[Top.fun].name \in ns  BY <1>1, <1>5, <4>1, <4>3 DEF Reaching, Top
      <4>5. q \in Sites(source, {"call"})  BY <1>1, <3>0, <2>5, StoresOf DEF Ran
      <4> QED  BY <3>0, <3>1, <4>3, <4>4, <4>5 DEF Closed
    <3> QED  BY <3>2, <3>3
  <2>6. CASE globals' # globals
    <3>1. PICK q \in SitesOf(source, Top.fun) : \E j \in Stores(text, q) :
            s = Kid(q, j) /\ globals' = With(globals, Param(CalleeOf(source, q), j), v)
      BY <1>1, <1>4, <2>6, StoredValue
    <3>2. PICK j \in Stores(text, q) :
            s = Kid(q, j) /\ globals' = With(globals, Param(CalleeOf(source, q), j), v)
      BY <3>1
    <3>3. g # Param(CalleeOf(source, q), j)  BY <2>5, <3>2
    <3> QED  BY <2>2, <2>3, <3>2, <3>3 DEF With
  <2> QED  BY <2>4, <2>6
<1> QED  BY <1>7, <1>8
\* What a step that leaves the text has to keep.
LEMMA RunStep ==
  ASSUME RunInv, UNCHANGED vars,
         stack' \in Seq({stack'[k] : k \in DOMAIN stack'}),
         globals' = [g \in DOMAIN globals' |-> globals'[g]],
         \A k \in DOMAIN stack' : InOrder(stack'[k]),
         \A k \in DOMAIN stack' :
           IF k < Len(stack') \/ returned' # Pending
           THEN stack'[k].at \in Sites(source, {"call"}) /\ First(stack'[k], stack'[k].at)
           ELSE stack'[k].at = NoSite,
         \A k, m \in DOMAIN stack' : k < m =>
           \A ns \in SUBSET Names(source) :
             Closed(source, ns) /\ CalleeOf(source, stack'[k].at) \in ns =>
               source.funs[stack'[m].fun].name \in ns,
         StoredKept'
  PROVE  RunInv'
<1>1. source' = source /\ text' = text  BY DEF vars
<1>2. IInv' /\ Runnable(source)' /\ NonReentrant(source)' /\ Untangled'  BY TextStays
<1>3. (\A k \in DOMAIN stack : InOrder(stack[k]))'  BY <1>1 DEF InOrder
<1>4. AtCalls'  BY <1>1 DEF AtCalls, Waits, First, Left
<1>5. Reaching'  BY <1>1 DEF Reaching
<1> QED  BY <1>2, <1>3, <1>4, <1>5 DEF RunInv

\* Writing a global leaves the globals a function.
LEMMA GlobalsStay ==
  ASSUME RunInv
  PROVE  /\ globals = [g \in DOMAIN globals |-> globals[g]]
         /\ \A x, v : With(globals, x, v) = [g \in DOMAIN With(globals, x, v) |-> With(globals, x, v)[g]]
BY DEF RunInv, With

\* A value becomes known.
LEMMA SettleKeeps ==
  ASSUME RunInv, stack # <<>>, NEW s, NEW v, First(Top, s), Top.at \in {NoSite, s},
         source.nodes[s].k \notin {"return", "body"},
         Settle(s, v), UNCHANGED vars, returned' = Pending
  PROVE  RunInv'
<1> DEFINE L == Len(stack)
<1>1. /\ L \in DOMAIN stack /\ DOMAIN stack = 1..L /\ L \in Nat
      /\ Ran /\ \A k \in DOMAIN stack : InOrder(stack[k])
      /\ Top = stack[L] /\ InOrder(Top) /\ Top.fun \in DOMAIN source.funs
  BY StackFrames DEF Top
<1>2. /\ DOMAIN stack' = DOMAIN stack /\ Len(stack') = L
      /\ stack' \in Seq({stack'[k] : k \in DOMAIN stack'})
      /\ \A k \in DOMAIN stack \ {L} : stack'[k] = stack[k]
      /\ stack'[L] = [fun |-> Top.fun, args |-> Top.args,
                        vals |-> With(Top.vals, s, v), at |-> NoSite]
  BY Settled
<1>3. /\ stack'[L].fun = Top.fun /\ stack'[L].args = Top.args
      /\ stack'[L].at = NoSite /\ stack'[L].vals = With(Top.vals, s, v)
  BY <1>2
<1>4. s \in SitesOf(source, Top.fun) /\ s \in DOMAIN source.nodes
  BY <1>1, TextSites DEF First, Left, Ran, SitesOf
<1>5. globals' = [g \in DOMAIN globals' |-> globals'[g]]
  <2>1. \/ globals' = globals
        \/ \E x : globals' = With(globals, x, v)
    BY <1>1, <1>4, StoredValue
  <2> QED  BY <2>1, GlobalsStay
<1>6. InOrder(stack'[L])
  <2> DEFINE f == stack'[L]
  <2>1. DOMAIN f.vals = DOMAIN Top.vals \cup {s} /\ f.fun = Top.fun  BY <1>3 DEF With
  <2>2. f.vals = [x \in DOMAIN f.vals |-> f.vals[x]]  BY <1>3 DEF With
  <2>3. f = [fun |-> f.fun, args |-> f.args, vals |-> [x \in DOMAIN f.vals |-> f.vals[x]], at |-> f.at]
    <3>1. f = [fun |-> f.fun, args |-> f.args, vals |-> f.vals, at |-> f.at]  BY <1>2, <1>3
    <3> HIDE DEF f
    <3> QED  BY <2>2, <3>1
  <2> HIDE DEF f
  <2>4. DOMAIN Top.vals \subseteq SitesOf(source, Top.fun)
        /\ \A x \in DOMAIN Top.vals :
             /\ source.nodes[x].k \notin {"return", "body"}
             /\ \A r \in SitesOf(source, Top.fun) : Sooner(text, r, x) => r \in DOMAIN Top.vals
    BY <1>1 DEF InOrder
  <2>5. \A r \in SitesOf(source, Top.fun) : Sooner(text, r, s) => r \in DOMAIN Top.vals
    BY <1>1, BeforeFirst
  <2>6. InOrder(f)  BY <1>1, <1>4, <2>1, <2>3, <2>4, <2>5 DEF InOrder
  <2> QED  BY <2>6 DEF f
<1>7. \A k \in DOMAIN stack' : InOrder(stack'[k])  BY <1>1, <1>2, <1>6
<1>8. ASSUME NEW k \in DOMAIN stack'
      PROVE  IF k < Len(stack') \/ returned' # Pending
             THEN stack'[k].at \in Sites(source, {"call"}) /\ First(stack'[k], stack'[k].at)
             ELSE stack'[k].at = NoSite
  <2>1. CASE k = L  BY <1>1, <1>2, <1>3, <2>1
  <2>2. CASE k # L
    <3>1. k < L /\ stack'[k] = stack[k] /\ k \in DOMAIN stack  BY <1>1, <1>2, <2>2
    <3>2. stack[k].at \in Sites(source, {"call"}) /\ First(stack[k], stack[k].at)
      BY <3>1 DEF RunInv, AtCalls, Waits
    <3> QED  BY <1>2, <3>1, <3>2
  <2> QED  BY <2>1, <2>2
<1>9. ASSUME NEW k \in DOMAIN stack', NEW m \in DOMAIN stack', k < m, NEW ns \in SUBSET Names(source),
             Closed(source, ns), CalleeOf(source, stack'[k].at) \in ns
      PROVE  source.funs[stack'[m].fun].name \in ns
  <2>1. k \in DOMAIN stack /\ m \in DOMAIN stack /\ k # L  BY <1>1, <1>2, <1>9
  <2>2. stack'[k] = stack[k] /\ stack'[m].fun = stack[m].fun  BY <1>1, <1>2, <1>3, <2>1
  <2> QED  BY <1>9, <2>1, <2>2 DEF RunInv, Reaching
<1>10. StoredKept'  BY SettleKeepsStored
<1> QED  BY <1>2, <1>5, <1>7, <1>8, <1>9, <1>10, RunStep

\* The turn is a site's of the source, and no frame above waits.
LEMMA TurnSite ==
  ASSUME RunInv, NEW s, Turn(s)
  PROVE  /\ stack # <<>> /\ returned = Pending /\ First(Top, s) /\ Top.at = NoSite
         /\ s \in SitesOf(source, Top.fun) /\ s \in DOMAIN source.nodes /\ s \notin DOMAIN Top.vals
         /\ s \in Left(Top)
         /\ \A r \in SitesOf(source, Top.fun) : Sooner(text, r, s) => r \in DOMAIN Top.vals
<1>1. stack # <<>> /\ returned = Pending /\ First(Top, s)  BY DEF Turn
<1>2. Ran /\ Len(stack) \in DOMAIN stack /\ Len(stack) \in Nat  BY <1>1, StackFrames
<1>3. s \in SitesOf(source, Top.fun) /\ s \in DOMAIN source.nodes /\ s \notin DOMAIN Top.vals /\ s \in Left(Top)
  BY <1>1, <1>2, TextSites DEF First, Left, Ran, SitesOf
<1>4. Top.at = NoSite  BY <1>1, <1>2 DEF RunInv, AtCalls, Waits, Top
<1> QED  BY <1>1, <1>2, <1>3, <1>4, BeforeFirst
\* A function of the file is called.
LEMMA EnterKeeps ==
  ASSUME RunInv, NEW s, Enter(s)
  PROVE  RunInv'
<1> DEFINE L == Len(stack)
           lower == [stack EXCEPT ![L].at = s]
           new == Frame(Callee(s), Entered(s))
<1>1. /\ L \in DOMAIN stack /\ DOMAIN stack = 1..L /\ L \in Nat
      /\ Ran /\ \A k \in DOMAIN stack : InOrder(stack[k])
      /\ Top = stack[L] /\ Top = [fun |-> Top.fun, args |-> Top.args, vals |-> Top.vals, at |-> Top.at]
  BY StackFrames DEF Enter, Turn, Top
<1>2. /\ Turn(s) /\ IsCall(s) /\ InFile(s) /\ UNCHANGED <<vars, globals, trace, returned>>
      /\ stack' = Append(lower, new)
  BY DEF Enter
<1>3. /\ stack # <<>> /\ returned = Pending /\ First(Top, s) /\ Top.at = NoSite
      /\ s \in SitesOf(source, Top.fun) /\ s \in DOMAIN source.nodes
  BY <1>2, TurnSite
<1>4. s \in Sites(source, {"call"}) /\ Defs(source, CalleeOf(source, s)) # {}
  <2>1. text.nodes[s].k \in CallKinds  BY <1>2 DEF IsCall
  <2>2. source.nodes[s].k = "call"  BY <1>1, <1>3, <2>1, TextForms DEF Ran, Leaves, CallKinds
  <2>3. Defs(source, CalleeOf(source, s)) # {}
    BY <1>1, <1>2, <1>3, TextNodes, TextSites DEF InFile, Ran
  <2> QED  BY <1>3, <2>2, <2>3 DEF Sites
<1>5. Callee(s) \in DOMAIN source.funs /\ source.funs[Callee(s)].name = CalleeOf(source, s)
  <2>1. Callee(s) = TheFun(source, CalleeOf(source, s))
    BY <1>1, <1>3, TextNodes, TextSites DEF Callee, Ran
  <2> QED  BY <1>1, <1>4, <2>1, FileCalls DEF Ran
<1>6. /\ new.fun = Callee(s) /\ new.at = NoSite /\ DOMAIN new.vals = {}
      /\ new = [fun |-> new.fun, args |-> new.args, vals |-> [x \in DOMAIN new.vals |-> new.vals[x]], at |-> new.at]
  BY DEF Frame
<1>7. /\ lower[L] = [fun |-> Top.fun, args |-> Top.args, vals |-> Top.vals, at |-> s]
      /\ \A k \in 1..L \ {L} : lower[k] = stack[k]
      /\ DOMAIN lower = 1..L /\ lower = [k \in 1..L |-> lower[k]]
  BY <1>1
<1> DEFINE S == {lower[k] : k \in 1..L} \cup {new}
<1> HIDE DEF lower, new
<1>8. lower \in Seq(S) /\ Len(lower) = L
  <2>1. lower \in [1..L -> S]  BY <1>7
  <2>2. lower \in Seq(S)  BY <1>1, <2>1, SeqDef
  <2> QED  BY <1>1, <1>7, <2>2, LengthIs
<1>9. /\ stack' \in Seq(S) /\ Len(stack') = L + 1 /\ DOMAIN stack' = 1..(L + 1)
      /\ stack'[L + 1] = new /\ \A k \in 1..L : stack'[k] = lower[k]
  <2>1. new \in S  OBVIOUS
  <2> HIDE DEF S
  <2>2. /\ stack' \in Seq(S) /\ Len(stack') = L + 1
        /\ \A k \in 1..L : stack'[k] = lower[k] /\ stack'[L + 1] = new
    BY <1>2, <1>8, <2>1, AppendProperties
  <2>3. stack'[L + 1] = new  BY <1>2, <1>8, <2>1, AppendProperties
  <2>4. DOMAIN stack' = 1..Len(stack')  BY <2>2
  <2> QED  BY <2>2, <2>3, <2>4
<1>10. stack' \in Seq({stack'[k] : k \in DOMAIN stack'})  BY <1>9, OwnMembers
<1>11. /\ stack'[L].fun = Top.fun /\ stack'[L].vals = Top.vals /\ stack'[L].at = s
       /\ stack'[L] = [fun |-> Top.fun, args |-> Top.args, vals |-> Top.vals, at |-> s]
       /\ \A k \in 1..L \ {L} : stack'[k] = stack[k]
  BY <1>1, <1>7, <1>9
<1>k. \A k \in 1..(L + 1) : k = L + 1 \/ k = L \/ (k \in 1..L \ {L} /\ k \in DOMAIN stack /\ k < L)
  BY <1>1
<1>12. ASSUME NEW k \in DOMAIN stack'  PROVE InOrder(stack'[k])
  <2>1. CASE k = L + 1  BY <1>5, <1>6, <1>9, <2>1 DEF InOrder
  <2>2. CASE k = L
    <3>1. InOrder(Top) /\ Top.vals = [x \in DOMAIN Top.vals |-> Top.vals[x]]
      <4>1. InOrder(Top)  BY <1>1
      <4>2. Top = [fun |-> Top.fun, args |-> Top.args, vals |-> [x \in DOMAIN Top.vals |-> Top.vals[x]], at |-> Top.at]
        BY <4>1 DEF InOrder
      <4> QED  BY <4>1, <4>2
    <3>2. stack'[L] = [fun |-> Top.fun, args |-> Top.args, vals |-> [x \in DOMAIN Top.vals |-> Top.vals[x]], at |-> s]
      BY <1>11, <3>1
    <3> QED  BY <1>11, <2>2, <3>1, <3>2 DEF InOrder
  <2>3. CASE k # L + 1 /\ k # L  BY <1>1, <1>9, <1>11, <1>k, <2>3
  <2> QED  BY <2>1, <2>2, <2>3
<1>13. ASSUME NEW k \in DOMAIN stack'
       PROVE  IF k < Len(stack') \/ returned' # Pending
              THEN stack'[k].at \in Sites(source, {"call"}) /\ First(stack'[k], stack'[k].at)
              ELSE stack'[k].at = NoSite
  <2>1. CASE k = L + 1
    <3>1. ~(k < Len(stack')) /\ returned' = Pending  BY <1>1, <1>2, <1>3, <1>9, <2>1
    <3> QED  BY <1>6, <1>9, <2>1, <3>1
  <2>2. CASE k = L
    <3>1. k < Len(stack')  BY <1>1, <1>9, <2>2
    <3>2. First(stack'[L], s)  BY <1>3, <1>11 DEF First, Left
    <3> QED  BY <1>4, <1>11, <2>2, <3>1, <3>2
  <2>3. CASE k # L + 1 /\ k # L
    <3>1. k \in DOMAIN stack /\ k < L /\ stack'[k] = stack[k]  BY <1>9, <1>11, <1>k, <2>3
    <3>2. stack[k].at \in Sites(source, {"call"}) /\ First(stack[k], stack[k].at)
      BY <3>1 DEF RunInv, AtCalls, Waits
    <3>3. k < Len(stack')  BY <1>1, <1>9, <3>1
    <3> QED  BY <3>1, <3>2, <3>3
  <2> QED  BY <2>1, <2>2, <2>3
<1>14. ASSUME NEW k \in DOMAIN stack', NEW m \in DOMAIN stack', k < m, NEW ns \in SUBSET Names(source),
              Closed(source, ns), CalleeOf(source, stack'[k].at) \in ns
       PROVE  source.funs[stack'[m].fun].name \in ns
  <2>0. k # L + 1  BY <1>1, <1>9, <1>14
  <2>a. Reaching  BY DEF RunInv
  <2>1. CASE k = L
    <3>1. m = L + 1  BY <1>1, <1>9, <1>14, <2>1
    <3> QED  BY <1>5, <1>6, <1>9, <1>11, <1>14, <2>1, <3>1
  <2>2. CASE k # L
    <3>1. k \in DOMAIN stack /\ k < L /\ stack'[k] = stack[k]  BY <1>9, <1>11, <1>k, <2>0, <2>2
    <3>2. CalleeOf(source, stack[k].at) \in ns  BY <1>14, <3>1
    <3>3. \A l \in DOMAIN stack : k < l => source.funs[stack[l].fun].name \in ns
      BY <1>14, <2>a, <3>1, <3>2 DEF Reaching
    <3>4. CASE m = L + 1
      <4>1. source.funs[Top.fun].name \in ns  BY <1>1, <3>1, <3>3
      <4>2. s[1] = Top.fun  BY <1>3 DEF SitesOf
      <4>3. CalleeOf(source, s) \in ns  BY <1>4, <1>14, <4>1, <4>2 DEF Closed
      <4> QED  BY <1>5, <1>6, <1>9, <3>4, <4>3
    <3>5. CASE m # L + 1
      <4>1. m \in DOMAIN stack /\ stack'[m].fun = stack[m].fun  BY <1>1, <1>9, <1>11, <1>k, <3>5
      <4> QED  BY <1>14, <3>3, <4>1
    <3> QED  BY <3>4, <3>5
  <2> QED  BY <2>1, <2>2
<1>15. StoredKept'
  <2>1. source' = source /\ text' = text /\ globals' = globals  BY <1>2 DEF vars
  <2> SUFFICES ASSUME NEW k \in DOMAIN stack',
                      NEW r \in (SitesOf(source, stack'[k].fun) \ DOMAIN stack'[k].vals) \ {stack'[k].at},
                      NEW i \in Stores(text, r), Kid(r, i) \in DOMAIN stack'[k].vals
               PROVE  /\ Param(CalleeOf(source, r), i) \in DOMAIN globals
                      /\ globals[Param(CalleeOf(source, r), i)] = stack'[k].vals[Kid(r, i)]
    <3>1. \A j : SitesOf(text', j) = SitesOf(source, j)  BY <1>1, <2>1, TextSites DEF Ran
    <3> QED  BY <2>1, <3>1 DEF StoredKept, Left
  <2>2. k # L + 1  BY <1>6, <1>9
  <2>3. k \in DOMAIN stack /\ stack'[k].fun = stack[k].fun /\ stack'[k].vals = stack[k].vals
    BY <1>1, <1>9, <1>11, <1>k, <2>2
  <2>4. r # stack[k].at
    <3>1. CASE k = L
      <4>1. r = <<r[1], r[2]>>  BY <1>1, Children DEF SitesOf
      <4>2. <<r[1], r[2]>> # NoSite  BY DEF NoSite
      <4>3. stack[k].at = NoSite  BY <1>1, <1>3, <3>1
      <4> QED  BY <4>1, <4>2, <4>3
    <3>2. CASE k # L  BY <1>9, <1>11, <1>k, <2>2, <3>2
    <3> QED  BY <3>1, <3>2
  <2>5. r \in Left(stack[k])  BY <1>1, <2>3, TextSites DEF Left, Ran
  <2> QED  BY <2>3, <2>4, <2>5 DEF RunInv, StoredKept
<1>16. globals' = [g \in DOMAIN globals' |-> globals'[g]]  BY <1>2, GlobalsStay
<1> QED  BY <1>2, <1>10, <1>12, <1>13, <1>14, <1>15, <1>16, RunStep

\* The running function returns.
LEMMA LeaveKeeps ==
  ASSUME RunInv, NEW s, Leave(s)
  PROVE  RunInv'
<1> DEFINE L == Len(stack)
<1>1. /\ L \in DOMAIN stack /\ DOMAIN stack = 1..L /\ L \in Nat
      /\ Ran /\ \A k \in DOMAIN stack : InOrder(stack[k])
  BY StackFrames DEF Leave, Turn
<1>2. /\ Turn(s) /\ UNCHANGED <<vars, trace>> /\ returned' # Pending
      /\ globals' = Stored(s) /\ stack' = SubSeq(stack, 1, L - 1)
  BY DEF Leave, Pending
<1>3. /\ stack' \in Seq({stack[k] : k \in DOMAIN stack}) /\ DOMAIN stack' = 1..(L - 1) /\ Len(stack') = L - 1
      /\ \A k \in 1..(L - 1) : stack'[k] = stack[k] /\ k \in DOMAIN stack /\ k < L
  <2>1. stack \in Seq({stack[k] : k \in DOMAIN stack})  BY DEF RunInv
  <2>2. \A k \in 1..(L - 1) : k \in DOMAIN stack /\ k < L  BY <1>1
  <2> QED  BY <1>1, <1>2, <2>1, <2>2
<1>4. stack' \in Seq({stack'[k] : k \in DOMAIN stack'})
  <2> DEFINE q == stack'
  <2>1. q \in Seq({stack[k] : k \in DOMAIN stack})  BY <1>3
  <2> HIDE DEF q
  <2>2. q \in Seq({q[k] : k \in DOMAIN q})  BY <2>1, OwnMembers
  <2> QED  BY <2>2 DEF q
<1>5. globals' = [g \in DOMAIN globals' |-> globals'[g]]
  <2>1. globals' = globals \/ \E x, v : globals' = With(globals, x, v)  BY <1>2 DEF Stored
  <2> QED  BY <2>1, GlobalsStay
<1>6. \A k \in DOMAIN stack' : InOrder(stack'[k])  BY <1>1, <1>3
<1>7. ASSUME NEW k \in DOMAIN stack'
      PROVE  stack'[k].at \in Sites(source, {"call"}) /\ First(stack'[k], stack'[k].at)
  BY <1>3 DEF RunInv, AtCalls, Waits
<1>8. ASSUME NEW k \in DOMAIN stack', NEW m \in DOMAIN stack', k < m, NEW ns \in SUBSET Names(source),
             Closed(source, ns), CalleeOf(source, stack'[k].at) \in ns
      PROVE  source.funs[stack'[m].fun].name \in ns
  <2>1. k \in DOMAIN stack /\ m \in DOMAIN stack /\ stack'[k] = stack[k] /\ stack'[m] = stack[m]
    BY <1>3
  <2>2. CalleeOf(source, stack[k].at) \in ns  BY <1>8, <2>1
  <2>3. source.funs[stack[m].fun].name \in ns  BY <1>8, <2>1, <2>2 DEF RunInv, Reaching
  <2> QED  BY <2>1, <2>3
<1>9. StoredKept'
  <2>1. source' = source /\ text' = text  BY <1>2 DEF vars
  <2> SUFFICES ASSUME NEW k \in DOMAIN stack',
                      NEW r \in (SitesOf(source, stack'[k].fun) \ DOMAIN stack'[k].vals) \ {stack'[k].at},
                      NEW i \in Stores(text, r), Kid(r, i) \in DOMAIN stack'[k].vals
               PROVE  /\ Param(CalleeOf(source, r), i) \in DOMAIN globals'
                      /\ globals'[Param(CalleeOf(source, r), i)] = stack'[k].vals[Kid(r, i)]
    <3>1. \A j : SitesOf(text', j) = SitesOf(source, j)  BY <1>1, <2>1, TextSites DEF Ran
    <3> QED  BY <2>1, <3>1 DEF StoredKept, Left
  <2> DEFINE g == Param(CalleeOf(source, r), i)
  <2>2. k \in DOMAIN stack /\ stack'[k] = stack[k]  BY <1>3
  <2>3. r \in Left(stack[k]) \ {stack[k].at}  BY <1>1, <2>2, TextSites DEF Left, Ran
  <2>4. g \in DOMAIN globals /\ globals[g] = stack'[k].vals[Kid(r, i)]
    BY <2>2, <2>3 DEF RunInv, StoredKept
  <2>5. i \in Nat \ {0}
    <3>1. InOrder(stack[k]) /\ Kid(r, i) \in DOMAIN stack[k].vals  BY <1>1, <2>2
    <3>2. r \in DOMAIN source.nodes /\ Kid(r, i) \in DOMAIN source.nodes
      BY <2>2, <3>1 DEF InOrder, SitesOf
    <3> QED  BY <1>1, <3>2, Children
  <2>6. \A n : g # ResultOf(n)  BY <2>5 DEF Param, ResultOf
  <2> HIDE DEF g
  <2>7. CASE globals' = globals  BY <2>4, <2>7 DEF g
  <2>8. CASE globals' # globals
    <3>1. PICK n, v : globals' = With(globals, ResultOf(n), v)  BY <1>2, <2>8 DEF Stored
    <3>2. g \in DOMAIN globals' /\ globals'[g] = globals[g]  BY <2>4, <2>6, <3>1 DEF With
    <3> QED  BY <2>4, <3>2 DEF g
  <2> QED  BY <2>7, <2>8
<1> QED  BY <1>2, <1>4, <1>5, <1>6, <1>7, <1>8, <1>9, RunStep

\* A function is called from elsewhere.
LEMMA BeginKeeps ==
  ASSUME RunInv, NEW j \in DOMAIN text.funs, Begin(j)
  PROVE  RunInv'
<1> DEFINE f == text.funs[j]
           as == [i \in DOMAIN f.params |-> Argument(i)]
           gs == [g \in {Param(f.name, i) : i \in Hoisted(f)} |-> Argument(g[2])]
           new == Frame(j, Loaded(f, gs, as))
<1>1. /\ stack' = <<new>> /\ globals' = gs /\ stack = <<>> /\ returned = Pending
      /\ UNCHANGED <<vars, trace, returned>>
  BY DEF Begin
<1>2. j \in DOMAIN source.funs  BY StackFrames, TextFuns DEF Ran
<1>3. /\ new.fun = j /\ new.at = NoSite /\ DOMAIN new.vals = {}
      /\ new = [fun |-> new.fun, args |-> new.args, vals |-> [x \in DOMAIN new.vals |-> new.vals[x]], at |-> new.at]
  BY DEF Frame
<1> HIDE DEF new, gs
<1>4. DOMAIN stack' = {1} /\ stack'[1] = new /\ Len(stack') = 1 /\ stack' \in Seq({new})  BY <1>1
<1>5. stack' \in Seq({stack'[k] : k \in DOMAIN stack'})  BY <1>4, OwnMembers
<1>6. globals' = [g \in DOMAIN globals' |-> globals'[g]]  BY <1>1 DEF gs
<1>7. \A k \in DOMAIN stack' : InOrder(stack'[k])  BY <1>2, <1>3, <1>4 DEF InOrder
<1>8. \A k \in DOMAIN stack' : ~(k < Len(stack') \/ returned' # Pending) /\ stack'[k].at = NoSite
  BY <1>1, <1>3, <1>4
<1>9. \A k, m \in DOMAIN stack' : ~(k < m)  BY <1>4
<1>10. StoredKept'  BY <1>3, <1>4 DEF StoredKept
<1> QED  BY <1>1, <1>5, <1>6, <1>7, <1>8, <1>9, <1>10, RunStep

\* An attempt takes no call out of the text if one of its arguments calls the
\* same function: it rejects such a group.
LEMMA UntangledStays ==
  ASSUME IInv, Untangled, [Next]_vars
  PROVE  Untangled'
<1>1. CFile(source) /\ Supported(source, option) /\ TextNow /\ Started  BY DEF IInv
<1>2. source' = source  BY DEF Next, vars, WrapExternalCalls, RewriteFunctions, Rewriting, Fail, RetriesExhausted
<1> SUFFICES ASSUME NEW s \in Sites(source, {"call"}), NEW r \in Sites(source, {"call"}),
                    Around(s, r), CalleeOf(source, s) = CalleeOf(source, r),
                    text'.nodes[s].k \in {"hoisted", "wrapped"}
             PROVE  FALSE
  BY <1>2 DEF Untangled
<1>3. text.nodes[s].k \notin {"hoisted", "wrapped"}  BY DEF Untangled
<1>4. /\ s \in DOMAIN source.nodes /\ r \in DOMAIN source.nodes /\ DOMAIN text.nodes = DOMAIN source.nodes
      /\ source.nodes[s].k = "call" /\ source.nodes[r].k = "call" /\ source.nodes[s].of = source.nodes[r].of
      /\ CalleeOf(text, s) = CalleeOf(text, r) /\ s[1] = r[1] /\ s # r
      /\ text.nodes[s].k = text.nodes[r].k
  <2>1. s \in DOMAIN source.nodes /\ r \in DOMAIN source.nodes /\ source.nodes[s].k = "call" /\ source.nodes[r].k = "call"
        /\ source.nodes[s].of = source.nodes[r].of
    BY DEF Sites, CalleeOf
  <2>2. FormNow(s) = FormNow(r)  BY <2>1 DEF FormNow
  <2>3. s[1] = r[1] /\ s # r
    <3>1. s[2] \in Seq(Nat \ {0})  BY <1>1, <2>1, SourceNodes
    <3>2. ~Inside(s[2], s[2])  BY <3>1 DEF Inside
    <3> QED  BY <3>2 DEF Around
  <2>4. /\ DOMAIN text.nodes = DOMAIN source.nodes
        /\ text.nodes[s].k = FormNow(s) /\ text.nodes[r].k = FormNow(r)
        /\ CalleeOf(text, s) = CalleeOf(source, s) /\ CalleeOf(text, r) = CalleeOf(source, r)
    BY <1>1, <2>1, TextNodes
  <2>5. CalleeOf(source, s) = CalleeOf(source, r)  OBVIOUS
  <2> QED  BY <2>1, <2>2, <2>3, <2>4, <2>5
<1>5. text' # text  BY <1>3
<1>6. ASSUME NEW n \in Wanted(text), text' = WithWrapper(n), ~Rejected(text)  PROVE FALSE
  <2>1. text'.nodes[s] = [text.nodes[s] EXCEPT !.k = IF s \in Made(ExternalGroup(text, n)) THEN "wrapped" ELSE @]
    BY <1>1, <1>4, <1>6 DEF WithWrapper, TextNow
  <2>2. s \in ExternalGroup(text, n)
    <3> SUFFICES ASSUME s \notin Made(ExternalGroup(text, n))  PROVE FALSE  BY DEF Made
    <3> QED  BY <1>1, <1>3, <1>4, <2>1, TextNodes
  <2>3. s \in External(text) /\ CalleeOf(text, s) = n
    <3>1. s # Above  BY <1>1, <1>4, SourceNodes, SourceFuns DEF Above
    <3> QED  BY <2>2, <3>1 DEF ExternalGroup
  <2>4. r \in External(text)
    BY <1>4, <2>3 DEF External, Visited, Sites, InHelper, Known
  <2>5. r \in ExternalGroup(text, n)  BY <1>4, <2>3, <2>4 DEF ExternalGroup
  <2>6. SelfOverlap(ExternalGroup(text, n))  BY <2>2, <2>5 DEF SelfOverlap, Overlap
  <2> QED  BY <1>6, <2>6 DEF Rejected
<1>7. ASSUME NEW js \in SUBSET Groups, text' = WithOurs(UNION {OurGroups(text)[j] : j \in js}), ~Rejected(text)
      PROVE  FALSE
  <2> DEFINE edits == UNION {OurGroups(text)[j] : j \in js}
  <2>1. text'.nodes[s] = [text.nodes[s] EXCEPT !.k = IF s \in Made(edits) THEN NewForm(s) ELSE @]
    BY <1>1, <1>4, <1>7 DEF WithOurs, TextNow
  <2>2. s \in edits
    <3> SUFFICES ASSUME s \notin Made(edits)  PROVE FALSE  BY DEF Made
    <3> QED  BY <1>1, <1>3, <1>4, <2>1, TextNodes
  <2>3. PICK j \in js : s \in OurGroups(text)[j]  BY <2>2
  <2>4. j \in DOMAIN OurGroups(text) /\ OurGroups(text)[j] = OurGroup(text, j) /\ j \in DOMAIN source.funs
    BY <1>1, TextFuns DEF Groups, OurGroups
  <2>5. s \in Calls(text, j)
    <3>1. s \in Places(text, j) \/ s = Proto(j)  BY <2>3, <2>4 DEF OurGroup
    <3>2. s # Proto(j) /\ s # HeadOf(j)
      <4>1. s[2] # <<>>  BY <1>1, <1>4 DEF CFile, Sites
      <4> QED  BY <1>1, <1>4, <2>4, <4>1, HeadsApart
    <3>3. s \notin Returns(text, j)
      <4>1. text.nodes[s].k \in CallKinds  BY <1>1, <1>4, TextForms
      <4> QED  BY <4>1 DEF Returns, Sites, CallKinds
    <3> QED  BY <3>1, <3>2, <3>3 DEF Places
  <2>6. r \in Calls(text, j)
    BY <1>4, <2>5 DEF Calls, Visited, Sites, InHelper, Known
  <2>7. SelfOverlap(OurGroup(text, j))
    <3>1. s \in OurGroup(text, j) /\ r \in OurGroup(text, j)  BY <2>5, <2>6 DEF OurGroup, Places
    <3> QED  BY <3>1 DEF SelfOverlap, Overlap
  <2> QED  BY <1>7, <2>4, <2>7 DEF Rejected
<1>8. CASE WrapExternalCalls  BY <1>6, <1>8 DEF WrapExternalCalls
<1>9. CASE RewriteFunctions
  <2>1. PICK js \in SUBSET Groups : Rewriting(js)  BY <1>9 DEF RewriteFunctions
  <2> QED  BY <1>7, <2>1 DEF Rewriting
<1>10. CASE Fail \/ RetriesExhausted \/ UNCHANGED vars  BY <1>5, <1>10 DEF Fail, RetriesExhausted, vars
<1> QED  BY <1>8, <1>9, <1>10 DEF Next

\* A run begins with an empty stack.
LEMMA InitRunInv ==
  ASSUME RunInit, Supported(source, option)
  PROVE  RunInv
<1>1. IInv  BY InitIInv DEF RunInit
<1>2. Runnable(source) /\ NonReentrant(source)  BY RunsAssumption DEF RunInit, Init
<1>3. text = source /\ stack = <<>> /\ globals = [g \in {} |-> Nothing]  BY DEF RunInit, Init
<1>4. Untangled
  <2> SUFFICES ASSUME NEW s \in Sites(source, {"call"})  PROVE text.nodes[s].k \notin {"hoisted", "wrapped"}
    BY DEF Untangled
  <2> QED  BY <1>3 DEF Sites
<1>5. DOMAIN stack = {} /\ stack \in Seq({stack[k] : k \in DOMAIN stack})
  <2>1. stack \in Seq({stack})  BY <1>3
  <2>2. stack \in Seq({stack[k] : k \in DOMAIN stack})  BY <2>1, OwnMembers
  <2> QED  BY <1>3, <2>2
<1>6. globals = [g \in DOMAIN globals |-> globals[g]]  BY <1>3
<1> QED  BY <1>1, <1>2, <1>4, <1>5, <1>6 DEF RunInv, AtCalls, Reaching, StoredKept

\* Every step keeps the invariant.
LEMMA RunKeeps ==
  ASSUME RunInv, [RunNext]_<<vars, runvars>>
  PROVE  RunInv'
<1>1. CASE PassStep
  <2>1. stack = <<>> /\ [Next]_vars /\ UNCHANGED <<stack, globals, trace, returned>>
    BY <1>1 DEF PassStep, runvars
  <2>2. source' = source
    BY <1>1 DEF PassStep, Next, vars, WrapExternalCalls, RewriteFunctions, Rewriting, Fail, RetriesExhausted
  <2>3. IInv /\ Untangled /\ Runnable(source) /\ NonReentrant(source)  BY DEF RunInv
  <2>4. IInv' /\ Untangled'  BY <2>1, <2>3, NextKeeps, UntangledStays
  <2>5. Runnable(source)' /\ NonReentrant(source)'  BY <2>2, <2>3
  <2>6. DOMAIN stack' = {}  BY <2>1
  <2>7. stack' \in Seq({stack'[k] : k \in DOMAIN stack'}) /\ globals' = [g \in DOMAIN globals' |-> globals'[g]]
    BY <2>1 DEF RunInv
  <2> QED  BY <2>4, <2>5, <2>6, <2>7 DEF RunInv, AtCalls, Reaching, StoredKept
<1>2. ASSUME NEW j \in DOMAIN text.funs, Begin(j)  PROVE RunInv'  BY <1>2, BeginKeeps
<1>3. ASSUME NEW s, Turn(s), text.nodes[s].k \in Leaves \cup CallKinds
      PROVE  /\ stack # <<>> /\ First(Top, s) /\ Top.at \in {NoSite, s}
             /\ source.nodes[s].k \notin {"return", "body"} /\ returned = Pending
  <2>1. Ran  BY StackFrames
  <2>2. s \in DOMAIN source.nodes /\ stack # <<>> /\ First(Top, s) /\ Top.at = NoSite /\ returned = Pending
    BY <1>3, TurnSite
  <2>3. source.nodes[s].k \notin {"return", "body"}
    BY <1>3, <2>1, <2>2, TextForms DEF Ran, Leaves, CallKinds
  <2> QED  BY <2>2, <2>3
<1>4. ASSUME NEW s, EvaluateLeaf(s)  PROVE RunInv'
  BY <1>3, <1>4, SettleKeeps DEF EvaluateLeaf
<1>5. ASSUME NEW s, CallOutside(s)  PROVE RunInv'
  BY <1>3, <1>5, SettleKeeps DEF CallOutside, IsCall
<1>6. ASSUME NEW s, Enter(s)  PROVE RunInv'  BY <1>6, EnterKeeps
<1>7. ASSUME NEW s, EnterTooDeep(s)  PROVE RunInv'
  BY <1>3, <1>7, SettleKeeps DEF EnterTooDeep, IsCall
<1>8. ASSUME NEW s, Leave(s)  PROVE RunInv'  BY <1>8, LeaveKeeps
<1>9. CASE Receive
  <2>1. stack # <<>> /\ returned # Pending /\ UNCHANGED vars /\ returned' = Pending
    BY <1>9 DEF Receive
  <2>2. PICK v : Settle(Top.at, v)  BY <1>9 DEF Receive
  <2>3. Top.at \in Sites(source, {"call"}) /\ First(Top, Top.at)
    BY <2>1, StackFrames DEF RunInv, AtCalls, Waits, Top
  <2>4. source.nodes[Top.at].k \notin {"return", "body"}  BY <2>3 DEF Sites
  <2> QED  BY <2>1, <2>2, <2>3, <2>4, SettleKeeps
<1>10. CASE UNCHANGED <<vars, runvars>>
  <2>1. UNCHANGED <<vars, stack, globals, trace, returned>>  BY <1>10 DEF runvars
  <2>2. IInv' /\ Runnable(source)' /\ NonReentrant(source)' /\ Untangled'  BY <2>1, TextStays
  <2>3. source' = source /\ text' = text  BY <2>1 DEF vars
  <2>4. AtCalls' /\ Reaching' /\ StoredKept'
    BY <2>1, <2>3 DEF RunInv, AtCalls, Reaching, StoredKept, Waits, First, Left
  <2>5. (\A k \in DOMAIN stack : InOrder(stack[k]))'  BY <2>1, <2>3 DEF RunInv, InOrder
  <2> QED  BY <2>1, <2>2, <2>4, <2>5 DEF RunInv
<1> QED  BY <1>1, <1>2, <1>4, <1>5, <1>6, <1>7, <1>8, <1>9, <1>10 DEF RunNext

\* A run keeps the invariant, whatever the pass has done to the text.
THEOREM RunInvariance == RunSpec /\ Supported(source, option) => []RunInv
<1>1. RunInit /\ Supported(source, option) => RunInv  BY InitRunInv
<1>2. RunInv /\ [RunNext]_<<vars, runvars>> => RunInv'  BY RunKeeps
<1> QED  BY <1>1, <1>2, PTL DEF RunSpec

-----------------------------------------------------------------------------
(* A run of the text is one of the source.                                 *)

\* What is evaluated next in the text can be evaluated next in the source.
LEMMA TurnIsReady ==
  ASSUME RunInv, NEW s, Turn(s)
  PROVE  InC!Ready(s)
<1>1. /\ stack # <<>> /\ returned = Pending
      /\ s \in SitesOf(source, Top.fun) /\ s \in DOMAIN source.nodes /\ s \notin DOMAIN Top.vals
      /\ \A r \in SitesOf(source, Top.fun) : Sooner(text, r, s) => r \in DOMAIN Top.vals
  BY TurnSite
<1>2. Ran  BY StackFrames
<1>3. \A i \in 1..source.nodes[s].n : Kid(s, i) \in DOMAIN Top.vals
  <2> TAKE i \in 1..source.nodes[s].n
  <2>1. Kid(s, i) \in SitesOf(source, Top.fun) /\ i \in Nat \ {0} /\ s[2] \in Seq(Nat \ {0})
    BY <1>1, <1>2, Children DEF SitesOf
  <2>2. Sooner(text, Kid(s, i), s)  BY <2>1, KidSite
  <2> QED  BY <1>1, <2>1, <2>2
<1>4. ASSUME NEW r \in SitesOf(source, Top.fun), r[2] # <<>>, s[2] # <<>>, r[2][1] < s[2][1]
      PROVE  r \in DOMAIN Top.vals
  <2>1. /\ r \in DOMAIN source.nodes /\ r[2] \in Seq(Nat \ {0}) /\ s[2] \in Seq(Nat \ {0}) /\ r[1] = s[1]
    BY <1>1, <1>2, Children DEF SitesOf
  <2>2. Len(r[2]) \in Nat /\ Len(s[2]) \in Nat /\ Len(r[2]) # 0 /\ Len(s[2]) # 0  BY <1>4, <2>1
  <2>3. 1 \in (DOMAIN r[2]) \cap (DOMAIN s[2])  BY <2>1, <2>2
  <2> DEFINE root == <<r[1], SubSeq(r[2], 1, 1 - 1)>>
  <2>4. root \in DOMAIN source.nodes /\ root[2] = <<>>
    <3>1. root \in DOMAIN source.nodes  BY <1>2, <2>1, <2>3 DEF Ran, Runnable
    <3>2. SubSeq(r[2], 1, 1 - 1) = <<>>  BY <2>1
    <3> QED  BY <3>1, <3>2
  <2>5. Stores(text, root) = {}
    <3>1. source.nodes[root].k = "body"  BY <1>2, <2>4, Children
    <3> QED  BY <1>2, <2>4, <3>1, StoresOf DEF Ran, Sites
  <2>6. OperandSooner(text, root, r[2][1], s[2][1])  BY <1>4, <2>5 DEF OperandSooner
  <2>7. \A m \in 1..(1 - 1) : r[2][m] = s[2][m]  OBVIOUS
  <2>8. Sooner(text, r, s)  BY <2>3, <2>6, <2>7 DEF Sooner
  <2> QED  BY <1>1, <2>8
<1>5. SourceReturned = Pending  BY <1>1 DEF SourceReturned
<1> QED  BY <1>1, <1>3, <1>4, <1>5 DEF InC!Ready, InC!Top, Top, InC!SitesOf, SitesOf, InC!Kid, Kid, InC!Pending, Pending

\* When a call begins every stored argument is in its global.
LEMMA ArgumentsArrive ==
  ASSUME RunInv, NEW s, Turn(s), NEW i \in Stores(text, s), i \in 1..source.nodes[s].n
  PROVE  globals[Param(CalleeOf(source, s), i)] = Top.vals[Kid(s, i)]
<1>1. /\ stack # <<>> /\ s \in Left(Top) /\ s \in SitesOf(source, Top.fun) /\ s \in DOMAIN source.nodes /\ Top.at = NoSite
      /\ \A r \in SitesOf(source, Top.fun) : Sooner(text, r, s) => r \in DOMAIN Top.vals
  BY TurnSite
<1>2. Ran /\ Len(stack) \in DOMAIN stack  BY <1>1, StackFrames
<1>3. Kid(s, i) \in DOMAIN Top.vals
  <2>1. Kid(s, i) \in SitesOf(source, Top.fun) /\ i \in Nat \ {0} /\ s[2] \in Seq(Nat \ {0})
    BY <1>1, <1>2, Children DEF SitesOf
  <2>2. Sooner(text, Kid(s, i), s)  BY <2>1, KidSite
  <2> QED  BY <1>1, <2>1, <2>2
<1>4. s # Top.at
  <2>1. s = <<s[1], s[2]>>  BY <1>1, <1>2, Children
  <2>2. <<s[1], s[2]>> # NoSite  BY DEF NoSite
  <2> QED  BY <1>1, <2>1, <2>2
<1>5. StoredKept  BY DEF RunInv
<1> QED  BY <1>1, <1>2, <1>3, <1>4, <1>5 DEF StoredKept, Top

\* What a call is given is what the source gives it.
LEMMA GivenTheSame ==
  ASSUME Ran, NEW s \in DOMAIN source.nodes, NEW f
  PROVE  /\ GivenAt(text, s, f) = GivenAt(source, s, f)
         /\ GivenAt(source, s, f) = [i \in 1..source.nodes[s].n |-> f.vals[Kid(s, i)]]
BY TextForms DEF Ran, GivenAt

\* A called function of the file gets its arguments, whichever way they come.
LEMMA EnteredTheSame ==
  ASSUME RunInv, NEW s, Turn(s), IsCall(s), InFile(s)
  PROVE  /\ Entered(s) = GivenAt(source, s, Top)
         /\ Callee(s) = TheFun(source, CalleeOf(source, s)) /\ CalleeOf(text, s) = CalleeOf(source, s)
         /\ source.nodes[s].k = "call" /\ Defs(source, CalleeOf(source, s)) # {}
<1>1. s \in DOMAIN source.nodes /\ Ran  BY TurnSite, StackFrames
<1>2. CalleeOf(text, s) = CalleeOf(source, s)  BY <1>1, TextNodes DEF Ran
<1>3. Defs(source, CalleeOf(source, s)) # {}  BY <1>1, <1>2, TextSites DEF InFile, Ran
<1>4. source.nodes[s].k = "call"  BY <1>1, TextForms DEF Ran, IsCall, Leaves, CallKinds
<1>5. Callee(s) = TheFun(source, CalleeOf(source, s))  BY <1>1, <1>2, TextSites DEF Callee, Ran
<1> DEFINE j == Callee(s)
           n == CalleeOf(source, s)
           as == GivenAt(source, s, Top)
<1>6. j \in DOMAIN source.funs /\ source.funs[j].name = n /\ Hoisted(text.funs[j]) \subseteq Stores(text, s)
  BY <1>1, <1>3, <1>4, <1>5, FileCalls DEF Sites, Ran
<1>7. text.funs[j].name = n  BY <1>1, <1>6, TextFuns DEF Ran
<1>8. as = [i \in 1..source.nodes[s].n |-> Top.vals[Kid(s, i)]]  BY <1>1, GivenTheSame
<1>9. Entered(s) = Loaded(text.funs[j], globals, as)  BY <1>1, GivenTheSame DEF Entered
<1> HIDE DEF as, j, n
<1>10. Entered(s) = [i \in DOMAIN as |-> IF i \in Hoisted(text.funs[j]) THEN globals[Param(n, i)] ELSE as[i]]
  BY <1>7, <1>9 DEF Loaded
<1>11. ASSUME NEW i \in DOMAIN as, i \in Hoisted(text.funs[j])  PROVE globals[Param(n, i)] = as[i]
  BY <1>6, <1>8, <1>11, ArgumentsArrive DEF n
<1>12. as = [i \in DOMAIN as |-> as[i]]  BY <1>8
<1>13. Entered(s) = as  BY <1>10, <1>11, <1>12
<1> QED  BY <1>2, <1>3, <1>4, <1>5, <1>13 DEF as

\* So does an external function.
LEMMA HandedOverTheSame ==
  ASSUME RunInv, NEW s, Turn(s), IsCall(s), ~InFile(s)
  PROVE  /\ HandedOver(s) = GivenAt(source, s, Top)
         /\ CalleeOf(text, s) = CalleeOf(source, s)
         /\ source.nodes[s].k = "call" /\ Defs(source, CalleeOf(source, s)) = {}
<1>1. s \in DOMAIN source.nodes /\ Ran  BY TurnSite, StackFrames
<1>2. CalleeOf(text, s) = CalleeOf(source, s)  BY <1>1, TextNodes DEF Ran
<1>3. Defs(source, CalleeOf(source, s)) = {}  BY <1>1, <1>2, TextSites DEF InFile, Ran
<1>4. source.nodes[s].k = "call"  BY <1>1, TextForms DEF Ran, IsCall, Leaves, CallKinds
<1> DEFINE n == CalleeOf(source, s)
           as == GivenAt(source, s, Top)
<1>8. as = [i \in 1..source.nodes[s].n |-> Top.vals[Kid(s, i)]]  BY <1>1, GivenTheSame
<1>9. HandedOver(s) = [i \in DOMAIN as |-> IF i \in Stores(text, s) THEN globals[Param(n, i)] ELSE as[i]]
  BY <1>1, <1>2, GivenTheSame DEF HandedOver
<1> HIDE DEF as, n
<1>11. ASSUME NEW i \in DOMAIN as, i \in Stores(text, s)  PROVE globals[Param(n, i)] = as[i]
  BY <1>8, <1>11, ArgumentsArrive DEF n
<1>12. as = [i \in DOMAIN as |-> as[i]]  BY <1>8
<1>13. HandedOver(s) = as  BY <1>9, <1>11, <1>12
<1> QED  BY <1>2, <1>3, <1>4, <1>13 DEF as

\* Calls from elsewhere pass their arguments the way the function takes them.
LEMMA BeginInC ==
  ASSUME RunInv, NEW j \in DOMAIN text.funs, Begin(j)
  PROVE  j \in DOMAIN source.funs /\ InC!Begin(j)
<1> DEFINE f == text.funs[j]
           as == [i \in DOMAIN f.params |-> Argument(i)]
           gs == [g \in {Param(f.name, i) : i \in Hoisted(f)} |-> Argument(g[2])]
<1>1. /\ stack = <<>> /\ returned = Pending /\ stack' = <<Frame(j, Loaded(f, gs, as))>>
      /\ UNCHANGED <<vars, trace, returned>>
  BY DEF Begin
<1>2. j \in DOMAIN source.funs /\ f.params = source.funs[j].params  BY StackFrames, TextFuns DEF Ran
<1>3. Loaded(f, gs, as) = as
  <2>1. Loaded(f, gs, as) =
          [i \in DOMAIN as |-> IF i \in Hoisted(f) THEN gs[Param(f.name, i)] ELSE as[i]]
    BY DEF Loaded
  <2>2. ASSUME NEW i \in Hoisted(f)  PROVE gs[Param(f.name, i)] = as[i]
    <3>1. i \in DOMAIN f.params /\ Param(f.name, i)[2] = i  BY DEF Hoisted, Param
    <3>2. gs[Param(f.name, i)] = Argument(Param(f.name, i)[2])  OBVIOUS
    <3>3. as[i] = Argument(i)  BY <3>1
    <3> QED  BY <3>1, <3>2, <3>3
  <2> DEFINE as2 == as
  <2> HIDE DEF gs
  <2> QED  BY <2>1, <2>2
<1>4. SourceReturned = Pending /\ SourceReturned' = Pending  BY <1>1 DEF SourceReturned
<1>5. stack' = <<InC!Frame(j, [i \in DOMAIN source.funs[j].params |-> InC!Argument(i)])>>
  BY <1>1, <1>2, <1>3 DEF Frame, InC!Frame, Argument, InC!Argument, NoSite, InC!NoSite, Nothing, InC!Nothing
<1>6. source' = source /\ trace' = trace  BY <1>1 DEF vars
<1> QED  BY <1>1, <1>2, <1>4, <1>5, <1>6 DEF InC!Begin, InC!Pending, Pending

\* What a function returns to its caller, directly or through its global.
LEMMA LeaveInC ==
  ASSUME RunInv, NEW s, Leave(s)
  PROVE  s \in DOMAIN source.nodes /\ InC!Leave(s)
<1> DEFINE j == Top.fun
           k == text.nodes[s].k
           n == source.nodes[s].n
           v == Top.vals[Kid(s, 1)]
           w == IF k = "return" /\ text.nodes[s].n = 1 THEN v ELSE Nothing
           u == IF source.nodes[s].k = "return" /\ n = 1 THEN v ELSE Nothing
<1>1. /\ Turn(s) /\ k \in {"return", "store", "zero", "body"} /\ globals' = Stored(s)
      /\ returned' = <<j, w>>
      /\ stack' = SubSeq(stack, 1, Len(stack) - 1) /\ UNCHANGED <<vars, trace>>
  BY DEF Leave
<1>2. /\ s \in DOMAIN source.nodes /\ s \in SitesOf(source, j) /\ stack # <<>>
      /\ \A r \in SitesOf(source, j) : Sooner(text, r, s) => r \in DOMAIN Top.vals
      /\ Ran /\ Len(stack) \in DOMAIN stack
  BY <1>1, TurnSite, StackFrames
<1>3. InOrder(Top) /\ j \in DOMAIN source.funs /\ s[1] = j  BY <1>2, StackFrames DEF Top, SitesOf
<1>4. /\ source.nodes[s].k \in {"return", "body"} /\ text.nodes[s].n = n
      /\ source.nodes[s].k = "body" <=> k = "body"
      /\ k = FormNow(s)
  BY <1>1, <1>2, TextForms, TextNodes DEF Ran, Leaves, CallKinds
<1>f. source.nodes[s].k = "return" =>
        k = IF j \in Rewritten /\ (IsAgg(source.funs[j].ret) \/ source.funs[j].ret = "void")
            THEN IF n = 0 THEN "zero" ELSE "store" ELSE "return"
  <2> SUFFICES ASSUME source.nodes[s].k = "return"
               PROVE  FormNow(s) = IF j \in Rewritten /\ (IsAgg(source.funs[j].ret) \/ source.funs[j].ret = "void")
                                   THEN IF n = 0 THEN "zero" ELSE "store" ELSE "return"
    BY <1>4
  <2> QED  BY <1>3 DEF FormNow
<1>k. k = "store" \/ k = "return" \/ k = "zero" \/ k = "body"  BY <1>1
<1>5. /\ text.funs[j].ret = source.funs[j].ret /\ text.funs[j].name = source.funs[j].name
      /\ text.funs[j].rewritten = (j \in Rewritten)
  BY <1>2, <1>3, TextFuns DEF Ran
<1>6. HoistsRet(text.funs[j]) <=> j \in Rewritten /\ IsAgg(source.funs[j].ret)  BY <1>5 DEF HoistsRet
<1>7. source.nodes[s].k = "return" => n \in {0, 1} /\ (n = 0 <=> source.funs[j].ret = "void")
  <2>1. source.nodes[s].k = "return" => n \in {0, 1}  BY <1>2 DEF Ran, Runnable
  <2>2. source.nodes[s].k = "return" => (n = 0 <=> source.funs[j].ret = "void")
    BY <1>2, <1>3 DEF Ran, CFile, Sites
  <2> QED  BY <2>1, <2>2
<1>8. source' = source /\ text' = text /\ trace' = trace  BY <1>1 DEF vars
<1>9. SourceReturned' = <<j, IF HoistsRet(text.funs[j]) THEN globals'[ResultOf(text.funs[j].name)] ELSE w>>
  <2>1. returned' # Pending /\ returned'[1] = j /\ returned'[2] = w  BY <1>1 DEF Pending
  <2> QED  BY <1>8, <2>1 DEF SourceReturned, Fetched
<1>10. SourceReturned' = <<j, u>>
  <2>1. CASE k = "store"
    <3>1. /\ source.nodes[s].k = "return" /\ n # 0 /\ j \in Rewritten
          /\ IsAgg(source.funs[j].ret) \/ source.funs[j].ret = "void"
      <4>1. source.nodes[s].k = "return"  BY <1>4, <2>1
      <4> HIDE DEF k, n, j
      <4> QED  BY <1>f, <2>1, <4>1
    <3>2. n = 1 /\ HoistsRet(text.funs[j])  BY <1>6, <1>7, <3>1
    <3>3. globals' = With(globals, ResultOf(text.funs[j].name), v)  BY <1>1, <2>1 DEF Stored
    <3>4. globals'[ResultOf(text.funs[j].name)] = v  BY <3>3 DEF With
    <3> QED  BY <1>9, <3>1, <3>2, <3>4
  <2>2. CASE k = "return"
    <3>1. ~HoistsRet(text.funs[j]) /\ source.nodes[s].k = "return"
      <4>1. source.nodes[s].k = "return"  BY <1>4, <2>2
      <4> HIDE DEF k, n, j
      <4> QED  BY <1>f, <1>6, <2>2, <4>1
    <3> QED  BY <1>4, <1>9, <2>2, <3>1
  <2>3. CASE k = "zero"
    <3>1. source.nodes[s].k = "return" /\ n = 0
      <4>1. source.nodes[s].k = "return"  BY <1>4, <2>3
      <4> HIDE DEF k, n, j
      <4> QED  BY <1>f, <2>3, <4>1
    <3>2. ~HoistsRet(text.funs[j])  BY <1>6, <1>7, <3>1 DEF IsAgg
    <3> QED  BY <1>9, <2>3, <3>1, <3>2
  <2>4. CASE k = "body"
    <3>1. ~HoistsRet(text.funs[j])
      <4> SUFFICES ASSUME HoistsRet(text.funs[j])  PROVE FALSE  OBVIOUS
      <4>1. source.funs[j].ret # "void"  BY <1>6 DEF IsAgg
      <4>2. PICK r \in Sites(source, {"return"}) : r[1] = j /\ Len(r[2]) = 1
        BY <1>2, <1>3, <4>1 DEF Ran, Runnable
      <4>3. r \in DOMAIN source.nodes /\ source.nodes[r].k = "return" /\ r \in SitesOf(source, j)
        BY <4>2 DEF Sites, SitesOf
      <4>4. s[2] = <<>>
        <5>1. source.nodes[s].k = "body"  BY <1>4, <2>4
        <5>2. s[2] = <<>> <=> source.nodes[s].k = "body"  BY <1>2, Children
        <5> QED  BY <5>1, <5>2
      <4>5. Inside(r[2], s[2])
        <5>1. r[2] \in Seq(Nat \ {0})  BY <1>2, <4>3, Children
        <5>2. SubSeq(r[2], 1, 0) = <<>>  BY <5>1
        <5> QED  BY <4>2, <4>4, <5>2 DEF Inside
      <4>6. r \in DOMAIN Top.vals  BY <1>2, <4>3, <4>5 DEF Sooner
      <4> QED  BY <1>3, <4>3, <4>6 DEF InOrder
    <3> QED  BY <1>4, <1>9, <2>4, <3>1
  <2> QED  BY <1>k, <2>1, <2>2, <2>3, <2>4
<1>11. InC!Ready(s)  BY <1>1, TurnIsReady
<1>12. InC!Top = Top  BY DEF InC!Top, Top
<1> HIDE DEF j, k, n, v, w
<1>13. u = IF source.nodes[s].k = "return" /\ source.nodes[s].n = 1 THEN Top.vals[InC!Kid(s, 1)] ELSE InC!Nothing
  BY DEF v, n, InC!Kid, Kid, InC!Nothing, Nothing
<1> HIDE DEF u
<1> QED  BY <1>1, <1>2, <1>4, <1>8, <1>10, <1>11, <1>12, <1>13 DEF InC!Leave, j

\* Every step of a run is a step of the source's, or none.
LEMMA StepInC ==
  ASSUME RunInv, [RunNext]_<<vars, runvars>>
  PROVE  [InC!RunNext]_<<source, stack, trace, SourceReturned>>
<1> USE DEF InC!RunNext
<1>s. ASSUME NEW s, NEW v, Settle(s, v)  PROVE InC!Settle(s, v)
  BY <1>s DEF Settle, InC!Settle, With, InC!With, NoSite, InC!NoSite
<1>t. InC!Top = Top  BY DEF InC!Top, Top
<1>g. ASSUME NEW s  PROVE InC!Given(s) = GivenAt(source, s, Top)
  BY <1>t DEF InC!Given, InC!GivenAt, GivenAt, InC!Kid, Kid
<1>c. ASSUME NEW s
      PROVE  /\ InC!CalleeOf(source, s) = CalleeOf(source, s)
             /\ InC!OfCallee(s) = Defs(source, CalleeOf(source, s))
  BY DEF InC!OfCallee, InC!CalleeOf, CalleeOf, InC!Defs, Defs
<1>1. CASE PassStep \/ UNCHANGED <<vars, runvars>>
  <2>1. UNCHANGED <<source, stack, trace, returned>>
    BY <1>1 DEF PassStep, runvars, vars, Next, WrapExternalCalls, RewriteFunctions, Rewriting, Fail, RetriesExhausted
  <2>2. UNCHANGED SourceReturned
    <3>1. CASE PassStep  BY <2>1, <3>1 DEF PassStep, SourceReturned
    <3>2. CASE UNCHANGED <<vars, runvars>>  BY <3>2 DEF SourceReturned, Fetched, vars, runvars
    <3> QED  BY <1>1, <3>1, <3>2
  <2> QED  BY <2>1, <2>2
<1>2. ASSUME NEW j \in DOMAIN text.funs, Begin(j)  PROVE InC!RunNext  BY <1>2, BeginInC
<1>3. ASSUME NEW s, Turn(s)
      PROVE  InC!Ready(s) /\ s \in DOMAIN source.nodes /\ Ran /\ returned = Pending
  BY <1>3, TurnIsReady, TurnSite, StackFrames
<1>4. ASSUME NEW s, EvaluateLeaf(s)  PROVE InC!RunNext
  <2>1. /\ Turn(s) /\ text.nodes[s].k \in Leaves /\ Settle(s, LeafValue(text, s, Top))
        /\ UNCHANGED <<vars, trace, returned>>
    BY <1>4 DEF EvaluateLeaf
  <2>2. source.nodes[s].k \in Leaves /\ text.nodes[s].k = source.nodes[s].k /\ text.nodes[s].of = source.nodes[s].of
    BY <1>3, <2>1, TextForms DEF Ran, Leaves, CallKinds
  <2>3. LeafValue(text, s, Top) = InC!LeafValue(source, s, InC!Top)
    BY <1>t, <2>2 DEF LeafValue, InC!LeafValue, Nothing, InC!Nothing
  <2>4. source' = source /\ trace' = trace /\ SourceReturned' = SourceReturned
    BY <1>3, <2>1 DEF vars, SourceReturned
  <2>5. InC!EvaluateLeaf(s)  BY <1>s, <1>3, <2>1, <2>2, <2>3, <2>4 DEF InC!EvaluateLeaf, InC!Leaves, Leaves
  <2> QED  BY <1>3, <2>1, <2>5
<1>5. ASSUME NEW s, CallOutside(s)  PROVE InC!RunNext
  <2>1. /\ Turn(s) /\ IsCall(s) /\ ~InFile(s) /\ Settle(s, Answer(Len(trace) + 1))
        /\ trace' = Append(trace, [of |-> CalleeOf(text, s), args |-> HandedOver(s)])
        /\ UNCHANGED <<vars, returned>>
    BY <1>5 DEF CallOutside
  <2>2. /\ HandedOver(s) = InC!Given(s) /\ CalleeOf(text, s) = InC!CalleeOf(source, s)
        /\ source.nodes[s].k = "call" /\ InC!OfCallee(s) = {}
    BY <1>c, <1>g, <2>1, HandedOverTheSame
  <2>3. source' = source /\ SourceReturned' = SourceReturned
    BY <1>3, <2>1 DEF vars, SourceReturned
  <2>4. InC!Settle(s, InC!Answer(Len(trace) + 1))  BY <1>s, <2>1 DEF InC!Answer, Answer
  <2>5. InC!CallOutside(s)  BY <1>3, <2>1, <2>2, <2>3, <2>4 DEF InC!CallOutside
  <2> QED  BY <1>3, <2>1, <2>5
<1>6. ASSUME NEW s, Enter(s)  PROVE InC!RunNext
  <2>1. /\ Turn(s) /\ IsCall(s) /\ InFile(s) /\ Len(stack) < Depth
        /\ stack' = Append([stack EXCEPT ![Len(stack)].at = s], Frame(Callee(s), Entered(s)))
        /\ UNCHANGED <<vars, globals, trace, returned>>
    BY <1>6 DEF Enter
  <2>2. /\ Entered(s) = InC!Given(s) /\ source.nodes[s].k = "call" /\ InC!OfCallee(s) # {}
        /\ Callee(s) = InC!TheFun(source, InC!CalleeOf(source, s))
    BY <1>c, <1>g, <2>1, EnteredTheSame DEF InC!TheFun, TheFun, InC!Defs, Defs
  <2>3. source' = source /\ SourceReturned' = SourceReturned
    BY <1>3, <2>1 DEF vars, SourceReturned
  <2>4. Frame(Callee(s), Entered(s)) = InC!Frame(InC!TheFun(source, InC!CalleeOf(source, s)), InC!Given(s))
    BY <2>2 DEF Frame, InC!Frame, NoSite, InC!NoSite, Nothing, InC!Nothing
  <2>5. InC!Enter(s)  BY <1>3, <2>1, <2>2, <2>3, <2>4 DEF InC!Enter
  <2> QED  BY <1>3, <2>1, <2>5
<1>7. ASSUME NEW s, EnterTooDeep(s)  PROVE InC!RunNext
  <2>1. /\ Turn(s) /\ IsCall(s) /\ InFile(s) /\ Len(stack) >= Depth
        /\ Settle(s, CutOff(CalleeOf(text, s), Entered(s)))
        /\ UNCHANGED <<vars, trace, returned>>
    BY <1>7 DEF EnterTooDeep
  <2>2. /\ Entered(s) = InC!Given(s) /\ CalleeOf(text, s) = InC!CalleeOf(source, s)
        /\ source.nodes[s].k = "call" /\ InC!OfCallee(s) # {}
    BY <1>c, <1>g, <2>1, EnteredTheSame
  <2>3. source' = source /\ trace' = trace /\ SourceReturned' = SourceReturned
    BY <1>3, <2>1 DEF vars, SourceReturned
  <2>4. InC!Settle(s, InC!CutOff(InC!CalleeOf(source, s), InC!Given(s)))
    BY <1>s, <2>1, <2>2 DEF InC!CutOff, CutOff
  <2>5. InC!EnterTooDeep(s)  BY <1>3, <2>1, <2>2, <2>3, <2>4 DEF InC!EnterTooDeep
  <2> QED  BY <1>3, <2>1, <2>5
<1>8. ASSUME NEW s, Leave(s)  PROVE InC!RunNext  BY <1>8, LeaveInC
<1>9. CASE Receive
  <2>1. /\ stack # <<>> /\ returned # Pending /\ returned' = Pending
        /\ Settle(Top.at, Fetched(text.funs[returned[1]], returned[2])) /\ UNCHANGED <<vars, trace>>
    BY <1>9 DEF Receive
  <2>2. /\ SourceReturned = <<returned[1], Fetched(text.funs[returned[1]], returned[2])>>
        /\ SourceReturned' = Pending
    BY <2>1 DEF SourceReturned
  <2>3. SourceReturned # InC!Pending /\ SourceReturned' = InC!Pending
        /\ SourceReturned[2] = Fetched(text.funs[returned[1]], returned[2])
    BY <2>2 DEF InC!Pending, Pending
  <2>4. InC!Settle(InC!Top.at, SourceReturned[2])  BY <1>s, <1>t, <2>1, <2>3
  <2>5. source' = source /\ trace' = trace  BY <2>1 DEF vars
  <2> QED  BY <2>1, <2>3, <2>4, <2>5 DEF InC!Receive
<1> QED  BY <1>1, <1>2, <1>4, <1>5, <1>6, <1>7, <1>8, <1>9 DEF RunNext

\* Every function of the file does what it did, whatever was rewritten so far:
\* the same calls of external functions with the same arguments in the same
\* order, and the same result.
THEOREM RunsAsSource == RunSpec /\ Supported(source, option) => Preserves
<1>1. RunInit => InC!RunInit
  BY DEF RunInit, InC!RunInit, SourceReturned, InC!Pending, Pending
<1>2. RunInv /\ [RunNext]_<<vars, runvars>> => [InC!RunNext]_InC!rvars
  BY StepInC DEF InC!rvars
<1> QED  BY <1>1, <1>2, RunInvariance, PTL DEF RunSpec, Preserves, InC!RunSpec
=============================================================================
