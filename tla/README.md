# A formal model of c2pancake

c2pancake turns C into Pancake by a long sequence of source-to-source passes.
Each pass parses the current text with clang, collects replacements, and writes
the next text; a driver repeats passes, selects them and stops. This directory
holds TLA+ models of that program, TLC configurations that check them on small
instances, and TLAPS proofs.

    tlc -workers 2 -config MCPipeline.cfg MCPipeline
    tlapm PipelineProofs.tla

## Inventory of the system

| Component | Code | State | Operations | Hard part |
|---|---|---|---|---|
| Driver | `Pipeline.cpp`, `Pipeline.h`, `Utils.h` | pass and attempt numbers, current suffix, artifacts and generated files of a file, the context of an attempt | start a file, attempt a stage, finalize, dispatch on Continue / Repeat / NextFile / Abort, final copy | repeats and their budget, selection options, errors half way, reuse of names |
| Loop passes | `Pass_LoopsToWhile.cpp` | none between attempts but the text | while, for and do normalisation, continue rewriting | conflicting replacements drop inner rewrites, continue has to keep its meaning |
| Switch passes | `Pass_SwitchToIf.cpp` | case groups during one walk | fallthrough marks, rebuild, conversion | fallthrough bodies, default, nested switches |
| If normalisation | `Pass_NormaliseIfStatements.cpp` | a name counter | hoist conditions, add braces | declarations where one statement stood |
| Function calling | `Pass_FunctionCalling.cpp` | tables of functions of an attempt | FFI wrappers, hoisted parameters and returns, memcpy polyfill | parameters live in globals: nested calls and recursion share them |
| Record promotion | `Pass_PromoteRecords.cpp` | none | name, rename, move records | unique names across attempts |
| Expression lowering | `Pass_TransformLogicalExpressions.cpp` | pre-statements of the expression being built | short circuit, assignments, calls, increments into temporaries | evaluation order and exactly-once evaluation |
| Bitfields | `Pass_LowerBitfieldOps.cpp` | none | read-modify-write of storage units, or of single bits by helpers | neighbours in one unit, sign, devices that write meanwhile |
| Integer conversion | `Pass_IntegerConversion.cpp` | helper functions injected | signed arithmetic on unsigned words | division, shifts, sign extension, narrow unsigned types |
| Hoisting | `Pass_HoistArraysAndAddresses.cpp` | none | locals whose address is taken become globals | recursion, initial values |
| Pancake backend | `Pass_C2Pancake.cpp`, `CodeGen.cpp`, `pancake_ir.h` | next global address, members and enums seen | global layout, translation to the Pancake AST, output files | addresses and alignment, order of pre-statements, control outcome |

Components interact only through the text on disk, the per-file artifact store
and the control outcome each attempt reports; everything runs in one thread.

What makes each correct: the driver loses no rewrite and ends; a pass keeps the
behaviour of the program it is given, leaves text that compiles, and after its
last attempt has removed the constructs it is there to remove; values computed
by injected helpers are the ones C computes; objects placed in memory do not
overlap.

## Modules

| Module | Models | State and actions |
|---|---|---|
| `Pipeline` | `Pipeline::Run`, the stages' contexts and finalizers | one action per step of an attempt of a pass on a file; `pc` follows the loop nest |
| `PipelineContract` | nothing in the code: what a caller of the program may rely on | `Pipeline` implements it (`Contract == INSTANCE PipelineContract WITH ...`) |
| `PipelineProofs` | theorems about `Pipeline` | |
| `Trees` | statements and expressions as trees, non-overlapping replacement of nodes | operators |
| `MiniC` | the meaning of C control flow: a run of a body on an input is its list of effects and evaluated conditions | operators |
| `LoopPasses`, `SwitchPasses`, `IfPass` | the rewriters of three source files, each a map from nodes to replacements | operators |
| `ControlFlow` | the nine passes that use those, with their attempts and budget | `prog` is the staged text; one action per pass, by the name of its pass, one for a spent budget, one for a failing attempt |
| `FFILayout`, `FFILayoutProofs` | the wrapper generated for one external function and a call of it | slots and buffer filled parameter by parameter, then the arguments copied, then read |
| `CallText` | files of functions that call each other and external functions; a body is a table of nodes by their paths, so that nothing here needs recursion | operators |
| `FunctionCalling` | one run of `pass_function_calling` over its attempts | `text` is the staged file; an attempt wraps external calls, or rewrites functions, or fails |
| `Frames` | activations of the functions of such a file: how a body is a tree of sites, and what a leaf of it is worth | operators |
| `SourceRuns` | nothing in the code: what C says a call of a function of the file does | a stack of frames, the external calls so far, the result; one action per kind of site |
| `CallRuns` | running the text a pass has staged, between its attempts; it implements `SourceRuns` (`InC == INSTANCE SourceRuns WITH ...`) | `stack` and `globals`, where hoisted parameters and results live; one action per kind of site, and a step of `FunctionCalling` while nothing runs |
| `FunctionCallingProofs` | theorems about `FunctionCalling` and `CallRuns` | |
| `Words`, `WordsProofs` | machine words; the powers of two are a parameter with assumptions; facts about division and wrapping | operators |
| `LongDivision`, `LongDivisionProofs` | the loop of `__c2pnk_u64_div` and `__c2pnk_u64_rem` | one action per iteration |
| `IntegerHelpers` | the other injected helpers, and the signs the signed division works with; the 32-bit copies differ in the width alone, a parameter here | operators |
| `IntegerConversion`, `IntegerConversionProofs` | the code emitted for each integer operation | a value is kept as C has it and as the emitted code has it; one action per kind of expression |
| `IntegerRuntime` | the emitted code at run time: `IntegerConversion`, with a division carried out by the loop of `LongDivision`, entered with magnitudes and left with the signs put back | the actions of both; an operation waits for the helper it called |
| `Expressions` | the meaning of C expressions and statements: from a memory, the set of results C allows, each a list of calls and volatile accesses with the value returned and the memory left | operators |
| `ExpressionPasses` | the rewriters of `Pass_TransformLogicalExpressions.cpp`, `BuildExpr` one operator per kind of expression | operators |
| `ExpressionLowering` | the five passes that use them, with their attempts and budget | `text` is the staged text; one action per pass, and those of `ControlFlow` for budgets and failures |
| `BitfieldAccess`, `BitfieldAccessProofs` | the code emitted for one access of a bit-field | one action per load, store or bit of the emitted code, and a `Device` that writes the object between them |
| `GlobalStorage` | the addresses `pass_c2pancake` gives to globals | a declaration placed or rejected, the heap size published |
| `Pancake` | the meaning of the Pancake text: locals, loads and stores of a width, shared memory, calls | operators |
| `PancakePasses` | the rewriters of the hoisting passes, and `BuildExpr` and `BuildAstStmt` of `pass_c2pancake` | operators |
| `PancakeBackend` | one file through `pass_rename_to_be_hoisted_globals`, `pass_hoist_locals` and `pass_c2pancake` | `text` and `vars` are the staged file, `code` the Pancake function; a variable or a statement per step, in the order the file has them. What the passes make of a text is a parameter |
| `PancakeRuns` | `PancakeBackend` with the operators of `PancakePasses`, which the configurations put in for its parameters, and calls of the function in C and in Pancake | operators |
| `PancakeBackendProofs` | theorems about `GlobalStorage` and `PancakeBackend` | |

Three abstractions return everywhere. A *text* is the tree clang would parse
from it, so parsing, printing and formatting are not modelled, except where the
printed form changes how the next attempt parses (`Reparse`, `Compiles`). An
*attempt* is one action from parsing to the outcome reported, since one thread
runs it and nothing else sees its middle; `Pipeline` alone takes it apart,
because files on disk outlive a failing attempt. *Replacements* that overlap an
earlier one of the same attempt are refused, as clang's `Replacements::add`
does, and the pass's reaction to the refusal (drop, drop the group, fail) is
its own.

What `Preserves` compares is behaviour, not text: in `ControlFlow` the effects
and condition evaluations on every input. In `CallRuns` it is a refinement:
step by step the staged text makes the external calls that C lets the source
make, with the same arguments in the same order, and returns the same. The
source evaluates the operands of a call in any order; the staged text stores
those that go through globals first and evaluates the others then, each group
from left to right, as the passes after this one lower it. In `ExpressionLowering`
C leaves the order of operands open, so the staged text may do a part of what
the source may do, and `OneOutcome` says that one order is left at the end;
`Implements` of `PancakeRuns` compares that one run of the Pancake function
with those of the C function, byte by byte in every variable.

## Runs

| Run | Expectation | Bounds | Shows |
|---|---|---|---|
| `pipeline` | pass | two files, six stages of every kind with one name registered twice, budgets 0 to 2, --start, --end, --skip | no rewrite is lost, output names stay fresh, nothing outside the selection runs, a pass named by --end that reports it is done is the last, only a spent budget ends repeats, the contract is implemented, the program ends |
| `control_flow` | pass | 863 bodies of up to three nested constructs, budgets 1 and 4, inputs of three answers of three values | every staged file compiles and behaves like the first, and the constructs are gone at the end |
| `ffi_layout` | pass | all prototypes of up to five parameters of five types | layout without overlap, all arguments arrive |
| `function_calling` | pass | three functions, two external ones, all nestings of two calls; one function with external calls only | staged files compile and, whatever function is called between attempts, call and return what the source does; wrappers are unique, attempts are bounded and only what is unsupported fails |
| `integer_runtime` | pass | words of six bits, int of four, char of two, all values | results stay canonical, divisions included; the division loop loses no bit, gives what C's operators give, a divisor of zero included, and ends |
| `expression_lowering` | pass | 1667 bodies over eleven globals (two volatile, structures that point to each other, an array, pointers), two operands of every form, three levels of logic, budgets 1 and 3, two memories | every staged file does what C allows the source to do, in the end in one order; nothing to lower is left |
| `bitfields` | pass | an object of three bytes of two bits, words of two bytes, all fields of up to four bits at three places, two device writes | a field gets its value and nothing else changes; reads give a value the field held |
| `backend` | pass | nine globals in two orders, five parameters, 421 functions, two calls each | locals that need an address are hoisted, what is written is Pancake and does what C says; globals lie apart, aligned, below the heap |
| `end_at_budget` | violation | one file, six stages, --end | a pass named by --end that spends its budget does not end the pipeline |
| `do_continue` | violation | one body | a `continue` in a `do` whose test is false goes on with the body |
| `narrow_unsigned` | violation | words of six bits | an unsigned type narrower than the word keeps bits above its width |
| `global_dereference` | violation | one body, two orders of the globals | `n = *q` of a global pointer reads the storage of `q` |

The bounds are enough for the cases that make the code hard to meet each other.
Two nested constructs conflict in one attempt, three let a conflict be followed
by another; budget 1 leaves work undone and budget 4 does not. Five parameters
are one more than there are slots; sizes 1, 3, 6, 8, 16 with alignments 1, 2, 8
need each kind of rounding. Two calls around each other are a conflict between
groups, and three functions are needed for a call chain back to a function whose
parameters are stored. For words, six bits keep the order char < int < word of
the target with every value enumerated. `integer_runtime` starts from every
canonical value, so one operation is enough: what it shows is inductive; and its
signed and unsigned words together give the division loop every dividend with
every divisor. A bit-field
of up to two bytes in an object of three starts at every bit of a byte, crosses
a byte, fills its unit and lies in one no word holds; two device writes are one
before and one after a load. Two operands are what the order of evaluation is
about, and the third level is a short circuit inside a short circuit. Globals of
sizes 1, 4 and 8 in two orders need padding and end below and above a multiple
of the word. The loops count from zero, one and two, so that a `continue`, a
`break` and a local hoisted out of the body each meet a second round.

Named bounds: `Fuel` (loop turns of a run in `ControlFlow`; a run that needs
more is cut at the same point on both sides), `Depth` (calls in progress in
`SourceRuns` and `CallRuns`; a deeper call returns a term of its function and
arguments on both sides, so recursion ends), `Called` (the functions called
from outside the file; the run calls the last function of a file, from which
the others are reached, and the theorem is for any set), `InputLength` (answers of the environment), `Budgets`, `NFiles`,
`NStages`, `ShiftCounts`, `MaxChanges` (writes of the device). No counter of the code is cut: attempts and passes are
bounded by the code itself.

Type invariants are checked inside `StagedCompiles`, where nothing proves them
for `ControlFlow` and `ExpressionLowering`, and proved for the other modules;
`Compiles2Pancake` checks the invariant proved for `PancakeBackend` (`FileInv`).

Deadlock is not checked in the runs of `FFILayout`, `FunctionCalling`,
`BitfieldAccess` and `PancakeBackend`, whose code returns; the driver,
`ControlFlow`, `ExpressionLowering` and, after a division by zero,
`IntegerRuntime` loop in a final step instead.

## Fairness

`WF_vars(Next)` in `Pipeline!Spec`, and `WF_runVars(HelperStep)` in
`IntegerRuntime!RunSpec`: both are code of one thread, which goes on as long as
there is a next step. The second is about the division helper alone, since
nothing makes a program compute on. The first assumes that a tool run returns, that is, that clang and the stages
terminate.

## Proofs

TLAPS proves the following for every value of the constants.

* `PipelineProofs`: `IInv` of `Pipeline`, for every list of stages and files and
  every command line. `InputIsNewest` is not inductive alone: that the suffix is
  the newest output needs that outputs on disk are in order of the attempts
  (`OutputsInOrder`), that none is later than the attempt running
  (`FreshAttempt`), and what the context of the running attempt says of its
  output (`NewestInAttempt`). From it follow `InputIsNewest`, `FreshAttempt`,
  `RepeatUntilBudget` and types. `SelectionRespected` needs more of the history
  (`Selection`): which attempts have run (`Recorded`), that the start pass lies
  behind once it was found (`StartSeen`), and that a pass that reported it is
  done lies behind and, if --end names it, has ended the loop over passes
  (`EndSeen`). What it says of --end is about such passes; for one that spends
  its budget the code does otherwise (`end_at_budget`). Assumptions: the constants
  have their types.
  The refinement of `PipelineContract` is proved step by step (`ContractKept`),
  and with `Termination` as a hypothesis, which stays with TLC, in full
  (`ContractImplemented`). The mapping takes the newest text by a CHOOSE; that
  it is the suffix follows from the order of the outputs. It needs two more
  invariants: that the suffix is a text on disk (`SuffixWritten`), and that the
  status at the end is the one decided (`StatusAtExit`). `Advances` says that
  every step moves the position of the driver, stage, file, attempt and place
  in the attempt, forward.
* `FFILayoutProofs`: the layout invariant, for every set of prototypes and any
  sizes and alignments: places and parameters correspond, offsets are rounded
  up and increasing, the slots of the result and the buffer stay free. From it
  `Disjoint`, `Aligned`, `BufferSlotKept`, and, if no scalar is wider than a word
  (`ScalarsFit`), `ArgumentsArrive`: every byte of every argument is read back.
* `LongDivisionProofs`: the loop invariant `Partial` for every width: what was
  brought down of the dividend is quotient times divisor plus remainder. That
  the shift loses no bit is a consequence: the remainder and the divisor are
  bounded by the part of the dividend brought down. Assumed of `Pow`: it starts
  at one and doubles; and that a bit number fits a word.
* `IntegerConversionProofs`: `Canonical`, with the types of the operands, is
  inductive. A type's power of two divides the modulus of the words, so the
  emitted operation and C's are followed modulo the one and the other: the low
  bits of a word name one value of the type (`OfBitsUnique`), wrapping keeps
  them (`OfBitsOfWrap`), truncation finds that value (`TruncIs`), and a signed
  word is canonical exactly when the bits from its sign bit up are equal
  (`EqualBits`), which & | and ^ preserve. Two hypotheses, which the constants of
  `integer_runtime` satisfy: unsigned operands are as wide as the word
  (`UnsignedFillWords`; `narrow_unsigned` is the run without it) and shifts are
  not by zero (`ShiftsShift`; the helper then shifts a mask by the width).
  Assumed: powers of two multiply (`PowerSumAssumption`, which induction would
  give), & | and ^ work bit by bit (`BitwiseAssumption`), and | adds where no bit
  is common (`OrAssumption`). TLC evaluates all three on its words. The unsigned division is taken
  to give what C gives: that is `DividesCorrectly` of `LongDivisionProofs`; the
  run has the loop itself in its place.
* `BitfieldAccessProofs`: `IInv` of `BitfieldAccess`, for every layout clang can
  give a field, every size of bytes, words and objects, and every interleaving
  with the device. `Stored` is about the end of a store; the invariant says how
  far it has come (`SoFar`: the bits below `i` are the value's, the others the
  object's) and that the byte or unit in the register is still what memory holds
  where the device stayed away (`Current`). For reads, that the bits gathered
  are of contents the field had since the access began (`InHeld`). A lemma shows
  that the arithmetic of the signed helper, an exclusive or and a subtraction,
  extends the sign. Assumed (`BoolsConverted`): what is assigned to a boolean
  field is 0 or 1.
* `PancakeBackendProofs`: `StorageInv` for every set of declarations: the next
  free address lies behind everything placed (`Behind`), from which `Apart`,
  `Aligned` and `InHeap` follow. That `PancakeBackend` implements `GlobalStorage` (`PlacesGlobals`)
  needs to know what stands in the file when pass_c2pancake goes through it, so
  its invariant says what the passes before it have made of the source
  (`Staged`), that what is behind has been placed, the last declaration of a name
  counting (`LastCounts`), that the function comes in its place (`TopDown`), and
  that the heap is published once, last, and for no file that is reported
  (`PublishedLast`). From it follow what `GlobalStorage` promises, for whole files
  (`BackendStorage`); that each has a place at the end (`AllPlaced`); and that a
  statement is translated with the macros of exactly the variables above its
  function, those hoisted out of it included (`MacrosInScope`). The texts the
  passes write are parameters of `PancakeBackend`, so this holds whatever they
  are; assumed is that a file is a list of variables whose types have a size and an alignment
  (`UnitsAssumption`, `VariablesAssumption`), before and after hoisting, which TLC
  evaluates with the texts `PancakePasses` gives.

* `FunctionCallingProofs`: for every supported file, every budget and every set
  of external functions. The text of a pass over attempts is awkward to speak
  of, so the invariant says what it is (`TextNow`): the source, with the calls of
  the functions that have a wrapper wrapped and, for each function rewritten so
  far, its definition, prototype, calls and returns in the new form. That a
  group is committed whole keeps it true, and two things make it go through.
  The groups of functions not yet rewritten are the same in the text as in the
  source (`SamePlaces`), which is where `Started` is needed: calls in the helper
  of an entry point are not visited any more, so nothing the helper calls may
  still be waiting. It may not, because a function that overlaps no other
  (`Unhindered`) is in the first set of groups committed (`CommittedGroups`).
  And no committed edit lies in another one and is lost (`NothingLost`). From
  `TextNow` follow `StagedCompiles`, `OneWrapper` and `ErrorsJustified`; with
  `Counted`, that every attempt adds a wrapper or rewrites a function, `Finished`
  and `AttemptsBounded`. `GroupOrder` shows that the sort by offsets puts groups
  with prototypes first and orders each kind by the place of the functions.
  That the rewritten file does what the source does (`RunsAsSource`) is the
  refinement of `SourceRuns`, and the claim the pass stands on: arguments and
  results live in globals, one per function, which every activation shares. Its
  invariant `RunInv` (`RunInvariance`) says when that is sound. What is evaluated
  in a frame is always the beginning of one order (`InOrder`), and a frame below
  another waits at the call that comes next in it (`AtCalls`), so a global is read
  by the call it was written for as soon as its last argument is there. Until
  then it keeps its value (`StoredKept`), because what runs meanwhile was reached
  from another argument of that call (`Reaching`), and such an argument neither
  calls the same function, or the groups would overlap and neither be rewritten
  (`Untangled`, from `TextNow`), nor reaches it through other functions
  (`NonReentrant`). `RunsAssumption` asks that, and that bodies are trees that
  end in a return, of the source files; TLC evaluates it on every file of the run.
  The mapping is the identity but for the result, which is in a global when the
  function hoists it.
  The hypothesis `Supported` is what the known limits below leave out: callees
  are defined at or above their calls, functions to rewrite have no prototypes
  where external functions are treated as non-FFI, an entry point returns no
  structure and what it calls is unhindered. The file itself is one clang
  accepts (`CFile`), which TLC evaluates for every file of the run.

Of the type invariants, those of `Pipeline`, `FFILayout`, `LongDivision`,
`BitfieldAccess`, `GlobalStorage`, `PancakeBackend` and `FunctionCalling` are part of these invariants.

Only model-checked: liveness (`Termination` of `Pipeline` and of the division
loop in `IntegerRuntime`), the composition `IntegerRuntime` of two modules with
proofs of their own, and
everything in modules that reach recursive operators over trees (`Trees`,
`MiniC`, `LoopPasses`, `SwitchPasses`, `IfPass`, `ControlFlow`, `Expressions`, `ExpressionPasses`, `ExpressionLowering`,
`Pancake`, `PancakePasses`, and with them `HoistsAll`, `Compiles2Pancake` and
`Implements` in `PancakeRuns`), which the prover does not handle.

## Known limits of the program

Found while modelling. Those with a run are findings; the others are left out
of the families the passing runs start from, in the named place.

* *Driver*: a pass named by --end that spends its budget does not end the
  pipeline (`end_at_budget`), although `src/README.md:20` says that retries are
  included; nor does one that --skip names as well. `NextFile` always comes with
  an error, which ends the run before the dispatch on it. A file stage cannot
  run (`Pipeline.cpp:71` asks for its name before constructing it).
  `pass_c2pancake` reports no control outcome when it succeeds, so the driver
  stops with status 1 after its outputs are written (`ControlMissing`), and the
  files after it are not processed.
* *Loops*: a `continue` of a `do` (`do_continue`); the second `continue` of a
  `for` (`Pass_LoopsToWhile.cpp:136` binds the first one) and a body that is
  nothing but a `continue` lose the increment. A `for` whose first part is an
  expression is written out without the semicolon behind it
  (`Pass_LoopsToWhile.cpp:203`; the increment gets one at 209), so
  `for (i = 0; ...)` becomes text that does not parse, against the `init;` of
  `src/README.md:439`: the loops of the runs declare a variable there. With nested loops and a budget
  too small, the increment copied in front of a `continue` runs once more if
  the `for` is left as it is (`PendingContinue`).
* *Switches*: labels after a `default` are dropped
  (`Pass_SwitchToIf.cpp:762`, against the comment at 714 that the default becomes
  the last one); falling through into
  a braced case that breaks leaves the inner `break` (`PlainFallthrough`);
  `default: [[fallthrough]];` joins the group before it instead of the one
  after (`Pass_SwitchToIf.cpp:307`).
* *Ifs*: `if (v) stmt;` on a plain variable stays without braces
  (`VarUnbraced`), against `src/README.md:596`.
* *Function calling*: a later argument that reaches the same function
  again through another one overwrites a structure already stored for it (1096;
  `NonReentrant` leaves this out; a direct call is an overlap and an error);
  calls above a definition are taken for external ones (1024); calls in an entry point of functions that have to wait, which are then left as
  they were (1006), and prototypes with --treat-external-functions-as-non-ffi
  (719), both excluded by `Supported`, as is an entry point that returns a
  structure: its outer function returns the word of the helper (879, only
  parameters are rejected); a signed result becomes an
  unsigned word (776); a structure as the result of an external function is its
  buffer (642); integers wider than a word take a slot and are cut (358: bytes
  compared with bits, `src/README.md:350` says they are rejected). Line numbers
  are of `Pass_FunctionCalling.cpp`.
* *Integers*: narrow unsigned results (`narrow_unsigned`); a signed right shift
  by zero shifts a mask by the width of the word; a file that only moves signed
  variables gets no helpers (755); a minus of a minus prints as a decrement
  (1116). Line numbers are of `Pass_IntegerConversion.cpp`.

* *Expressions*: `a[(*p)++] = e` and the like, an increment or assignment of an
  array element below a dereference, in an index or in an initialiser, write to
  a copy (1607; `src/tests/increment_rewrite.c` calls it broken, `src/README.md:718`
  does not); a volatile `v++` reads twice and `v -= f()` reads `v` before the
  call; a comma drops a volatile read on its left; `!!e` becomes `e` whatever the
  value of `e`, and `-(-x)` becomes `--x`; `node = *node.next` copies field by
  field; the rest of a partial initialiser is not zeroed; compound literals give
  text that is not C; void operands of `,` and `?:` and a member of an
  assignment of structures are reported as errors; a condition read through a
  pointer, or that is a volatile variable alone, gets its declaration inside the
  condition when the text is lowered again. Line numbers are of `Pass_TransformLogicalExpressions.cpp`.
* *Bit-fields*: the conversion of a value assigned to a `_Bool` field is stripped
  (553), so assigning two to it changes its neighbours, against the comment at
  432 (`BoolsConverted`); a volatile field is read bit by bit on targets without
  AAPCS (102), where a device can tear it, against `src/README.md:767`
  (`ReadsHeld` leaves those reads out); a store to a unit wider than a word uses
  the error it got in place of a type without looking at it (586-591,
  `StoreTooWide`), where a load reports it; storage units of three bytes get a type
  C does not have. Line numbers are of `Pass_LowerBitfieldOps.cpp`.
* *Backend*: besides `global_dereference`, a right side assigned to a local is
  emitted after the assignment when it needs a statement of its own (976);
  statements needed by a condition of `if` or `while` are dropped (509, 529);
  `**pp` reads `*pp`; `a[g]`, `p + g`, `g + p`, `q - 1` and `q - a` with a global `g` or
  `q` use its address (1371, 1444, 1466); a volatile global is read by a plain
  load (840); a store to a member is as wide as the structure (955); volatile
  stores of eight bytes use an instruction there is not; names of nested blocks
  are flattened into one scope; initial values of globals are not emitted;
  globals of sizes other than 1, 4 and 8 are rejected. A parameter whose address
  is taken is renamed and not hoisted (`src/README.md:84`). The bodies of the
  run leave these forms out. Line numbers are of `Pass_C2Pancake.cpp`.

## Not modelled

* Record promotion (`Pass_PromoteRecords.cpp`): types are given to the models by
  their sizes and members, so moving and renaming their declarations changes
  nothing they could see.
* The pass of `Pass_IntegerConversion.cpp` that writes implicit casts out, and
  when its helpers are injected; how `Pass_LowerBitfieldOps.cpp` prints the
  expressions around an access again.
* In the backend: the names of macros, the copies in FFI
  wrappers, the scaffold and the call of `make`.
* Header injection, code printing, the command line parser and the compilation
  database: formatting or input without state of their own.
* Macros, attributes other than fallthrough, `goto`, recursion through hoisted
  locals and floating point are out of the subset the passes accept.

More than two thirds of the lines under `src/` that count as implementation are
headers of LLVM and clang under `src/include/llvm-project`, vendored because the
bit-field pass uses clang's record layout. They are modelled by what c2pancake
takes from them (`BitfieldAccess!Placed`), so the map names lines of c2pancake's
own files only.

## What could follow

1. Record names over attempts, with uniqueness as the property.
2. Proofs about the control of the lowering passes, once their texts are tables
   of nodes as in `CallText`.
3. Two activations of one function over a hoisted local, once the code has a
   check for it.
