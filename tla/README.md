# Verification of the CoSense optimiser

CoSense is a compiler pass of the Newton tool: it takes a C program as LLVM IR
and the ranges that a Newton description gives for the physical sensors the
program reads, derives a range for every register, and rewrites the program
with what it learnt (`README.md` of the repository: "use sensor specifications
to help compilation optimization, including value range propagation, function
overload & elimination, type compression, condition simplification, and
constant substitution").

The optimiser removes code. If a range is too narrow, a branch that is taken
in the field is deleted at compile time, and no warning is given. So the first
thing this project states is that the ranges are true of every run, and that
the rewritten program computes what the program computed: for the modules the
rules are right for, which are named, and where they are not right, a run or an
excluded case says so. The second is that a description means to the front end
what its documentation says: the ranges are only as good as the numbers, units
and names that were read.

All paths below are relative to `src/src/newton/` unless they say otherwise,
and `*-X.cpp` stands for `newton-irPass-LLVMIR-X.cpp`.

## 1. Inventory

The repository has three programs: the Newton compiler (`src/newton`, C, with
the LLVM passes in C++), the Noisy compiler (`src/noisy`), and scripts and
examples around them. The logic that is CoSense's own is in the LLVM passes.

| Part | Files | State | Operations | Status |
|---|---|---|---|---|
| Live-variable analysis | `*-livenessAnalysis.cpp` | three maps from blocks to sets of values | `initBasicBlock`, `computeLiveOurVariables`, the sweep loop | modelled |
| Range analysis | `*-rangeAnalysis.cpp` | `BoundInfo` per activation, `storeParamMap`, the C++ call stack | one arm per opcode, `checkPhiRange`, `modInterval`, `bitwiseInterval` | partly |
| Control-flow simplification | `*-simplifyControlFlowByRange.cpp` | the module | `compareICmpWithVariableRange`, the ICmp and FCmp arms | partly |
| Constant substitution | `*-constantSubstitution.cpp` | the module | replace and erase registers, erase stores | partly |
| Driver | `*-optimizeByRange.cpp` | the module, `globalBoundInfo`, `funcBoundInfo` | the order of the passes, seeding, output | partly |
| Type shrinking | `*-shrinkTypeByRange.cpp` | the function, types changed in place | shrink, roll back, match operands, merge casts | partly |
| Newton lexer | `newton-lexer.c` | line, cursor, pending word, sign flag, token list | the character loop, its handlers, include files | modelled |
| Newton parser | `newton-parser.c`, `newton-dimension-prescan.c`, `newton-symbolTable.c`, `newton-ffi2code-autoGeneratedSets.c`, ... | token list, tree, physics, scopes, invariants | two passes over the tokens, one function per production | partly |
| Newton sensors pass | `newton-irPass-sensors.c` | list of sensors | read the sensors from the tree | partly |
| Noisy lexer | `src/noisy/noisy-lexer.c` | as the Newton lexer, without the sign flag | the character loop, its handlers, include files | modelled |
| Noisy parser | `src/noisy/noisy-parser.c`, `src/common/common-symbolTable.c`, tables | token list, tree, scopes, symbols | one function per production | partly |
| Quantization, decider, overflow report | `*-quantization.cpp`, `*-quantDecider.cpp`, `*-optimizeByRange.cpp` | module, function attributes | float to fixed point, cost estimate | not modelled |
| Overload and elimination, alignment, assume emission, LLVM dimension check, output | one file each | none | one walk each | not modelled |
| Newton back ends, dimensional matrices | `newton-irPass-*.c` | syntax tree | generators | not modelled |
| Noisy type checker, code generator | `src/noisy` | syntax tree | check, generate | not modelled |

`PROJECT.json` says for each part what is left out and why.

How they interact. `newton.c` has the lexer fill a token list, the first pass
(`newton-dimension-prescan.c`) scans it for the dimensions that signals
introduce, the second (`newton-parser.c`) builds the tree and, while parsing,
the tables of physics, scopes and invariants; the sensors pass then reads a
list of modalities from the tree. With an IR file on the command line the
live-variable analysis is called (whose result nothing reads at this commit)
and `irPassLLVMIROptimizeByRange`. The driver turns the modalities into
`typeRange`, the initializers of globals into ranges, and then runs

    analyse -> overflow report -> shrink types -> (quantize) -> align
            -> simplify control flow -> LLVM's CFG cleanup
            -> analyse again -> substitute constants -> write

over one module that every pass mutates. The passes talk only through the
module and `funcBoundInfo`, a map from function names to `BoundInfo`s whose
keys are addresses of instructions. The Noisy compiler shares the tree, the
token list and the scopes (`src/common`) with the Newton compiler.

There is no concurrency, no message and nothing persistent. What is hard here:

- recursion: `rangeAnalysis` calls itself at every call of a defined function,
  with a fresh map, and joins the result into a map it holds iterators to;
- order: everything is one walk in layout order, so a back edge, a later store,
  a second return or a second call meets information that is half there; the
  parsers compute with names while they parse, before they know the rest;
- staleness: ranges are keyed by instructions that later passes delete,
  `emplace` keeps whatever was recorded first, and the shrinking walk inserts
  and erases the instructions it iterates over;
- boundaries: signs, zeros, equal ends, off-by-one ends of comparisons, the
  first and the last bit of a word;
- tables that must agree with hand-written code: the FIRST and FOLLOW sets are
  generated, the functions that consult them are not;
- termination: a sweep until nothing changes, walks over lists that grow, scans
  that look for a token behind the end, recursions without a record of where
  they have been.

`PROJECT.json` lists each such hazard at its line with the properties that
watch it, or with the reason why none does yet.

What makes each part correct:

- live-variable analysis: stops; the result solves the equations, is the least
  solution, and says what liveness on paths says;
- interval functions: every result of the instruction is inside, at every
  width; not wider than the operands;
- range analysis: a return reaches the call it belongs to; no register's range
  is lost or narrowed; an entry that several calls write covers all of them;
  every value a register takes is in its range;
- simplification and substitution: what is folded is decided for all values;
  a pass works on the ranges of the module as it is; the module returns what it
  returned before;
- shrinking: the function stays well typed, no assertion of the pass fails, the
  walks end, and the function returns and calls what it did;
- lexer: the tokens are those of longest match, a sign belongs to the number
  behind it, every text is lexed to its end;
- parsers: the language taken is the documented one, every file gets an answer,
  a name is resolved where it is known, a use agrees with its declaration,
  dimensions are those of the definition, the tree reads as the text.

## 2. Modules

    LiveVariables --- LivenessDataflow (abstract)
          \              |  INSTANCE, refinement
           +------- LivenessAnalysis --- MCLivenessAnalysis
                         \--- LivenessAnalysis_proofs

    IntervalArithmetic ------------------- WordIntervals --- IntervalCheck
       |                  |          |                          |
       |  LLVMModule      |     IntervalArithmetic_proofs --- IntervalCheck_proofs
       |    |    \        |                     |
       |    |     RangeAnalysis --- RangeAnalysis_proofs
       |    |        |   \--- MCRangeAnalysis   |
       |  LLVMExecution  |                      |
       |          \      |                      |
       +-------- OptimizeByRange --- OptimizeByRange_proofs --- RewrittenRuns_proofs
                         \--- MCOptimizeByRange

    TypedFunction --- TypedExecution --- ShrinkTypeCheck --- MCShrinkType
             \--- ShrinkType ---------------/

    NewtonLexer --- NoisyLexer --- Lexers --- MCLexers
                                      \--- Lexers_proofs

    RecursiveDescent --- NewtonParserCode --- NewtonParser --- NewtonParserCheck
          |  NewtonTables --/   Rationals ------/   NewtonGrammar --/     |
          |                                            |         NewtonNamesCheck
          |                                       ContextFree             |
          |                                            |          MCNewtonParser
          |  NoisyTables --\                      NoisyGrammar --\
          +------------ NoisyParserCode --- NoisyParser --- NoisyParserCheck
                                               |                  |
                                      NoisyParser_proofs    MCNoisyParser

| Module | Models | Correspondence |
|---|---|---|
| `LiveVariables` | what `initBasicBlock` takes from an instruction, and the equations | `Seen`, `Uses`, `Defs` follow the cases of the switch, with their missing `break`s: the binary case falls through the unary one, which adds nothing new |
| `LivenessDataflow` | the promise: bring any block up to date, stop with a solution | abstract, no code of its own |
| `LivenessAnalysis` | `livenessAnalysis()` | `InitBasicBlock` is an iteration of the inner loop, `Recompute` one of the sweep, `BeginSweep`/`Stop` the test of `changed` |
| `LLVMModule` | functions as instruction lists in layout order | constructors, `IsConstant`, `ReplaceUses` (external: LLVM) |
| `IntervalArithmetic` | the bound computations of the Add, Sub, Mul, FNeg and fabs arms, and `compareICmpWithVariableRange`; `modConstDivisorInterval`, `modConstDividendInterval`, `modInterval` | one operator per arm, one line per predicate; the sign cases of the remainders unfolded, so that nothing recurses, in the same order |
| `WordIntervals` | the division, shift, bitwise and cast arms | one operator per arm; ends of quotients are fractions or infinities; words have a width |
| `IntervalCheck` | one arm on one instruction, any operands | a query and its answer |
| `RangeAnalysis` | `rangeAnalysis()` and the driver's loop over functions | `stack` is the C++ stack; one action per group of arms; `bound` is `virtualRegisterRange`, a function whose domain is the set of entries |
| `OptimizeByRange` | simplify, clean, re-analyse, substitute, and running the result | one action per pass and function |
| `LLVMExecution` | what a run of a module does | external: the language reference |
| `MCRangeAnalysis` | families of small modules, for both drivers | in the shape `clang -O0` and `mem2reg` give |
| `TypedFunction`, `TypedExecution` | functions with types and blocks; what an instruction does to words | external: LLVM |
| `ShrinkType` | the three walks of the pass, instruction by instruction | `Layout` is the order the iterators follow while the walks insert and erase |
| `NewtonLexer`, `NoisyLexer` | `newtonLex`, `noisyLex` | one step per turn of the character loop; the files, the cursor, the numbers and the includes of the second are those of the first |
| `RecursiveDescent` | `lexPeek`, `lexGet`, `peekCheck`, `inFirst`, `genIrNode`, `addLeaf`, `addLeafWithChainingSeq` and the control flow of a parser function | a machine: the functions are data, one statement of one function at a step, on the tokens, the tree and the stack of the calls |
| `NewtonTables`, `NoisyTables` | the generated tables of FIRST and FOLLOW sets | row by row; a row that is the union of others is written as one |
| `NewtonParserCode`, `NoisyParserCode` | every `newtonParseX`, every `noisyParseX` | for each production, the statements of its function in their order; `Do` and `Name` are the places where a function computes with names |
| `NewtonParser` | the two passes, tables of physics, scopes and invariants, constant folding, the sensors pass | one action per kind of `Do` and `Name` |
| `NoisyParser` | scopes, symbols, types, the comparison of a definition with its declaration | likewise |
| `Rationals` | the doubles of the Newton front end | exact fractions, `NotExact` where one is none |
| `ContextFree`, `NewtonGrammar`, `NoisyGrammar` | the documented languages: phrases of a production in a text | references, not code: from `newton.grammar`, `noisy.grammar` |
| `ShrinkTypeCheck`, `Lexers`, `NewtonParserCheck`, `NewtonNamesCheck`, `NoisyParserCheck` | the properties, and the references they compare with | what a text or a function means, read off it without a look at the code |

Data is abstracted as follows. Bounds are integers where the code has doubles
(the modelled arms do not round on integers of the size used), fractions where
it divides. Instructions are positions, so that a branch target is a number;
blocks appear only through them. A debug intrinsic carries the name of a type;
`typeRange` is the constant `TypeRange`. `emplace` is `Emplace` (an entry that
is there stays), assignment through an iterator is `Assign`. `BoundInfo`s of
callees are frames. In the lexers a symbol stands for a run of characters that
the code treats alike; in the parsers a token is its type with its name or its
value.

Three recursions of the optimiser do not return for some arguments: calls that
recurse, a remainder by a range that is `[0, 0]` (`RemDiverges`, line 362 of the
range analysis), and `isFromQuantizedGlobal` below a register that depends on a
loop variable (`WalksReturn`). In the last two the model has no step there; the
first is bounded by `MaxDepth`.

Two choices of form serve the proofs: the predecessors of a cleaned phi are
enumerated by `InOrder`, the increasing sequence of a set, instead of a fold,
and a run of a module starts with a function from the parameters to `Inputs`.

## 3. Runs

| Run | Module | Question | Result |
|---|---|---|---|
| `liveness` | `MCLivenessAnalysis` | does the sweep stop at the right solution on every small graph? | holds |
| `interval_arithmetic` | `IntervalCheck` | does every arm's range have every result, and is it tight? | holds but for `Mistaken` |
| `negative_bits` | `IntervalCheck` | does the range of a bitwise operator have negative results? | violated |
| `range_analysis` | `MCRangeAnalysis` | call stack, joins, monotonicity, termination on all shapes | holds |
| `optimize` | `MCOptimizeByRange` | are ranges true of runs, does rewriting keep the result? | holds for trusted modules |
| `stores_erased` | `MCOptimizeByRange` | do stores to variables stay? | violated |
| `shrink_type` | `MCShrinkType` | is the shrunk function well typed and equivalent, do the walks end? | holds but for `Broken` |
| `shrink_comparison` | `MCShrinkType` | does a comparison keep its outcome? | violated |
| `lexers` | `MCLexers` | are the tokens of both lexers those of longest match? | holds for trusted texts |
| `newton_parser` | `MCNewtonParser` | is the documented language taken, and with its meaning? | holds but for listed exceptions |
| `parser_divided_unit` | `MCNewtonParser` | are the dimensions of a constant those of its unit? | violated |
| `noisy_parser` | `MCNoisyParser` | is the documented language taken, and with its meaning? | holds but for listed exceptions |

### Bounds, and why they are enough

- `liveness`: three blocks, every graph whose entry has no predecessor, every
  placement of three instructions that the IR verifier accepts. Three blocks
  give self loops, two-block loops and joins, so that information has to travel
  against the layout order and a second sweep is needed.
- `interval_arithmetic`: `Bound = 8`, so the operands of remainders and
  quotients range over all intervals within -8..8, which reaches every case of
  `modInterval`, including `half <= lo`, the split interval and both loops;
  words of 1, 2, 3 and 5 bits, where 3 stands for the width of an `int`
  (`IntWidth`) and 5 for that of the `long` the code computes in
  (`LongWidth`): every pair of ranges of such words, so that both ends, both
  signs and both sides of a cast are there.
- `range_analysis`: all families of `MCRangeAnalysis`, a call depth of at most three
  (`MaxDepth = 3`, the deepest family is `main -> f -> h`), two sensor types.
- `optimize`: the trusted families, `Inputs = -3..3` for each parameter of the
  entry function, which covers the sensor ranges `[-2, 3]` (temperature) and
  `[1, 2]` (level) and lies outside of both at one end, so that a run out of
  specification is seen to be stopped. `Width = 8` bits for the zero extension
  of a constant.
- `shrink_type`: `Widths = {2, 3, 4}` stand for the widths LLVM types have, the
  widest for `i64`; two arguments, and functions with straight code, branches
  and phis, cells of memory, globals, conversions, calls, switches and loops,
  with some or all of the ranges known. `Fuel = 64` steps bound a run of a
  function.
- `lexers`: every text of four symbols of an alphabet of sixteen for Newton and
  of fourteen for Noisy, which have one symbol for each way the code looks at a
  character (separators that are handled alike are one symbol), and texts that
  include a file, or a missing one, or in which a file ends in a lone sign. Four
  symbols hold a number with a sign and what is on either side of it; real numbers with an exponent, radix numbers and
  operators of three characters of Noisy, which need more, are in longer texts.
- `newton_parser`, `noisy_parser`: every way to write each production of the
  grammar, with the shortest phrases for what is in it, and the same with a
  token left out or doubled; and hand-made files about names: derivations,
  units, parameters, calls, scopes, subindices and sensors for Newton, scopes
  and functions declared and defined for Noisy. A statement of a parser's
  function that no such file reaches is one that no sentence reaches.

### Fairness

Each of the programs is a single thread that the process runs until it returns:
`WF_vars(Next)` says that a step that can be taken is taken eventually. It is
used for `Terminates`, `AnalysisTerminates`, `WalksEnd`, `EveryTextIsLexed`,
both `Ends`, and the liveness part of `ImplementsDataflow`. `OptSpec` and the
specification of `IntervalCheck` have no fairness, their properties are safety.
Deadlock checking is off in every run, because a finished program is a state
without a step.

### Trusted modules

`RangesContain` and `SameResult` are stated for modules that satisfy `Trusted`.
Each conjunct names something that the code gets wrong or leaves to the front
end, and each has a hazard entry:

| Conjunct | Excludes | Because |
|---|---|---|
| `NoInvertingArm` | `fneg`, `x * c` with `c < 0`, `c % x` | the ends, or the operands, come out exchanged |
| `PlainEqualities` | `eq`/`ne` with a negative constant | the constant is zero-extended (simplification, line 364): `x == -1` is folded to false for `x` in `[-2, 3]` |
| `PlainStores` | stores in code with branches, two stores to one pointer | the last store in layout order wins |
| `GlobalsOnlyRead` | stores to globals | initializers are taken for values, of globals that are not constant, too (driver, line 592) |
| `EffectsWithoutResult` | callees that write and return | a call with a one-point range is erased |
| `OneReturn` | several returns | the first with a range wins (line 3274), so that a one-point range need not be a constant |
| `SeedsDominate` | sensor types that hold in one branch only, after a call, or behind the return | a seed holds everywhere |
| `ArgumentsKnown` | a function called twice, once with an argument of unknown range | the ranges are joined only over the calls that know their arguments (lines 1417, 1453): with `x = h(p); y = h(3)` and nothing known of `p`, the callee's parameter is `[3, 3]` |

`clang -O0` emits one return per function and describes parameters at the
entry, so `OneReturn` and `SeedsDominate` hold of the input the makefiles of
`applications/newton/llvm-ir` produce. `Trusted` is a condition on the source
module and its analysis; the families have modules on either side of it, and
most satisfy it.

### What the other properties leave out

Each exception is a definition with a comment that says what goes wrong; a
property that an exception weakens is checked for everything else.

*Interval arms* (`Mistaken` in `IntervalCheck`): a divisor around zero, the
corner `0 / 0`, a negative constant divisor (`Undivided`); bits shifted out of
the type (`ShiftedOut`); an unsigned reading of a range around zero
(`UnsignedAroundZero`); `ashr`, `sext` and `zext` reading a word with the other
sign than its range (`OtherReading`); the constant on the left of a shift
(`ConstantShifted`); a truncated operand that does not fit (`TooWide`); a
negative result of a bitwise operator (`NegativeResult`, the finding of
`negative_bits`). Integer quotients are truncated by the instruction while the
range keeps fractions: the property is about the exact quotient. The range of
`xor` contains, but is not as tight as those of `and` and `or`.

*Shrinking* (`Broken` in `ShrinkTypeCheck`): a number never negative that needs
the sign bit of its narrow type; a shift by more than the narrowest width; a
comparison or a division of a number that may be negative with one that may
not; a cell whose range leaves out what is stored; a cast of a cast; the
conversion of a number that may be negative to `double`; a phi that reads a
number found later.

*Newton lexer* (`Trusted` in `Lexers`): a number with a plus sign, which
becomes negative (line 1066); a sign right after a number, `5-5` (1060); `><`,
never read as one token (802); a word with a signed exponent that is not a
number, or whose number is not followed by a blank (1022, which reads before
the buffer); `o<` behind a word (950); a number that begins with a dot; a
string that is not closed, on which the lexer loops forever (429), a `#` in
one; a text that ends in a word without a newline, which is lost (152); a
missing file to include. A `;` behind a word is dropped in some of these
(1034). A file that ends in a plus or a minus and no newline is left out of
`SignConsumed` as well (`NoLoneSign`): on a line of one character the test for
the operator fails (1043, `N->lineLength >= 2`), the sign makes no token, and the
flag that 1066 sets waits for the next number, be it of the including file. The
comment at 1050 says that what follows is the beginning of a number. The run
has such files, and without the condition TLC finds the flag up at the end of
the file.

*Noisy lexer* (`Trusted` in `Lexers`): of the above, a dot in front of a
number, strings, the last word and missing files; and an exponent with a sign
behind digits without a dot: `1e-5` is lexed as a number, an operator and a
number, where the comment of `checkMinus` (`noisy-lexer.c`, 859) expects one
number (`RealExponents`).

*Newton parser* (`NotTaken`, `TakenToo`, `Crashing`, `DividedUnit`,
`BitsWithUnit`, `Unclosed`): not taken although documented are `Weibull` and
`Erlang` distributions (4126), `@ n bits` (3047), `read` without a destination
sign (3268), an index of zero as in `x[0]` (1929), an empty tuple, a second
subindex; taken although not documented are a product for a number of bits, the
name of an index in brackets, vector products of units, a signal without a
symbol. A null pointer or an assertion comes of a range without units
(`newton-irPass-sensors.c:200`), an accuracy without a unit, an `i2c` without an
address, an invariant with a parameter that is not a signal, a dot or cross
product of numbers (891, 917). A constant's divided units are multiplied (the
finding of `parser_divided_unit`); of a precision with a unit the cost is read
from the unit (`newton-irPass-sensors.c:239`); only the last sensor of a file is
kept (333); an unclosed constant, sensor or invariant is looked for behind the
end of the file for ever. A list of constraints may be empty for the parser's
table only (2818, 2835).

*FOLLOW sets of Newton* (`NotListed`): the parser has its tests of FOLLOW sets
commented out, "activate this when Newton's FFI sets have been corrected"
(`newton-parser.c`, 139). `FollowsOfTheGrammar` computes the sets from the grammar
and says what is missing in the table: behind five kinds of rules the end of the
file, behind a quantity and its factors the tokens that can begin another
factor, behind some lists `=` or `;`. With the tests switched on, sentences with
these would be refused. For all other productions the table lists every token
of the grammar's set.

*Noisy parser* (`Unspoken`, `OtherProductions`, `NotTaken`, `Crashing`,
`Incomparable`): seventeen tokens have no row in the table of FOLLOW sets and
always fail, so predicates' statements, `for`, `sum`, `log`, `min`, `max`,
quantities with uncertainty and others are never accepted; module problem
declarations, complex and rational casts, `quantize` and `sample` are never
reached; `sequence (i in s)` is not, since the ordering head is tried first; a
vector type needs two brackets (601), a predicate function `-> signature`
(3289); `nil` is not taken inside of an expression, and is fatal where a name
is declared or as an element of an array (2983); `<<=` and `>>=` are not found
by the look-ahead for an assignment; a function defined twice, or a name for an
aggregate type in a signature, is a null pointer; a type that stands for itself
never returns. Only the scope of the first module is searched for a type
(`common-symbolTable.c:130`), and scopes never know their first child.

Seen while modelling, and not the subject of a property: `irPassLLVMIRLivenessAnalysis` computes a
result nothing reads; a pointer argument's range is looked up under the
caller's name after a call (`*-rangeAnalysis.cpp`, 1437); a signal that names a
sensor is rejected, as is one whose uncertainty has parameters with identifiers
as types (prescan, 251 and 1227); two signals with one name string share a
dimension; `dimensionless` adds a dimension in the first pass; a name that is
defined twice is reported and not rejected; the Noisy parser links definitions
into the tree twice where its comment says that it makes copies.

### Findings

Four statements of comments do not hold of the code; `PROJECT.json` quotes
them. In short: "const store" removal removes stores to globals that are
variables (`stores_erased`); the comparison with an unsigned number is rewritten
whatever the number's sign (`shrink_comparison`); operators between units are
"only * and /", and both multiply (`parser_divided_unit`); "the first bit is a
sign bit" of a result, and is lost (`negative_bits`).

## 4. Proofs

TLAPS checks the following for every value of the constants. Nothing is
assumed but the named assumptions of the modules: `FunctionsAssumption`
(instructions have values and operands, successors are blocks),
`ConstantAssumption` and `TruthValues` (constants are values and stand for
integers, 0 and 1 among them), `ProgramAssumption` (the modules are well
formed, as the IR verifier guarantees: binary operators have two operands,
stores write to pointers, a call has as many arguments as its function has
parameters), `SensorAssumption` (a sensor's range is a pair of numbers),
`InputsAssumption` (inputs are integers), the two `WidthAssumption`s and
`WidthsAssumption` (a width is a number, no word is wider than the widest, the
constants of a module are less than `2^Width`),
`PowersOfTwo` (the defining equations of `2^n` up to the widest word, which
the provers do not know) and `SymbolsAssumption` (digits are apart from letters
and separators, no reserved word begins with a digit, every input has a main
file of lines of symbols; `NoisyAssumption` says the last of Noisy's inputs). For
the Noisy parser, `TextsAssumption` says that a text is a sequence of tokens and not
empty, and `ProceduresAssumption` that its functions read no variable before
it is set: `Needs` has, for every rest of a function, how many nodes the rest
takes for got, at most as many as there are whichever way the conditions in front
of it came out. `MCNeeds` computes it from the functions as they are. TLC
evaluates each.

| Theorem | Module | For every | States |
|---|---|---|---|
| `TypeCorrect`, `LocalSetsCorrect`, `SolvedOnExit`, `Grows`, `Least` | `LivenessAnalysis_proofs` | function and control-flow graph | types; the local sets are exact; on exit the equations hold; sets only grow; below every solution |
| `LiveExactly` | | | `LiveOnPaths`: the solution is liveness on paths |
| `Refines` | | | every step is a step of `LivenessDataflow` or a stutter |
| `AddContains` ... `AbsContains`, `FoldIsRight`, `SwapIsRight` | `IntervalArithmetic_proofs` | integers | the rules contain every result; a decided comparison is right |
| `RemainderHasRange`, `RemainderContains`, `RemainderNarrow` | | integer ranges | `modInterval` answers, contains, is narrow |
| `RemaindersAreIn`, `RemaindersAreNarrow`, `ResultsAreIn` | `IntervalCheck_proofs` | bound and width | `EveryRemainderIn`, `NoWiderThanOperands`, `EveryResultIn` |
| `BitwiseIsExact` | | | `BitwiseExact`: `and`, `or`, `xor` contain every combination, and the ends of the first two are combinations |
| `TypeCorrect`, `RegistersWiden`, `ArgumentsCovered` | `RangeAnalysis_proofs` | well-formed modules, depth, sensors | types; `RegistersOnlyWiden`; `ArgumentsCoverCallSites` |
| `SourceRunsContained` | `OptimizeByRange_proofs` | self-contained modules, integer inputs | `RangesContain` of the runs of the source |
| `AnalysesFormed`, `InfoStaysCurrent` | | well-formed modules | both analyses work on well-formed modules; `InfoIsCurrent` |
| `OutputReturnsSame` | `RewrittenRuns_proofs` | self-contained modules, integer inputs | `SameResult` |
| `OutputRunsContained` | | and inputs for which the source returns | `RangesContain` of the runs of the output |
| `LexerTypeCorrect`, `SignNeverTravels` | `Lexers_proofs` | language, texts, symbols, included files | types; `SignConsumed`, whose condition is that no file ends in a lone sign |
| `ParserTypeCorrect` | `NoisyParser_proofs` | text, and functions that read no variable before it is set | `TypeOK` of the Noisy parser |

**Live-variable analysis.** The inductive invariant is `TypeOK`,
`LocalSetsExact`, `CleanPrefix` and `Justified`. `LocalSetsExact` is what the
first walk establishes; `CleanPrefix` says that while the flag is down, the
blocks that the sweep has passed satisfy their equations (why a sweep without a
change is a solution: a later block that changes raises the flag); `Justified`
says that every value in a live-out set follows from the sets as they are, so
that recomputation only adds. From it follow `SolvedOnExit`, `Grows`, and
`Least`: below every solution. `Refines` maps `Recompute` to `Improve`, `Stop`
to `Finish`, the rest to stuttering. `LiveExactly` adds that the least solution
is liveness on paths: the set of the values with a path to a use is itself a
solution, and a value that has a path has a shortest one, which visits no block
twice and so is, by the pigeonhole principle, as short as the paths that
`LiveOnPaths` looks at.

**Remainders.** That `modInterval` has an answer rests on the minima and maxima
being taken over finite, non-empty sets of integers. The library's induction
theorems cannot be instantiated, so the existence of a least element is derived
from the well-foundedness of `<` on the naturals (`LeastNatural`, `LeastValue`,
`GreatestValue`). That it contains every remainder (`RemainderContains`) goes by
the cases of the code: a constant divisor, where a range no longer than the
divisor either wraps or does not; a constant dividend; a dividend interval split
at zero; divisors longer than the dividends; the halves.

**Words.** `ResultsAreIn` takes each arm in turn: corners of a quotient by the
monotonicity of each operand's half-plane; a shift as multiplication or division
by a power of two; casts as the two readings of a word. The excluded operands
are those of `Mistaken`, each of which a query of the run reaches.

**Bits.** `bitwiseInterval` cuts the two ranges into patterns, words of zeros,
ones and free positions, combines each pair of patterns position by position and
takes the least and the greatest number of all pairs. That the result is exact is
a statement about words of every length, and the provers have no induction over
a recursive definition. What replaces it is the prefixes of a word: a number of
`n` bits is the last of the numbers `x \div 2^k`, each of which is twice the next
one plus a bit (`Recursion`, `OneBitMore`), and a statement that passes from `k + 1`
to `k` holds at 0 by the existence of a least counterexample (`Downward`, from
`LeastNatural`). Along this line:

1. A number and its bits determine each other (`SameWord`, `WordBits`), also
   for negative numbers, whose signs repeat above the word (`SignRepeats`), and
   the bits of a combination are the combinations of the bits (`BitsCombined`,
   `CombinedBits`). Of two words the one with a one at the first position where they
   differ is the greater (`PrefixesInOrder`), so that a word that is nowhere
   less is not less (`Dominated`).
2. Every number of a range has a pattern, and a pattern has only numbers of its range
   (`PatternsCover`, `AboveLower`, `BelowUpper`): it is an end of the range, or it
   leaves one end at its first difference, where a pattern has flipped the bit and
   freed what is below (`CutMatches`, `FlipMatches`).
3. The positions that both patterns fix bound every combination of their numbers
   (`FixedPositions`, `BetweenCandidates`), and for `and` and `or` filling the
   free positions with zeros, or with ones, gives two operands whose combination is
   the bound (`Filled`, `CandidatesAttained`). For `xor` the two fillings pull in
   different directions, which is why only containment is claimed.
4. The code chooses how many bits it looks at from the ends of the ranges;
   `SizeSuffices` says that no number of the ranges needs more.

The queries about bits range over `Longs`: ends that fit an `int64_t` and can be
negated in it, as the code converts them to one. Results that are negative are excluded by
`NegativeResult`, the finding of the run `negative_bits`.

**Range analysis.** `TypeOK` is inductive only together with two facts:
`CallersWait` (every activation below the newest is at the call that started the
next one, so that a return finds a call to give its range to), and that the
number of a frame's position stays in its function. `IInv` is the conjunction of
`Shape`, `InRange`, `CallersWait` and `InfoTyped`; there is a lemma for each
action, and the lemmas about `LeaveFunction` (pointer arguments, emplaced
result, join) carry the weight. `RegistersWiden` uses the same invariant:
`Emplace` keeps, `Hull` covers both arguments, and only pointers are assigned or
erased. It matters because a register is derived once, from entries as they
were.

`ArgumentsCoverCallSites` is an action property: the step by which a call
returns leaves its caller entries that cover the arguments passed. The statement
"every entry covers what all earlier calls passed" is no invariant, since a
debug intrinsic, a store or a later merge may give the argument itself another
range after the call. What is inductive is `ArgumentsPassed`: each waiting
activation has handed its arguments' ranges to the one above it, which keeps
them because parameters that are no pointers only widen.

**The driver.** `SourceRunsContained` is the soundness of the analysis: every
register of every run is in the range the analysis has for it. The analysis
takes the instructions once, in layout order, and a run takes them in any order,
any number of times; what connects the two is `Explained`: each entry is
explained by the instruction that made it from entries that were made before
it, and stays so because entries only widen and are made once. `WalkInv` shows
this of the walk, with the information which entries are born at which position.
Then, along a run (`RunStep`), a register is in its range when it is assigned,
because the operands are: by the theorems of the interval modules for each arm,
by the branch taken for a phi. A sensor's type is the exception, since the value
is in the sensor's range only after the check: `Ahead` excuses the entries whose
checks are still to come, and a run whose check fails stops. The theorem is for
modules that are `SelfContained`: an entry function in SSA form that neither
calls nor stores, in which `avail` is a certificate that definitions dominate
their uses. Every module of the families `Straight`, `Diamond`, `Loop`,
`Equality` and `Inverting` is one: TLC evaluates that as the assumption
`FollowedModules`. The theorem does need `Trusted`'s `NoInvertingArm`, and a
module with a loop is no special case of it.

`AnalysesFormed` and `InfoStaysCurrent` are about the passes together. `IInv`
holds during both analyses, because what simplification and cleanup leave is
well formed: instructions keep their operands and pointers, a removed
instruction is not a call whose arity could break, and the enumeration of a
phi's remaining predecessors has the length of the set it enumerates. During the
second analysis the names of all entries are values of the cleaned module
(`EntriesKnown`), and the substitution begins with exactly those.

**The rewritten module.** `OutputReturnsSame` is what the optimisation is for:
the output returns what the source returns. The proof has three parts.

1. *The code.* `RewritesSelfContained`: what simplification and cleanup leave of
   a self-contained module is self-contained. The certificate `avail` restricts
   to the positions that are left (`ReachableClosed`: what `Reachable` computes
   in as many rounds as there are instructions is closed under successors, by
   the pigeonhole principle), and a comparison's replaced uses are constants.
2. *One step.* Two machines at the same position with the same values of all
   operands do the same (`Alike`, `AlikeStep`). Source and cleaned module are
   alike as long as every comparison that was folded has the value it was folded
   to (`Truths`, kept by `TruthsStay`: `DecidedRight` takes the verdict to the
   values, through `FoldIsRight` and `SwapIsRight`). Cleaned module and output
   are alike without the registers that were removed, because a range of one
   point holds one value (`SubstitutedValue`, `AlikeOutput`).
3. *The driver.* `RewriteInv` follows the code of the entry function from phase
   to phase: each pass visits it once, with the ranges of the module as it is,
   and there is a cleaned module, explained by the second analysis, that the
   output is a substitution of. `RunInv` keeps the states of the source's run
   (`Passes`) and says that the output's run is at one of them (`Follows`).

Both parts of 2 need the operands to be in their ranges *now*, whereas
`SourceRunsContained` excuses a sensor's value before its check. A comparison in
front of the check could be folded wrongly, for an input that the check would
have stopped. The source's run is therefore taken to its return first: of a run
that returns, every check has been passed (`ReturnedFull`), so each value was in
range all along, and the output follows it from the start. This is why
`OutputRunsContained` is for inputs for which the source returns, and why
`SeedsDominate` puts checks before returns: without that, `SameResult` is false
of a function that returns in front of a check. `SelfContained` says two more
things that the argument needs and front ends give: checks are in the first
block (`ChecksFirst`), and comparison results are neither divided nor described
(`TruthsApart`). `PointsHaveConstants` is the one hypothesis that is about the
model: LLVM makes a constant of any integer, the model has those named by
`ConstantValue`; the run `optimize` would stop at a constant that is missing.

**Lexers.** The invariant is `TypeOK /\ SignConsumed`: the flag is inductive with
the types, since only a number begins with a digit and takes the flag, and
finishing a word never raises it. A file that ends in a lone sign would break
the step that raises the flag, where a digit has to be under the cursor next:
`NoLoneSign` is a fact about the files, which no step changes, so that the
invariant carries it as a condition (`Lowered`). For Noisy the types say that the flag is never
raised and that every token has a type of its table.

**The Noisy parser.** `TypeOK` says that whatever the state refers to is there:
the token under the cursor, the children of a node, a call's node and scope, the
symbol a node refers to, the node a symbol has as its type. (Where the code reads
through a null pointer, the model ends with the outcome `null`; that it
does so only for listed texts is `LanguageTaken`.) `TypeOK` is not inductive.
That a computation finds its nodes depends on what the function around it has
parsed before, and that depends on calls that are still in progress. `IInv` says
so with a count (`FrameOK`): a call has got at least the nodes that the rest of
its function needs, and one less where it waits for the call above it, which
delivers one when it returns (`StackOK`). A node's symbol is in the scope it
names (`TreeOK`), and stays there because scopes only gain symbols (`Keeps`); the types
in the scopes are nodes made before (`ScopesOK`), and so survive a growing tree. There is
a lemma for each statement of the machine and for each computation
(`FunctionTypesTyped` has the most to say: three nodes are made and a scope is
changed in one step, so the new nodes must be typed against the new scopes and
the new type against the new tree). TLC was given `IInv` on a few programs
before it was proved.

### Only model-checked

- Liveness under fairness (`Terminates`, `AnalysisTerminates`, `WalksEnd`,
  `EveryTextIsLexed`, `Ends`, and the liveness half of the refinement) and
  anything about `ENABLED` are out of the prover's reach.
- `RangesContain` and `SameResult` of modules that call or store, and
  `RangesContain` of the output on inputs for which the source does not return.
- `ShrinkType`: the properties compare the results of recursive runs of two
  functions.
- `AsWritten` compares a lexer with `LongestMatch`, a recursive function: that
  the two agree on every text is an induction over the text, for which the
  library's theorems would have to be instantiated with an operator.
- The other properties of the parsers compare with phrases of a grammar, which are
  `RECURSIVE` operators that the prover cannot be used with.
- `TypeOK` of the Newton parser: which of its computations find a null pointer
  depends on the shape of the whole tree and not on a count of nodes.

## 5. Not modelled

- Quantization, the overflow report, memory alignment: between the first
  analysis and the simplification the model of the driver goes from one to the
  other directly. Shrinking is modelled on its own, with ranges that are given,
  and is not composed with the driver.
- Of the range analysis: division, shifts, the bitwise operators and casts by
  width are checked as functions of their operands and not part of the walk;
  `BitCast`, `GetElementPtr` (unions, structures, arrays of constants), `log`,
  `exp`, `sqrt`, `floor`, `ceil` and the overload arm, which
  `useOverLoad = false` never takes, are left out.
- Of the simplification: unsigned predicates, which share the arms of the signed
  ones, and `FCmp`.
- Of shrinking: `getelementptr`, constant expressions, aggregates, vectors, wrap flags, the dependency
  links that nothing calls.
- Of the parsers: messages and positions, the value of a quantity beside its
  dimensions, the kind of a symbol.
- Overload and elimination of functions and the emission of assumptions are not
  reached at this commit. Files, printing, the back ends, and Noisy's type
  checker and code generator are left out.

## 6. Plan

Done: live-variable analysis with its refinement; intervals, remainders and word
arms against the operations; the walk with its call stack; the rewriting passes
against runs; shrinking; both lexers; both parsers; and the proofs of section 4.

Left, in this order:

1. `SourceRunsContained` for modules that call: frames explained by the
   activation that analysed them, with `ArgumentsKnown` for the joins; then
   `OutputReturnsSame` for them, with a stack of positions in place of one.
2. The types of the Newton parser's machine (`TypeOK`), with an invariant that says
   which shapes its trees have.
3. `WellTyped` of the shrinking pass, as an invariant of its three walks.
4. Shrinking composed with the driver, between the first analysis and the
   simplification.

## 7. Running

    tlc -workers 2 -config MCRangeAnalysis.cfg MCRangeAnalysis.tla
    tlapm RangeAnalysis_proofs.tla

Each run finishes in under five minutes, most in seconds; the longest proof
module takes about eight. The mutants in `PROJECT.json` replace a definition by a
version with a plausible slip (defined beside it, with a suffix that says what
is wrong); the named property is then violated.
