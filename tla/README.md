# Verification of AST2Python

AST2Python lowers a Pine Script AST to a Python module that runs on the PineLib
runtime. This directory holds TLA+ models of the parts of it where a mistake is
silent: the names and scopes of the generated code, the block structure its
emitters write, the identity of the state its stateful calls reach, the life of
the generated object over bars and restarts, what a Translator lets through and
says of it, the files of a result, and the types that decide which calls are
accepted. TLC checks the models on small instances; TLAPS proves the theorems of
the `*_proofs` modules for every value of the constants. Every safety property of
the passing runs and both refinements have such a theorem; `BarEnds`, a liveness
property, is left to TLC.

## The system

| Component | State | Operations | What makes it correct |
|---|---|---|---|
| Translation context, naming (`context.py`, `naming.py`) | scope stack, `VariableInfo` objects, used names, `variables` and `type_metadata` by `<scope id>:<name>` | `enter_scope`, `exit_scope`, `declare_var`, `resolve_var`, `reserve` | no name handed out twice; visible locals differ; a key leads to the visible variable |
| Code emitter, source map (`emitter.py`, `source_map.py`) | lines, indentation, entries | `indent`, `dedent`, `line` | every path through a handler is balanced; an entry points at its line |
| Statement lowering (`translator_parts/statements.py`) | branch depth, series lists | one handler per statement kind | well-formed Python; a read reaches the cell its declaration writes |
| Declarations (`translator_parts/declarations.py`, `translator_mixins/metadata_globals.py`) | current function, functions, methods | function, method, type and enum declarations; collection of globals | as above, across function boundaries |
| Expression and call lowering (`expressions.py`, `calls.py`, `call_dispatch.py`, `call_handlers*.py`) | temporary series, call-site counters | one translation per node kind and namespace | a temporary is evaluated when and where its call is; arguments bound as Pine binds them |
| State identifiers (`state.py`) | counters per position | `state_id_for_call`, `state_id_py_expr` | one state per chain of calls |
| Module scaffold, generated class (`translator_parts/module.py`) | at run time: series, `_var_initialized`, `_series_initialized`, runtime and strategy context | `run`, `on_bar`, `_process_bar`, checkpoint export and restore | a bar is ended; a var is initialised once; a restored object continues as the original |
| Translator facade (`translator.py`, `translate_api.py`) | everything above | `translate_program` | one program does not show in the next |
| Gates and profiles (`validation.py`, `profiles.py`, `contracts.py`, `visuals.py`) | `parity_safe`, unsupported features, diagnostics | frontend contract, realtime, varip, import and visual policy checks | fails closed; what is accepted with a flag is never called parity-safe |
| Binder, type inference (`binder.py`, `type_inference.py`) | `type_info` of each variable, dtypes of series | inference in three passes, qualifier checks | accept what Pine accepts; a read has its variable's type |
| Metadata, artifact, result, CLI (`artifact.py`, `result.py`, `cli/`) | files, the report | build, write, `translate`, `translate-many` | the files of one module belong together; references are verified or none is |

The translator is sequential. What is hard in it is not concurrency but
*sequences*: a context mutated by handlers that nest arbitrarily, raise half-way
and are used again; flags and state that outlive a program; and at run time calls
of one function from several places on one bar, errors in the middle of a bar,
and checkpoints taken and restored around them. External to the repository are
the front end (Pine2AST, which rejects programs that Pine rejects) and the
runtime (PineLib).

Handlers call each other recursively. All of them share one `TranslationContext`
(scopes, names, counters) and one `CodeEmitter`; expression handlers return text,
but may write lines through the same emitter and advance counters meanwhile. The
binder reads the types that collection and statement handlers leave in the context;
the gates run before, during and after lowering and leave their findings on the
Translator, from where the metadata of every later result takes them.

## Modules

* **`Context`**: the context and its naming registry. The context is one record,
  each method an operator from a context to a context, so that a handler that
  calls several in a row composes them in one action. Pine and Python names are
  elements of arbitrary sets. `Snake`, `Base`, `Candidate` are operators given as
  constants: what matters of the spelling is which names share a base and which
  suffixed name is another name's base. The heap holds every `VariableInfo`; a
  scope refers to them by position, which stands for object identity.
* **`Lowering`** extends it by the statement handlers. The Pine program is not
  fixed: every action lowers the next piece of an arbitrary program, and a
  structure has an action where its handler opens the block and one where it
  closes it. `frames` is the Python call stack of handlers. Of the lines only
  their place in the block structure is kept, in an automaton for Python's suites
  and if/elif/else chains (`LineAllowed`). `homes` records, per Pine scope, the
  Python cell (attribute of the object, or local) that a variable's declaration
  writes; it is the reference that writes (`CellOf`) and reads (`ReadCell`) are compared
  with. A read does not get there when the name is a builtin's, which
  `_translate_identifier` takes before it looks for a variable. `Line`, `Indented` and
  `Dedented` are the emitter's methods, and `Opened`, `Block` and `Closed` the ways in
  which the handlers combine them. Consecutive simple lines leave the same blocks as one,
  so one stands for them. A list of names (parameters, targets) has one or two.
* **`PineStates`**: the abstract specification of stateful calls. Each chain of
  calls has a history; evaluating the call at its end extends that one.
* **`CallSites`**: the ids the code gives to calls. A program is translated call by
  call, then it runs: calls are entered and left, stateful calls are evaluated
  any number of times. `StateKey` is the string the runtime is asked for. `x[1]` of a
  parameter or local `x` is a stateful call whose id carries the variable and neither a
  position nor an ordinal, so all references to the history of `x` in one function ask
  for one state: the history is the variable's, one per invocation (`Subject`,
  `HistoryOf`). Whether PineLib's `expr_history` takes the bar's value once or twice when
  two references are evaluated is outside this repository.
  `KeepsHistories` says that this implements `PineStates`, where the history of a
  chain is the state its key leads to.
* **`PineScript`**: the abstract specification of a script over bars. Its statements
  are executed in order, a `var` or `varip` is initialised once, an error ends the
  pass, the series of a bar that ends become history, and a saved state is taken up
  as a whole. A state taken up in part is `Lost` until a saved one is taken up.
* **`GeneratedRun`**: the generated object. `rt` and `orders` are what the runtime and
  the strategy context keep for it; `bound`, `varInitialized` and
  `seriesInitialized` are its series attributes, `_var_initialized` and
  `_series_initialized`. `caller` and `line` are the Python stack: `run`, or a driver
  that opens bars itself and calls `on_bar` any number of times in each; `line` walks
  `_process_bar` statement by statement. Errors may be raised by `_init_series`, by any
  statement, or by a series attribute that is not bound, and reach the `finally` of
  `run`. A checkpoint is exported, restored whole or restored in part (the strategy
  context refuses its half), and a restart makes a new object. `FollowsPine` is the
  refinement of `PineScript`: the flags that are "yes" are the initialised names.
* **`Gates`**: what a Translator lets through. A program is the set of its features
  that some check is about; a Translator is constructed with a profile and flags and
  given several programs. `FrontendChecked`, `DeclarationChecked`, `Imported` and
  `Lowered` map the Translator's fields to an outcome (a state, raised or not), one
  operator per method, and `Built` makes the safety fields of a result. What a
  program contains and which flags were given is history that the properties compare
  with the result.
* **`Outputs`**: artifact building and the commands. A translation is known by its
  number, so a file's content says whose it is. `Write` writes one of the five files;
  `WriteRaises` fails before or inside one, or is the process being killed.
  `References` and `Builds` decide which documents an artifact verifies, digests or
  refuses. `translate-many` enters results in its report and goes on after an
  `AST2PythonError` only.
* **`TypeFlow`**: the types inferred at the collection of globals, for function bodies
  and again statement by statement, and the binder's decision on each argument. Next
  to each variable stand its type in Pine and its *doubts*: the places where the
  inference knows less than Pine. The properties name the doubts under which the two
  may disagree, so that they list the disagreements completely, for the expressions
  modelled. `TupleType` is what is inferred for the initializer of a tuple and
  `TargetType` what a target has after its statement: the type of its element after
  `ta.bb`, `ta.macd`, `ta.supertrend`, and these or a list in `request.security`
  (`TypedTuples`), and whatever the initializer has otherwise. `BuiltinNames` are variables
  with the name of a builtin float series, whose type is taken for the builtin's. Not
  modelled: strings, colours and arrays, `/` (whose result on two ints depends on the
  Pine version), casts to bool and string, results of `ta.*` functions that are not float,
  `request.security_lower_tf`, and the builtin names whose type is not a float.
* **`Context_proofs`**, **`CallSites_proofs`**, **`GeneratedRun_proofs`**,
  **`Gates_proofs`**, **`Outputs_proofs`**, **`TypeFlow_proofs`**: theorems about the six.
  **`Lowering_proofs`** has those about the handlers and the lines of `Lowering`, and
  **`Homes_proofs`**, which extends it, those about its cells.
* **`MCContext`**, **`MCLowering`**, **`MCCallSites`**, **`MCGeneratedRun`**,
  **`MCOutputs`** give TLC the constants; `Gates` and `TypeFlow` need only a cfg.

`Lowering` composes `Context`; `CallSites` refines `PineStates` and `GeneratedRun`
refines `PineScript`. The others meet at their data: the result whose safety fields
`Gates` checks is the one whose files `Outputs` writes, and the guards and series that
`GeneratedRun` executes are those `Lowering` and `TypeFlow` are about.

## Runs

| Run | Shows |
|---|---|
| `context` | names unique over the whole translation, visible locals distinct, keys current, for spellings that collide in every way the code distinguishes: same snake_case, a name equal to another's suffixed candidate, an escaped builtin |
| `lowering` | block structure, balance of emitter, scopes and branch depth, reads and reassignments reach their declaration (reads of a builtin's name excepted), for every nesting of two structures in a body or function, with an error anywhere |
| `lowering_again` | a Translator used for several programs still hands out no name twice and keeps no branch depth |
| `callsites` | state per chain of calls, and one history per local variable and invocation, when functions are called from the script's body, and the refinement of `PineStates` |
| `callsites_shared` | with everything else allowed, the complete list of reasons why two chains share a state |
| `generated` | the object implements `PineScript` through every order of `run`, `on_bar`, errors, restarts, checkpoints and half-way restores; a varip's two homes agree; a bar that `run` began is ended |
| `gates` | for every profile, set of flags, policy and two programs: nothing reaches a result without its flag, `parity_safe`, `unsafe` and `codegen_safe` tell the truth, and an error shown beside a safe result is a later program's |
| `outputs` | module and artifact of one translation have their metadata and source map beside them whatever failed; a report is what is on disk; an artifact's references are verified throughout or not at all |
| `types` | the calls the binder accepts are those Pine allows, but for the listed doubts; a read has its variable's base type once the statement is emitted, unless it goes back to a tuple whose elements nobody types; series have the dtype of their type |

Three runs are counterexamples to a statement of the repository:

| Run | Statement | What the code does |
|---|---|---|
| `callsites_nested` | state.py:37-38, "each call site gets its own isolated stateful series" | two calls of a function share the state of a function it calls (`call_dispatch.py:109`); with `Uses` `{"method"}` or `{"temp"}` the same configuration shows it of `obj.method()` (`call_dispatch.py:89`) and of temporary series (`calls.py:508`) |
| `generated_restart` | tests/unit/test_rc4_wave0_semantic_blockers.py:200, a checkpoint round trip "restores all owned state" | a checkpoint restored into a new object says that its series exist; `_init_series` then never creates them and the first read raises (`module.py:473`) |
| `gates_fails_closed` | README.md:38, "Fails closed for unsupported parity-sensitive behavior" | with each of the features `tick_expression`, `lookalike`, `dropped_request`: `calc_on_every_tick` by any expression but the literal (`validation.py:194`), a runtime-contract diagnostic (code `P2A1507`, or "runtime-contract" in its text) that only spells a visual builtin (`visuals.py:92`), a request in an else-if of an if-expression (`expressions.py:398`) |

Further configurations, outside the listed runs, show what the passing ones leave out.
Each violates its one invariant:

| Configuration | Module | What it shows |
|---|---|---|
| `MCContext_ArgumentsDistinct.cfg` | `MCContext` | `f(fastLen, fast_len)` is a `def` with a duplicate argument (`declarations.py:95`), while README.md:14 speaks of modules "that can be executed" |
| `MCContext_AttributesIntact.cfg` | `MCContext` | a global named `rt` replaces `self.rt` (`module.py:53`) |
| `MCLowering_WellFormedPython.cfg` | `MCLowering` | a temporary series in an else-if condition is written between `if` and `elif` (`calls.py:510`) |
| `MCLowering_ReadsReachHome.cfg` | `MCLowering` | a local with an outer series' name is written to a Python local and read from the series (`statements.py:172`) |
| `MCLowering_HidesBuiltin.cfg` | `MCLowering` | a variable with the name of a builtin is written to its own cell and read as the builtin (`expressions.py:225`) |
| `MCLowering_FreshStart.cfg` | `MCLowering` | context and lines of the previous program stay on a Translator (`translator.py:133`) |

Each passing run leaves out exactly what these are about (`HoistPlaces` without
`"elif"`, `NamesReused` and `EmptyElseIf` FALSE, `Uses` empty, parameters of different
spelling, the three features of `gates_fails_closed`), so it says what holds otherwise.
`lowering` does have a variable with a builtin's name; `ReadsReachHome` lets a read of
it, and only a read, see the builtin.
`generated` leaves out nothing for `generated_restart`: reading a missing attribute is
one more error that ends a pass, and `PineScript` allows those. It leaves out the fault
`save_mixed`, a checkpoint exported between a half-way restore and the next whole one;
the model then keeps the mixture in the checkpoint as well, `FollowsPine` maps it to
`Lost`, and the theorems cover it.

`types` names the places where the inference differs from Pine. Accepted although Pine
refuses:

* a length that goes back to an operand nobody types, such as `5 + dayofweek` (an
  unresolved name counts as a simple object). The targets of `ta.dmi` or of a user
  function are such operands, and so is a variable named like a builtin: after
  `[p, m, adx] = ta.dmi(14, 14)`, `5 + adx` passes for a simple int;
* the same with a target of `ta.supertrend` before its statement, which means in a
  function: only inside `request.security` is it known to be a tuple;
* `nz(5, s)` with a series replacement, a variable whose reassignment is a series or
  whose declared type is not its initializer's, a parameter or a loop variable;
* a bool listed in `request.security`, which is unpacked as a float.

Refused although Pine accepts:

* what goes back to an operand nobody types. The targets of `ta.dmi`, of a user
  function and of a list are never typed, so `adx` is refused as a source after its
  statement, too;
* an expression with `na` on the left such as `na + 5`;
* as a length, `math.round`, `floor` or `ceil`, and `math.abs` of an int (floats to the
  inference), and `float(..)` (a series);
* a target of any other tuple before its statement, so inside any function, because
  functions are emitted first.

### Bounds

* `MaxDecls`, `MaxScopes`, `MaxOrdinal`: three variables in four scopes with three
  candidates per base (`context`). A clash needs two names, or three when a
  suffixed name is another's own; every further variable repeats the same cases.
* `MaxFrames` 3, two variables (`lowering`): `_process_bar` or a function with two
  nested structures covers every pair of handler and enclosing handler; a handler
  restores what its caller had or it does not, whatever the caller's depth.
* `MaxCalls` 4 with two functions and one local's name (`callsites`,
  `callsites_shared`): two call sites of one function and two stateful calls or
  references to one history in it, or one function that calls another from two places.
  The shared key depends on the last two calls of a chain only.
* `MaxEvaluations` 1: the refinement speaks of single steps.
* `MaxBars` 2, `MaxOrders` 2 (`generated`): the second bar is the first in which an
  initialised var is skipped and a checkpoint of an earlier bar can be restored. The
  script has one declaration of each kind, a varip's reassignment and an order; values
  saturate at 2, so a second initialisation is seen. Pine's own limits are not modelled:
  the bounds only stop the callers.
* `MaxPrograms` 2, `MaxFeatures` 2 (`gates`): two features in one program, or one in each
  of two. A check reads at most two features of its program, and what an earlier program
  leaves behind is at most a risk, the import aliases and its diagnostics.
* `MaxTranslations` 2 (`outputs`): an old and a new result of one module name, which is
  what can be mixed. Queues hold two inputs with one stem, and a third in front; requests
  differ from the documented ones in one field.
* `MaxGlobals` 2 (`types`): an expression has one operator, so the second variable sees
  the first one's type, and the call a third operand. Joins of qualifiers are
  associative; deeper expressions repeat them. A tuple has one target: the targets of one
  declaration are typed independently of one another. One of the names is a builtin's.
  The run has the operators and atoms that some doubt is about; the theorems are about
  all of them.

`CHECK_DEADLOCK FALSE` stands where a program ends (`done`, `raised`, `refused`) and
where a bound stops the last action.

### Fairness and liveness

Translation is a terminating sequential program, and whether a run evaluates a call is
up to the Pine program: those modules state no fairness. `GeneratedRun` has weak
fairness on `Pass`, the steps of `_init_series` and `_process_bar`: once Python is inside
a pass it carries on by itself, to its end or to an exception. Nothing is assumed of the
callers: `run` may have no further bars, and a driver may leave a bar open for ever.
`BarEnds`: a bar that `run` began is ended, whichever way its pass goes, because of the
`finally` block. It does not hold of a driver's bars, and is not claimed of them.

## Proofs

**`Context_proofs`**, from `ContextAssumption` alone (candidates are Python
names; escaping never meets a candidate of another base; the bounds are natural
numbers):

* `ContextTypeCorrect`: the type invariant, inductive by itself once `Reserved` is
  known to return a least free candidate (`CHOOSE` over a non-empty set).
* `NamesAreUnique`: a name is in `used` before any `VariableInfo` carries it, so a
  free candidate is new. The strengthening is that every name of a non-parameter
  is used and that two of them differ.
* `KeysStayCurrent`: the key of a visible variable is the position of its scope.
  Kind and depth identify an *open* scope; a closed one with the same id held
  variables that are no longer visible. The strengthening ties each open scope's
  id to its depth, and each variable of an open scope to that id and its name.
* `LocalsStayDistinct` (`LiveLocalsDistinct`): a parameter carries a name nobody
  reserved for it. A local declared later differs because the parameter's base is
  used, or because no candidate is spelled like an escaped word; one declared earlier
  is never visible together with it. That needs the shape of the stack: a function
  scope stands directly on the module's, whose variables are series, and parameters
  come first in it.

**`CallSites_proofs`**, from `CallSitesAssumption` and the Pine rule that a body
calls functions declared before it:

* `CallSitesTypeCorrect`: ids, call-site ids and counters are well formed and calls
  nest no deeper than there are functions. The nesting bound needs a strengthening:
  the k-th call in progress goes to a function with a number of at most `Body - k`.
* `SharingHasAReason` (`SharedForAReason`), for every `Uses`: the counters have
  passed every number in an id or site, so a new one differs from all earlier ones
  (`CodeOK`); and the last two calls of a chain determine its key (`PathEnd`). The
  histories of locals add a reason: parameters of one name in two functions called as
  methods share a state, because nothing but the missing prefix would tell them apart.
* `FlatProgramsIsolated` (`Isolated`), for `Uses = {}`: such a program renders only
  located stateful calls and function calls from the body (`Plain`), so chains have
  one or two calls, and two of them share a state only when they are references to one
  local variable's history in one invocation.
* `FlatProgramsKeepHistories` (`KeepsHistories`), for `Uses = {}`: nothing is
  evaluated before the program runs (`Quiet`), the calls in progress form a chain
  (`Chained`), so `Evaluate` is a step of `PineStates` for the history that chain leads
  to, and isolation keeps every other history; all other steps stutter. Several chains may
  lead to one history, which the refinement mapping reads through any one of them.

**`GeneratedRun_proofs`**, from `GeneratedAssumption` (Pine's rules on declarations and
values in range), for every script, bars and mix of faults:

* `GeneratedTypeCorrect`, `VaripsAgree` and `ObjectFollowsPine` rest on one inductive
  invariant. `Bounded`: an open bar and the orders that the rest of a pass places fit
  the bounds, also in a checkpoint. `FlagsFollow`: no flag is "yes" before the series
  are initialised (otherwise `_init_series` would reset a flag while its value stays in
  the series), and behind the line in progress every guarded declaration has set its
  flag. `Agreement`: the two homes of a varip agree, in the object and in the checkpoint
  it may be restored from.
* The refinement has one lemma per action: each is a step of `PineScript` or leaves its
  variables alone. `InitSeries` maps to the start of a pass *because* of `FlagsFollow`;
  a reassignment of a varip needs its flag, which `Agreement` ties to the runtime's
  varip state.

**`Gates_proofs`**, from `GatesAssumption`, for every set of features and policies and
any number of programs:

* The invariant is `Working /\ Truthful`. `Truthful` speaks of the last result;
  `Working` carries what is needed to build it: for the program in progress, what each
  stage it is through has established (`FrontendDone`, `DeclarationDone`,
  `CollectDone`, and `LoweredDone` of each call that is lowered), that parity is given
  up only by an open flag and that import aliases come with it (`GivenUp`), that a first
  program leaves errors only behind flags (`FirstClean`), and that only later programs
  add diagnostics (`ResultEarlier`). `DoneStays` says that checks passed earlier stay
  established, because a Translator's fields only move one way.
* `GatesTypeCorrect`, `CodegenIsHonest` and `SharedErrorsAreLater` hold for all
  features. `OnlyFlagsOpen` (`FailsClosed`) and `ParityIsHonest` assume `Seen`: no
  program has one of the three features no check sees. The run `gates_fails_closed`
  shows that the assumption is needed.

**`Outputs_proofs`**, from `OutputsAssumption`, for any inputs, stems and requests:

* `FilesAreSealed` (`ArtifactSeals`): a new translation has a number that is on no disk
  yet; while its files are written, exactly those before the position in `FileOrder`
  carry it, in one module name (`InOrder`). Module and artifact therefore agree only
  when the files between them do.
* `ReferencesAllOrNothing` (`AllOrNothing`): `References` of a request that builds is
  uniform, and commands only hand it on.
* `CommandsInOrder`, from which `OutputsTypeCorrect` and `ReportsAreTrue` (`ReportTrue`)
  follow, for queues of any length. The invariant `Through` says that the arguments of a
  command are those it has entered, in order, followed by those it has still to do; that
  `has_error` is set exactly when an entry is not ok (`Progressed`); and that of each
  module name the files of the *latest* entry that wrote any are on disk (`OnDisk`), save
  for the name being written. Of an earlier entry they need not be: two inputs with one
  stem overwrite each other.

**`Lowering_proofs`**, from `ContextAssumption` and `LoweringAssumption`, for programs of
any length and any depth of nesting:

* Every theorem rests on `HandlersInv`, which says how deep each of the parts is that a
  handler opens and closes separately: the lexical scopes are one more than the running
  handlers that own one, the branch depth is the number of running branches, and the
  indentation that of the running handlers (`Deep`; for a Translator that is used again,
  at least that). It also carries the invariant of `Context_proofs` through the handlers
  (`Sound`) and the shape of the stack of handlers (`Stacked`, `Rooted`: `_process_bar` or
  a `def` at the bottom, and only there). `CountOf` counts the handlers of some kinds;
  its lemmas say what appending a handler, taking the last one off and clearing the stack
  make of the count.
* `LoweringTypeCorrect`, `BranchDepthAlwaysRestored` and `LoweredNamesUnique` need no more.
  `HandlersBalanced` (`Balanced`) assumes `~ Retranslates`: after an error the next program
  of the same Translator starts at the indentation that the error left
  (`MCLowering_FreshStart.cfg` shows it).
* `PythonIsWellFormed` (`WellFormedPython`) adds `WrittenInv`: the blocks that Python's
  grammar has open and the handlers that are running go together, innermost last
  (`Written`): a block without a statement is that of the innermost handler, which knows
  it is empty and so owes a `pass`, and the block around each branch that an `elif` or
  `else` may continue ends with the header of that chain.
  It assumes `PlainElseIfs`, which is `~ EmptyElseIf` and `"elif" \notin HoistPlaces`:
  the two cases in which the code does write Python that does not parse (the first needs
  an AST that Pine's grammar does not yield, the second is
  `MCLowering_WellFormedPython.cfg`). It does not assume a single program: the lines of
  a program after an error continue the block that the error left open, where they do not
  belong but do parse.

**`Homes_proofs`**, on top of it:

* `ReadsAlwaysReachHome` and `HomesStayDistinct` rest on `HomesInv`: a variable has a home in
  a Pine scope exactly when the context's scope of the same depth declares it (globals
  excepted, whose home is set by their declaration and not by their collection), and the
  home is then the cell of that very `VariableInfo` (`Placed`). `ReadsReachHome` follows
  because resolving and looking for the home both stop at the innermost scope with
  the name. `HomesDistinct` follows from three facts about the `VariableInfo` behind two
  homes: they are two objects (the key of each names its scope and its variable), names
  that were reserved differ, and parameters, which are not reserved, meet only locals of
  their function (`Scoped`).
* Both assume `FreshNames`: one program per Translator, and no local with the name of a
  variable of a scope around it. The second case is where a read does miss its home
  (`MCLowering_ReadsReachHome.cfg`). `ReadsReachHome` itself excepts the reads of a
  builtin's name, which miss it always (`MCLowering_HidesBuiltin.cfg`).

**`TypeFlow_proofs`**, from `TypeFlowAssumption`, for scripts of any length:

* The heart is `Agrees(t, u, settled)`, a relation between an inferred type `t` and a type
  in Pine `u` with its doubts, which every operator keeps from its operands to its result
  (`UnaryAgrees`, `BinaryAgrees`). What the properties say of a call is not kept on its own:
  that nothing is *accepted* wrongly needs that no qualifier is inferred too low and no
  float as int (`NotBelow`), but a float inferred for an int is harmless to a call and not
  to an operator above it. `NotAbove` and `SameBase` are the converse, `SameShape`
  keeps na and bool apart from numbers, and `settled` says that no tuple is still to be
  unpacked in front of it. Until then a `late` type (from `ta.supertrend`) may be too low.
* A tuple is the one place where types change: `TupleAgrees` says that what is inferred for
  an initializer agrees, unsettled, with what Pine unpacks, and that the type of the
  target after its statement does so settled. Targets that are never typed agree because
  they are `unresolved`, and everything computed from them is.
* The inductive invariant `FlowInv` says of every declaration that its initializer is
  formed from earlier names, that what is recorded for it is what Pine's rules make of
  the initializer, and that its inferred type agrees with it: settled if its statement has
  been emitted. The step that needs care is `EmitVar`, which infers the type again from the
  types as they are *now*: where no tuple is behind the variable nothing it depends on has
  changed since the collection (`ExprStays`), so the dtype that was fixed then still fits;
  where one is, all its operands have been emitted and are settled.
* `BinderAcceptsOnlyAllowed`, `BinderRefusesOnlyDisallowed`, `EmittedReadsTrue` and
  `SeriesKeepTheirType` read the four properties off the relation; `TypesTypeCorrect` is
  the type invariant.

What stays with TLC: `BarEnds`, because liveness under fairness is out of the prover's
reach. What is not proved at all: that `snake_case` and escaping compute what the code says
(names are compared as values), and that the counterexamples of the violation runs are the
only ones; the hypotheses `Seen`, `Uses = {}`, `FreshNames` and `PlainElseIfs` are
each known to be needed from a run or configuration above, not from a proof.

## Not modelled, and the plan

Next:

1. `ValueForms`: if- and switch-expressions, lazy operands and hoisted temporaries
   against a reference evaluation of small trees; scope of loop bounds; the subject of a
   switch that is translated once per case.
2. `SourceMaps`: entries added while lines are emitted, attached afterwards and
   completed for the artifact.
3. The binder's matching of positions and keywords to parameters, and its defaults.
4. The object's lists of alerts and external calls, which no checkpoint contains; the
   library scaffold, whose `run` begins and ends the bars with nothing in between and
   which has no `on_bar`.
5. Proofs: the isolation that remains with nested calls (keys differ whenever the
   innermost two calls do), and how far `Balanced` holds of a Translator that is used
   again after a program that ended without an error.

Not planned: text of single calls (`emitters/`, call tables), metadata extraction,
digests, the lowering matrix, the unused `scheduler.py`, release tooling.
