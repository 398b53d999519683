# Verification of Dynare

This directory holds TLA+ specifications of Dynare: of the parts in which several
actors interact (threads of dynare++, processes of Parallel DYNARE, sessions that
crash and are recovered), and of the preprocessor and the bytecode simulator, long
sequential programs in which what one pass leaves must be what the next one takes
for granted. TLC checks them on small instances; TLAPS proves the theorems about
the threads, the cluster, the sessions, the passes over a model file and the
normalisation of a model for every
value of the constants.

## 1. The system

Dynare solves and estimates economic models. A C++ *preprocessor* turns a model
file into MATLAB files or bytecode; *MATLAB/Octave* routines simulate and estimate
it, some of them in parallel on a cluster (*Parallel DYNARE*); *MEX* files do the
heavy numerics, among them a *bytecode* evaluator that simulates models block by
block; *dynare++* is a separate multi-threaded C++ program.

| Component | State it keeps | Operations | Interacts by | Status |
|---|---|---|---|---|
| dynare++ keyed mutexes (`sthread.hweb`: `mutex_map`, `synchro`) | process-wide map key -> (mutex, reference count) | construct/destroy a `SYNCHRO` object | shared memory, mutexes | modelled, proved |
| dynare++ detached thread groups (`condition_counter`, `detach_thread_group`) | list of jobs, counter, changed flag, condition | `insert`, `run`, destructor; the thread function | shared memory, condition variable, detached threads | modelled, proved |
| Parallel DYNARE: job distribution (`distributeJobs.m`) | shares of nodes and CPUs | one computation per call | return values | modelled |
| Parallel DYNARE: master and slaves (`masterParallel.m`, `slaveParallel.m`, `fParallel.m`, `fMessageStatus.m`, `closeSlave.m`) | files of a shared directory; processes | call, launch, poll, collect, break, close; slave loop | files, process launch | modelled for a local cluster |
| Metropolis-Hastings sessions (`metropolis_hastings_initialization.m`, `random_walk_metropolis_hastings*.m`) | history record, draw files per chain | new session, `load_mh_file`, `mh_recover`, draw, save | files; Parallel DYNARE | modelled, `mh_recover` in serial |
| Preprocessor: model file and statements (`ParsingDriver.cc`, the statement classes, `ModFile.cc`) | buffers of the parser, symbol table, list of statements | one handler per piece; `checkPass`, `transformPass`, `computingPass`, `writeOutput` per statement | function calls; the script acts on MATLAB's workspace | partly modelled |
| Preprocessor: expressions (`DataTree.cc`, `ExprNode.cc`) | the tree | build, evaluate, derive, normalise, write | shared nodes | partly modelled |
| Preprocessor: transformation of the model (`DynamicModel.cc`, `ExprNode.cc`) | equations, local variables, auxiliary variables and equations | the passes of `transformPass` | each pass rewrites what the last one left | partly modelled |
| Preprocessor: derivatives and their files (`ModelTree.cc`, `DynamicModel.cc`, `StaticModel.cc`) | tables of derivatives, numberings | `computingPass`, the writers of the files | files read by MATLAB | partly modelled |
| Preprocessor: temporary terms and bytecode; the stack machine (`CodeInterpreter.hh`, `Interpreter.cc`) | temporary terms, instructions; stack, registers | compile, write, load, run | the `.cod` file | partly modelled |
| Preprocessor: normalisation and blocks (`ModelTree.cc`, `MinimumFeedbackSet.cc`) | matching, order, blocks | the steps of the decomposition | one after the other | partly modelled |
| Block simulation (`Interpreter.cc`, `SparseMatrix.cc`) | path, Newton flags, matrix, recorded elimination | evaluate or solve each block in each period | the vector `u`, MATLAB's solvers | partly modelled |
| dynare++: terms, derivatives and files (`tree.cpp`, `formula_parser.cpp`, `dynare_model.cpp`) | the vector of terms, derivatives by multi-index | add, derive, evaluate, dump, write | shared terms; files read by Dynare and MATLAB | partly modelled |
| Joinable thread groups, users of the threads, remote files, macro processor, memory manager, filters, reporting | | | | not modelled, see section 7 |

What makes them hard. The reference count of a mutex decides when its memory goes
away while others wait on it. Detached threads are known only through a counter
that dies with its group. A cluster is coordinated by files that two processes
create and delete without locks. A simulation that spans sessions and crashes is
held together by a record of what a session was going to do. The parser collects
statements in buffers that every handler shares. Passes substitute variables over
one another's results, and one wrong period changes the model without a message.
Half of the symmetric derivatives is stored, all are written, and their number is
counted in a third place. A byte stream is jumped over by computed lengths. An
elimination is recorded in one period and replayed in the others. `PROJECT.json`
lists the hazards at their lines.

## 2. Modules

| Module | Models | State and actions |
|---|---|---|
| `KeyedMutex` | abstract: what a `SYNCHRO` object promises | `inside[key]`; `Enter`, `Leave` |
| `Synchro`, `MC_Synchro`, `SynchroProofs` | `mutex_map`, `synchro::lock`, `synchro::unlock` | one action per access to the map, its mutex, a node's mutex and a count |
| `JobPool` | abstract: what a group promises | `job[j]`, `returned`; `Submit`, `Start`, `Finish`, `Return` |
| `DetachThreadGroup`, `DetachThreadGroupProofs` | `detach_thread_group`, `condition_counter`, the thread function | main thread and one thread per job, one action per step of a critical section |
| `DistributeJobs`, `DistributeJobsProofs` | `distributeJobs.m`, the ranges of `masterParallel.m` | `Share`, `Trim`, `Trimmed`, `Serve` and the results as operators |
| `MasterSlave`, `MasterSlaveProofs` | a session of Parallel DYNARE on a local cluster | the master's loop (`Begin` ... `Collect`), the user, and slave processes |
| `MetropolisHastings`, `MetropolisHastingsProofs` | sessions, draw files and the history record | the user's choices (`StartNew`, `StartLoad`, `Recover`, `Refuse`), the chains (`Advance`, `LoadFails`), `Crash`, `End` |
| `DataLemmas` | no code: facts about sums and concatenations that the proofs use | lemmas |
| `Numbers` | what a double is abstracted to, the `eval_opcode` functions | operators |
| `DataTree` | the nodes, the `Add` functions with their simplifications | operators |
| `ExprNode` | evaluation, collection of variables, leads and lags, static version, detrending | operators |
| `Derivation` | derivatives and chain-rule derivatives, with the table of derivatives that each node keeps | operators |
| `Normalization` | `normalizeEquation`, the type of an equation | operators |
| `Output` | the text written for MATLAB and C, and its reader (external) | operators |
| `CodeInterpreter`, `Bytecode`, `Interpreter` | the instructions and their file; compilation; the stack machine | operators |
| `TemporaryTerms`, `ModelCode` | costs and temporary terms; the code of a model | operators |
| `OperationTree` | the terms of dynare++: quick exits, derivatives, evaluation, the dumped formula, the MATLAB files of the static model | operators |
| `Expressions`, `MC_Expressions` | the expressions a user may write, and all of the above applied to them | one action per way to extend an expression |
| `AuxVars` | the substitutions that introduce auxiliary variables | operators |
| `TransformPass` | `ModFile::transformPass` | one action per pass |
| `ComputingPass`, `MC_TransformPass` | `ModFile::computingPass`, the derivative files and how MATLAB reads them | one action per table of derivatives |
| `MinimumFeedbackSet` | the reductions of a dependency graph and its feedback vertices | operators |
| `Blocks`, `MC_Blocks`, `BlocksProofs` | normalisation and block decomposition | one action per step of the decomposition |
| `ParsingDriver` | the parser's handlers and their buffers | one action per handler |
| `Statements` | `checkPass` and `writeOutput` of the statements | operators |
| `ModFile`, `MC_ModelFile`, `ModFileProofs` | the passes over a file, the script run line by line | `Parse`, `EndOfFile`, the passes, one statement written at a time |
| `SparseMatrix` | the matrix of a block, its elimination and its record | operators |
| `BlockSimulation`, `MC_BlockSimulation` | the code of the blocks, the loops over blocks, periods and iterations | one action per evaluation, solution, pivot, period and Newton step |

Composition. `Synchro` and `DetachThreadGroup` implement `KeyedMutex` and
`JobPool` by refinement mappings. `Expressions` composes the tree, derivation,
normalisation, text and bytecode modules, and the terms of dynare++: what one writes
the other reads back.
`ComputingPass` extends `TransformPass`: the derivatives are those of the model that
came out of the passes. `ModFile` extends `Statements` and `ParsingDriver`: the
script is run against what the text said. `Blocks` takes its feedback sets from
`MinimumFeedbackSet`; `BlockSimulation` extends `SparseMatrix`.

### Synchro

`pc[t]` names the statement of `lock` or `unlock` that thread `t` executes next;
`mutmap`, `owner`, `refs` are the tree, the mutexes and the counts. Nodes are
addresses: `EndInsert` may take any address not in the map, also one that was
just erased, which is what makes dangling visible. Insertion and erasure take two
steps, because `lock()` looks its node up a second time after `unlock_map()`
(`sthread.hweb:390`): a lookup during a change may miss (`FindMisses`), which is
the undefined behaviour of the code, and ends the program (`segv`). The mutex
hand-over is unfair: any waiting thread may get it.

### DetachThreadGroup

`run()` is cut at the accesses to the counter's mutex; `pthread_cond_wait`
releases it, is woken by `Broadcast` or without reason, and takes it again.
`increase` is one step after the lock (its broadcast finds nobody: only main
waits), `decrease` four, since `run()` could destroy the group between them.
`Throwing` jobs may leave through `pthread_exit` without `decrease`; `Failing`
ones may never be created.

### DistributeJobs

The inputs (cluster, weights, first and last job) are chosen in `Init`. Rounding
is modelled by what it does: a share that is a whole number may be rounded up to
the next, since it is computed in floating point. The branch of lines 120-132 is
not an action: `NeverShort` shows that it is dead.

### MasterSlave

Variables are the files (`pfile`, `job`, `input`, `pslave`, `output`, `closing`,
`brk`), the master's locals and the slave processes. Each call has a number that
outputs and jobs carry; the program has none, and that is what `FreshOutputs` is
about. Strategy 0 (`fParallel`) and 1 (`slaveParallel`) share the actions that
they share in the code. One timing assumption is explicit: `Paused`, the
`pause(1)` of `masterParallel.m:244` outlasts the few statements between a
slave's last look for a job and the deletion of its `P_slave` file. `Patient`
says whether the user lets old slaves notice a restart. No function in the
repository asks for the end of all slaves (`CloseAllSlaves`), but both ends of
the mechanism are there for functions that do, and are modelled.

### MetropolisHastings

`files[b][k]` are the rows of `mh<k>_blck<b>.mat`, a row being a draw
`<<session, number>>` or the zeros that `x2` is initialised with. `MhDraws`,
`LastFileNumber`, `LastLineNumber` and `LastParameters` are the record on disk;
the rest is in memory and is lost in a crash, so that `Advance` takes the draws
between two saves in one step. `StartLoad` follows the documentation:
`load_mh_file` is used after a session that ended or that `mh_recover` has called
complete, and never with `mh_recover`. In a parallel session the chains advance in
any order. `exposed` is not in the program: it remembers that a session crashed
that began in the middle of a file, the case in which nothing is guaranteed.

### Numbers, DataTree and the modules over them

A double is a power series in a variable t, cut after `Order` terms, with
coefficients in the field of 17 elements. In this ring the functions of the C
library have exact values that satisfy their laws (exp(a+b) = exp(a)exp(b), and the
derivative of f(x(t)) is f'(x(t))x'(t)), which neither floating point nor a finite
field alone would give TLC; the coefficient of t is what a derivative must be. A
value the ring does not have is NaN, as in the code, and says nothing. Nodes are
records, shared because equal records are equal. The text of an expression is a
sequence of tokens, and the reader groups it as MATLAB or C do (`Parsed`, external:
operator precedence is the languages', not the repository's). A bytecode file is
a sequence of cells, one for each field that is written.

### Expressions

`tree` is the expression the parser has built, `value` what the user wrote: the
same operations applied to values. Its properties say that simplification,
derivation, chain rule, normalisation, text and bytecode agree with the value.
A node keeps its derivatives in `derivatives`, which `getDerivative` and the chain rule
both read and fill, the chain rule last and without saying by which recursive variables:
these tables, as `computeJacobian` leaves them (`JacobianTables`), go through all the
chain-rule derivations of a block (`ChainRuleJacobian`).
`ChainRuleIsTotal` derives a block of two recursive variables, the second of which holds
the first, in the order of the code: what was stored with one recursive variable left is
read with both, by two equations and for a variable and its lead.
`terms` is what dynare++ builds from the same text, by its own rules: the properties
ask the same of it, of its derivatives by multi-index (mixed ones in either order),
of the formula it dumps and of the two files of its static model, run line by line.
Left out, because the code is wrong or has no right answer there (section 6): the
derivative of atanh, inverses that `normalizeEquation` gets wrong, comparisons
inside comparisons and sums inside a C density in the text, powers of a negative in
the formulas dynare++ dumps, `log10`, `abs` and
`sign` in the bytecode, equations that hold a sign or a comparison of the variable
they are evaluated for. The steady-state operator is derived in the static model, where
it is its argument; its derivatives by parameters in the dynamic one, where `value` has
no answer by itself, are in `ComputingPass` only.

### TransformPass and ComputingPass

`given` is the model file; `eqs`, `locals`, `aux`, `types` are `equations`,
`local_variables_table`, `aux_equations` and the auxiliary symbols. A pass is an
action, in the order of `ModFile::transformPass`. `SamePaths` compares the
residuals with those of the file on paths on which the auxiliary variables have
their definitions; from the planner's problem on (`base`), `RamseyFOC` compares each
first order condition with the derivative of the discounted Lagrangian.
`ComputingPass` then numbers the variables, derives to the order asked for, finds the
maximum lags and leads, replaces what is costly and used again by temporary terms and
writes triplets; `FilesHoldTheModel` reads them back the way MATLAB does, temporary
terms first, and compares with the derivative of the residual in the direction of all
variables at once. Its part for the dynamic file, `DynamicFileHoldsTheModel`, leaves
out models that keep leads or lags of exogenous variables, `AuxiliariesDefined`
logarithms of expectations and the multipliers' initial values, `CertaintyKept` local
variables with leads (section 6).

### Blocks

What the decomposition sees of a model is the incidence of its variables and the
size of its derivatives: `file.entries`, a size being -log2. The actions are the
steps of `computeNonSingularNormalization`, the prologue and epilogue, the strong
components, the feedback sets and reordering, the types and the merging of blocks.
Loops that run until nothing changes are folds over as many rounds as there can be, so
that the modules can be proved about. `NormalizationIsBest` says nothing of a matching
that needs an entry of 1e-15 of its row's largest or less: after the last cutoff the code
takes any matching. `FilesAssumption` says that a derivative is kept once (a map).

### ParsingDriver, Statements and ModFile

A family in `MC_ModelFile` is a set of declarations and of pieces, a piece being what
one handler reads; the text is any sequence of them the grammar allows, up to
`longest`. An element of a statement may carry a rank: elements of one block are then
written in that order only. `scratch` are the driver's buffers, `ws` the workspace of
MATLAB, a function from places to values. `PathsAsDeclared`, `CovariancesAsDeclared`,
`EstimatedAsWritten` and `RestrictionsKept` compare `ws` with a reading of the text
that knows nothing of buffers, indices or statements. What is an error in MATLAB
ends the script (`stopped`): a copy of what is not there or of a row that is not in a
subsample, and an `estimated_params_init` that searches an empty table or asks for a
correlation; a row that a table with rows does not have is no error, and nothing is
written. The options of a command go to its own group of the workspace (`WriteGroup`).
`StatementsHoldTheirPieces` asks of each statement as many
pieces as the text has between its ends, in buffers that a statement of its kind takes:
nothing is left over from an earlier one or lost. `DerivativesSuffice` leaves out the default order next
to a written one, and identification with `simul`, without the static model or
without a model at all. `FilesAssumption` is what the grammar says of the pieces: which of them end a
statement, and that an element can only stand in statements whose handlers take what it
leaves (`Elements`, `Filled`, `Taken`, `Closings`); `DeclaredOnce` says that what stands before
the text declares a name once and observes endogenous variables. No more is assumed of a
file, and TLC finds it true of the families. `CovariancesAsDeclared` speaks of texts with
`ProperPairs`: the code accepts a covariance of a name with itself, which it writes over the
variance, a change of type after a block that gave the variable a variance, and a name that
stands twice in `varobs`, of whose rows in `M_.H` only the first is written. The symbols that
only an option of conditional_forecast, sbvar or dynare_sensitivity may list are left out.

### SparseMatrix and BlockSimulation

Numbers are in the field of `P` elements, where an elimination is exact, with one
more value for a division by zero; a test against eps is a test for zero, the size
that prefers a pivot is any choice. Convergence is an exact solution, so a step
"does not improve" by choice (`Damp`, at most `MaxDamped` times). MATLAB's solvers
are external: they solve the system or warn. `replay` holds
the operations recorded for a period (`t_save_op_s`), compared over three periods and
replayed, with the places of `u` that are freed and taken again. `newton` holds the
flags that the steps leave each other, over periods and blocks (`slowc_save`,
`try_at_iteration`, `symbolic`, `alt_symbolic`, `restart`, `start_compare`, `tbreak_g`).
GMRES and BiCGStab may give any solution of a singular system. Recursive variables have
neither lags nor leads in their block: `select_feedback_variable` is set for the dynamic
model. `slowc` is a parameter of the problem; with another value than 1 a linear block,
which takes a single step, is left short of its solution, so that only nonlinear
problems are tried with it. `SimulationSolves`
needs what the instances leave out: linear blocks of one boundary with
`stack_solve_algo` 1 or 4, linear backward blocks of several variables and linear
blocks with recursive variables after an iterating block, and nonlinear one-boundary
blocks with the own elimination (section 6).

## 3. Runs

| Run | Expect | Shows |
|---|---|---|
| `Synchro` | pass | counts exact, no dangling mutex, implements `KeyedMutex`, everybody gets through |
| `DetachThreadGroup` | pass | counter exact, nothing used after destruction, implements `JobPool`, no lost wakeup |
| `DistributeJobs` | pass | the rounded shares suffice, each job on one CPU, the trim ends |
| `MasterSlave` | pass | fresh results, nobody works on after a call, one slave per CPU, when a call ends |
| `MetropolisHastings` | pass | the files hold what the history promises, every draw once and in order, what a recovery may leave alone, old draws stay |
| `Expressions` | pass | simplification, derivatives, chain rule over shared nodes and nested recursive variables, normalisation, text and bytecode keep the value |
| `TransformPass` | pass | the model that comes out has the same solutions and the right first order conditions, in a form the solvers accept, and the files hold its derivatives |
| `Blocks` | pass | the matching is the least singular one, prologue and epilogue are triangular, the blocks can be computed in their order |
| `ModelFile` | pass | statements hold their own pieces; paths, covariances, priors and restrictions are those of the text; the derivatives a command reads are computed |
| `Simulation` | pass | a simulation that ends without a warning solves the model |
| `BlocksLinear` | violation | a block that multiplies two of its unknowns at different periods is said to be linear |
| `EndvalZero` | violation | a variable that `endval` does not mention keeps its `initval` |

Bounds and why they are enough:

- `Synchro`: 3 threads, 2 keys, 2 node addresses, 2 sections per thread. Two
  threads on one key make a count of 2 and a waiter, the third changes the tree
  with the other key; two sections let a key be erased and created again on a
  reused address.
- `DetachThreadGroup`: 5 jobs on 2 slots, so that the loop is full, drains and
  refills; one job may throw, one may not be created.
- `DistributeJobs`: 3 nodes are needed for trimming more than one node, 3 CPUs
  for a node with fewer jobs than CPUs, 2 weights for unequal shares, 6 jobs for
  more jobs than CPUs of a node; first jobs 1 and 2.
- `MasterSlave`: 2 CPUs (a first and a last), 3 calls (a slave is launched, kept
  and found dead), 2 sessions, at most two live processes per CPU.
- `MetropolisHastings`: 3 chains, so that a crash leaves a complete, a partial and
  an untouched one; files of 3 rows and 1 to 5 draws per session, so that a session
  ends before, at and after the end of a file; 3 sessions, 2 crashes.
- `Expressions`: every operator and function over every kind of leaf, and the
  operations of `Outer` over those (`MaxOps` = 2): each rule of simplification,
  derivation and output looks at an operation and its operands. Series of `Order` 3
  have a first and a second derivative. The block of `ChainRuleIsTotal` takes each
  operation over each leaf, and each such operation behind a local variable; two
  recursive variables are the least with which a stored value is read under another set
  of them than it was stored under, two equations and two variables with which a node is
  shared and has two derivatives.
- `TransformPass`: pairs of terms with leads up to three and lags up to two, in sums,
  products, quotients, functions and local variables; nested expectations; two
  trends; a planner over them; derivatives to the third order and by two parameters.
- `Blocks`: all incidences of three dynamic equations with a lag and a lead, of four
  static ones (two strong components of two, one of four), and all combinations of
  five sizes for the cutoffs, two of which together pass the last one.
- `ModelFile`: fifteen families of up to eight pieces, two periods and one lag: a
  block that is repeated, a block between two others, and a command after each.
- `Simulation`: one to three blocks of one or two variables; three periods for what
  they do, 12 to 24 where the replay must be recorded, compared, used and abandoned.

Fairness. Threads and processes that can run are scheduled (weak fairness per
thread or process); jobs are finite. Mutexes are not fair. Spurious wakeups stop
at some point. In `MasterSlave` the user owes nothing, and a job ends in some
way. The preprocessor and the simulator are sequential and have no liveness
property but their end. Deadlock is not checked where the system stops by itself or
its bounds stop it.

Every property of a passing run is broken by a mutant of the model, kept in the
module before or after the definition it changes and listed in `PROJECT.json`.

## 4. What is proved

`SynchroProofs` (for every finite set of threads, all keys and addresses and any
number of sections) and `DetachThreadGroupProofs` (for any number of jobs, any
`max_parallel_threads`, any sets of throwing and failing jobs), and
`MasterSlaveProofs` (for any number of CPUs, calls and sessions, both strategies and
every set of faults, when the user is patient), `DistributeJobsProofs` (for clusters of
any number of nodes, CPUs and weights and calls of any size) and
`MetropolisHastingsProofs` (for any number of chains, rows of a file, draws per session,
sessions and crashes), `ModFileProofs` (for any files that the grammar accepts) and
`BlocksProofs` (for models of any number of equations, with derivatives of any size).

*Synchro.* The properties are not inductive: that a count is right needs to know
who may change it. `IInv` adds that the holder of the map's mutex is the only
thread in a critical section (`MapOwned`), that two keys never share a node
(`NodesApart`), that a thread past its registration has its node published
(`Published`), that a node with nobody registered exists only inside the critical
section that creates or erases it (`Accounted`), that `node[t]` is the published
node from the lookup to the release (`NodeKnown`), and that a thread inside owns
its mutex (`OwnsNode`). One lemma per action shows that it keeps `IInv`;
`Invariance` combines them; `TypeCorrect`, `CountsAreExact`, `NeverDangling`,
`MapStaysMinimal` follow. `Refinement` maps `LockMutex` to `Enter`,
`UnlockMutex` to `Leave` and every other step to a stutter.

*DetachThreadGroup.* `IInv` adds which threads hold the counter's mutex, that what
`waitForChange` returned bounds the counter from above while main decides (only
main increases it), and that the threads in existence fit in the counted slots.
`BoundedParallelism`, `SafeDestruction` and `Refinement` (to `JobPool`) follow.

*MasterSlave.* What protects a call is spread over files that different processes
write and delete, so none of the three invariants is inductive. `IInv` adds, in the
order of the argument: a slave that waits remembers no job (`WaitersHaveNoTask`);
during a call a live slave of strategy 1 is one a `P_slave` file stands for
(`Registered`), so that a CPU without that file, or one that works for strategy 0,
has no slave when a command is written for it (`Commanded`, `Preparing`): that gives
`NoTwins`. Who works during a call works for this call and its `P_` file is there
(`WorksForTheCall`), and a job file that a slave may find is of this call
(`FindsJobsOfTheCall`): when no `P_` file is left nobody works (`NobodyStillWorks`)
and what was saved is of this call (`OutputsOfTheCall`, `Collecting`,
`FreshOutputs`). `Waiting` carries this from one call to the next: between calls the
slaves that have an input file wait, and the others belong to an earlier session.
There `Patient` is needed, and only there: no action but `Begin` uses it.
`LaunchStarts` says what a launch does to one process; the other lemmas are one per
action. `Paused`, the `pause(1)` of the master, is part of the specification (section 2).

*Sums and concatenations.* `DistributeJobs` and `MetropolisHastings` count with `SumFunction` and
`FlattenSeq`, which the community modules define by recursion. `DataLemmas` proves what
they compute, for every input. A recursive function is the `CHOOSE` of one that satisfies
its equation, so that such a function exists is proved first (`FoldExists`,
`ConcatExists`); what holds for every number is an induction on the set of numbers for
which it holds (`Induction`, from the well-foundedness of <). From there: sums can be
taken apart in any order and compared term by term (`SumRemove`, `SumBound`,
`SumScale`), and pieces that fit together are the sequence (`FlattenPieces`).

*DistributeJobs.* `NeverShort`, that the shares of the nodes never sum to less than the
jobs of the call, holds after `Share` because no share is rounded down, and while `Trim`
takes one job at a time from a sum that is too large. `IInv` adds that the nodes that trimming has passed have nothing left
(`Trimming`): with `NeverShort` the search never leaves the cluster
(`SearchStaysInCluster`), which the code relies on and does not test. `Served` says that
the CPUs served so far have the jobs of their nodes, none a negative number
unless a node starves; then the ranges are those of `busy`, whose recursion is unfolded
for `EachJobOnce`.

*MetropolisHastings.* The four properties compare the files with the record, which are
computed apart: the record counts files and rows with `ceil`, the chains count the rows
left in a file. `IInv` joins them by one number, the position `At(k) + i` of row `i` of
file `k` among all draws of a chain. The record is
`Recorded` when the end of its last file is the number of draws of all its sessions and
the end of the session before is where this session's draws begin. A chain is `InStep` when
its next row has the position of its next draw. A file holds (`Held`) no row beyond what
belongs there, and exactly the draws that belong there unless a session crashed that
shares a file. `HasFiles` says which files are there in each phase of a chain; a recovery
may find more, which it overwrites, so that it is an equality only outside recovery.
`Stuck`, load_mh_file after a full file, is a state from which only the failure of the
load is ahead (section 6). `ChainPlace` shows where the next row may be (in the last file
of the sessions before or after it), `SavedRows` what is written there, `AdvanceKeeps`
that `IInv` survives it. `RecordMatchesFiles`, `SessionsComplete` and `RecoversEveryChain`
follow with `FlattenPieces`; `OldDrawsStay` because what is saved outside a recovery is
either appended or begins with the rows of the file it replaces.

*ModFile.* `DerivativesSuffice` joins what one statement reads in the script to what
one pass has computed for all of them, and between the two lie the whole text, the
notes of every `checkPass` and every line of the script before. `IInv` follows the
order through them. `BufferInv`: an order is in `options_list` only while a command
that takes one is being read, although all handlers share the buffer; hence
(`StatementsInv`) the options of a statement have an order only if it is one of those
commands, and `ParseKeeps` says so of each of the handlers. `NotesInv`: after
`CheckStatements` each statement is `Noted`, which an induction on the statements
shows (`NotesAfterKnow`), since no pass takes back a note that is needed or lowers the
order (`Carried`). `FileInv`: no command that needs a model is in a file without one.
`WritingInv`: the order in the workspace is one that a statement written so far has
set, is 1, or is not there, which asks of every `writeOutput` that it leaves
`options_.order` alone (`OthersKeep`) or sets it to its own (`StatementWritten`).
`IInvSuffices` concludes: the order that a command runs with is at most the one that
was noted, or nobody wrote one and it is 2.

`StatementsHoldTheirPieces` speaks of finished statements only, whereas what could go
wrong is in the buffers, which all handlers share and which no one clears at the start
of a statement. `PiecesInv` follows them while the text is read. `Belong`: whatever a
buffer holds is taken by every kind of statement that the pieces read so far may still
turn out to be, and nothing is held when no statement is open. `Count`: as many things
are held as the open statement has pieces that count, plus one for all options of the
optimizer, which share an entry; the symbols are counted apart, because an option that
has a list as its value takes them out of the buffer and leaves one thing for several.
`ElementRead` says how one more piece changes these numbers, `EndCounts` that they are
those of the statement when it ends, `Closed` that its end leaves all the buffers empty
because what it does not take was never filled, and `StatementCloses` that the statement
then has all they held. There is one lemma for each group of handlers: what appends to a
list (`AppendHolds`), enters a map (`EntryHolds`), sets options (`OptionsHold`), ends a
statement (`EndingsHold`, `TasksHold`, `SubsamplesHold`, `PolicyHolds`), or touches no
buffer that is counted (`DeclarationsHold`, `OtherBuffersHold`). `FilesAssumption` is what
`Belong` rests on. The prover does not know `@@` and `:>`
of TLC, so `ParsingDriver` defines its own.

`CovariancesAsDeclared` compares the end of the script with the text, and each of the four
things between them has its part of the proof. While the text is read (`CovRead`):
`Buffering`, the four buffers of variances and covariances hold what the pieces of the open
block say, each pair of names once; `Laid`, every block that has ended is one statement
that holds the same, the statements are in the order of the blocks, and no other statement
writes covariances; `AllTyped`, the names are still exogenous or observed, in a symbol table
that only grows, so that a key means the same at the end (`GrownKeys`). A handler that ends a
block gives the buffers away (`ParseRead` and the lemmas before it, one for each group of
handlers); `ReadInv` is what is left after the last piece, and a statement that
`TransformFile` puts first shifts the places (`LaidAfter`). While the script is written,
`CellsInv`: the statements written so far are the blocks up to a piece, and every cell of
both matrices holds what the blocks up to there say (`CellsHold`). That a block takes it
to the next (`ShocksWritten`) needs that two pairs never share a cell (`CellsApart`), which
needs that the numbers of the symbols of a type are all different and have no gap
(`NumbersApart`, `NumbersMet`), that variances are in the workspace before the
correlations of the same block read them (`VariancesWritten`, `CovariancesWritten`), and
that the block writes both halves; that the rest does not touch a cell is `CellsKept`, a
lemma on every `writeOutput`. `AllSaid` concludes: after the last block, what is said up to
it is all that is said.

*Blocks.* `NormalizationIsBest` compares the search, which adds entries from the largest
down and stops at the first matching, with every matching there is. That Max and Min
return what they should is proved first, by induction on the number of elements
(`HasBounds`). A matching is among the entries down to its worst one (`FoundAtWorst`), so
the search succeeds there at the latest (`FirstTry`); what it finds among the entries
down to some distance has none farther (`NoWorse`), for which an entry has to be the only
one of its equation, variable and lag. `PatternIsBest` has the cases: a try succeeded, or
there was none because all entries are as large as their row's largest. `IInv` carries
the incidence from one step to the next. Proving it showed that the property claimed too
much: the instances had no matching that is only found after the last cutoff; they now
have some.

`EndsAreTriangular` says that an equation of the prologue holds only variables of its
own and earlier places, that a variable of the epilogue is only in equations of its own
and later places, and that the equations of both ends stay with their variables. The
code swaps places while it scans them, until a scan changes nothing; the lemmas
`TakeEquationKeeps` and `TakeVariableKeeps` say that one swap keeps the triangle and
both orders permutations of each other by the matching, `IterationKeeps` carries that
through the folds that stand for the loops. What comes after permutes what lies between
the ends only (`MiddleInv`).

`SolvedInOrder` says that the blocks can be run one after the other: each variable has a
place and each place is in one block, an equation stays with its variable and holds
variables of earlier blocks, and those of its own block where the type of the block makes
them known. Four algorithms on graphs of any size stand
behind it, and each is a lemma about the folds that model its loops (`ThoseOf` and the
lemmas on `FlattenSeq` say what a filter and a concatenation keep):

- the feedback set. The graph loses vertices while it is reduced, and `Cutting` is kept
  by each rule (`RulesCut`): a cycle of the graph at the start has a vertex that is put
  aside, or leaves a cycle on some of its vertices in what remains. At the end nothing
  remains that has a cycle (`ReducedOf`; `Still` bounds the steps by a potential), so
  the set that was put aside cuts every cycle (`FeedbackOf`). A walk passes over the
  vertex that comes after a removed one: it may leave work to the next walk, and nothing
  in the argument asks it not to;
- the order of the recursive variables. A finite set of which each vertex comes after
  another one holds a cycle (`NoFirst`), so walking for vertices without a predecessor
  puts all of them aside (`OrderedOf`), those of a component without its feedback set
  among others (`RecursiveOf`). A vertex that is not forced into the feedback set has
  only entries at lag 0 in its block, so all recursive variables are in the first
  of the four passes (`ComponentOf`);
- the components. What `Reached` returns is the least part that no edge leaves
  (`ReachedOf`), so the classes of vertices that reach each other part the middle
  (`ComponentsOf`), and an order of the components that no edge goes against is one in
  which they can be computed (`TopologicalOf`, `DecompositionComputable`);
- the merges. `SolvedBlock` is what `SolvedInOrder` says of one block; a component is
  one, and an evaluated equation that joins the block before it leaves it one
  (`ReduceSolved`). `Covers` says that the places up to the last one are each in one block;
  a new block takes the next places (`AppendCovers`), a merged one those of the block
  before too (`MergeCovers`).

`IInv` adds that a derivative has a lag from -1 to 1 (`DerivativesFit`: the auxiliary
variables have taken the place of the others before the blocks are looked for,
`ModFile.cc:286`, which is `FilesAssumption`), that both orders are permutations that
the matching maps to each other (`InOrderOfPairs`), that the components can be computed
in their order (`ComponentsComputable`) and that the blocks can (`BlocksComputable`).

Assumptions on constants are those of the modules: the sets are finite where
they are counted, the values for nobody and null are not members of them, and numbers of
chains, rows, draws and equations are at least one. `MaxCrashes`, `MaxSessions` and the bounds of
`DistributeJobs` are arbitrary: no proof uses their values.

Only model-checked: all liveness properties and the end of the trimming (`Ends`), which
are out of the prover's reach, `PathsAsDeclared`, `EstimatedAsWritten` and
`RestrictionsKept` of `ModFile` (section 7), and the remaining preprocessor
and simulation modules. Those claim something of what recursive operators over trees and matrices compute: the
prover has no backend for modules that declare such operators, and the values are
bounded instances (series of a fixed order, a field of a few elements) to begin with.

## 5. How the code and the properties meet

A property compares two things the program computes apart, or one with a
definition that does not share its algorithm: an abstract specification, a
derivative with the coefficient of t, a text with its reader, the matching with all
permutations, the workspace with the text of the file, a simulated path with the
equations. Where the code is wrong for a case, the case is named in a condition of the
property and in a finding, never left out silently.


## 6. Findings

Listed in `PROJECT.json` with their lines; two have a run of their own. In short:

- Threads: the second lookup of `lock()` outside the map's mutex; the slot leaked by a
  job that throws; a comment about where the counter is increased.
- Parallel DYNARE: job ranges that are wrong for a starved node (excluded by
  `NobodyStarves`) and for a first job other than 1; jobs that move between nodes;
  `newInstance` tested for the last CPU only; remnants of an interrupted session
  (the run is `Patient`); a crash handler that throws; a wait that never waits.
- Metropolis-Hastings: last draws that are zeros after a crash; draws that a recovery
  erases; `load_mh_file` after a full file; the record of a parallel recovery.
- Expressions: the derivative of atanh; normalisation that forgets it had given up;
  equations with a sign or a comparison that are evaluated instead of solved;
  powers of a negative dumped by dynare++ without parentheses.
- Model: local variables that passes forget or substitute at the wrong period;
  auxiliary variables evaluated too early; one column for all periods of an exogenous
  variable; parameters with leads; the width of the column numbers.
- Blocks and simulation: linearity looked for in one period only; a path restored from
  a copy another block has left; solvers that are not there; flags that are not reset.
- Statements: `endval`; the default order; positions of declarations taken for positions
  of types; `identification` without a model; `histval` of deterministic exogenous variables; the flag of a diagonal
  `Sigma_e`; `dsge_var`.

## 7. Not modelled, and what is left

- Joinable thread groups: nothing instantiates them. Users of the threads (tensor
  containers, quadrature): numerical bodies under `SYNCHRO`; a composition of
  `KeyedMutex` and `JobPool` in which workers add to a shared sum is what is left.
- Remote nodes of Parallel DYNARE (`stayalive` files, order of transfers), the
  configuration check: shell commands.
- `MetropolisHastings`: a failed search for initial values, another number of chains.
- Preprocessor: the macro processor and the grammar (text), LaTeX output, the
  configuration file, block derivative files, steady-state models beyond the check of
  their symbols, options that are only copied to the script.
- dynare++: `nularify` and the substitutions (the planner's problem, leads of more
  than one period), atoms and their orderings, the solution of the model.
- Bytecode: conditional forecasts, error messages, the memory manager.
- Proofs that would come next: `PathsAsDeclared`, `RestrictionsKept` and
  `EstimatedAsWritten` of `ModFile`, along the lines of `CovariancesAsDeclared`. They hold
  for the families of files of the runs, and need hypotheses on the files before they are
  true of any. A variable that stands twice in one restriction of `svar_identification` has
  the last of its coefficients in the script (`ParsingDriver.cc:911`,
  `ComputingTasks.cc:1417`). New subsamples clear the priors, so that the options of
  earlier ones are copied as those of the new. Values are in the usual order, with one
  `simul`. Then the safety of
  `BlockSimulation`'s loops over periods and blocks, once they are apart from the
  recursive operators of `SparseMatrix`.
- Numerical code (filters, perturbation solvers), reporting, generated and vendored
  code, tests and documentation.
