# move-bindgen in TLA+

`move-bindgen` turns Move packages into Rust crates: `install` stages the
packages a `move-bindgen.toml` lists, with their dependencies, `generate`
compiles the staged packages and writes one crate per package, and the crates
come with a runtime that builds, signs and sends transactions, reads back what
they did and publishes the packages themselves. This directory holds a model of
the parts of it that keep state or decide something, the properties they should
have, the TLC runs that check them on small instances and TLAPS proofs of the
most important ones for every instance.

Paths are relative to the repository; `bindgen/` stands for
`crates/move-bindgen/src/`.

## 1. Inventory

| Component | State | Operations | Talks to |
|---|---|---|---|
| config validation (`bindgen/config.rs`, `config/*.rs`) | none (a parsed value) | load, check sections, sources, names, networks; list the entries | all commands |
| git resolver (`bindgen/git_resolver.rs`) | one clone per URL and label, in a directory all installs share | clone, fetch, checkout | install, git |
| install and clean (`bindgen/install.rs`, `install/*.rs`, `clean.rs`, `install_manifest.rs`) | staging directory, `packages.json`; per run a FIFO worklist, the sets of basenames, ids, crate names and source keys used, the staged records | clear, seed, stage, discover dependencies, enqueue, record, rewrite manifests, save; clean | config, git resolver, digests |
| digests and freshness (`bindgen/digest.rs`, `install.rs verify_freshness`) | the digests in `packages.json` | hash a source directory, compare | install, generate |
| generate (`crates/move-bindgen-cli/src/main.rs`, `bindgen/peer.rs`, `bindgen/ir.rs`) | the generated workspace; per run the peer map address -> crate | load, verify, compile, alias, write crates, write the workspace file | reads what install left on disk |
| Move build (`bindgen/build/*.rs`) | none | compile a staged package and all it links to | generate |
| codegen (`bindgen/codegen/*.rs`) | per package the items emitted so far | translate modules, datatypes, functions; route foreign types to peer crates; collect the dependencies | generate, peer map |
| workspace deployer generation (`bindgen/workspace_deploy.rs` `build`, `topo_sort`) | visited marks, order | filter the deployable members, sort them | generate |
| deploy_all (generated from `workspace_deploy.rs` `render_lib_rs`) | artifacts so far, step | publish each member in order, wait, return partial artifacts on error | package deployer, wait, chain |
| package deployer (`crates/move-bindgen-runtime-*/src/deployer.rs`) | one publish | resolve labels, fill gas, probe the budget, sign, submit | oracle, submitter |
| PTB builder and cache (`crates/move-bindgen-runtime-*/src/builder.rs`, `cache.rs`, `arguments.rs`) | object cache, inputs, gas slots and their flags | register, resolve, fill gas, execute, inspect | fetcher, oracle, submitter |
| waiting (`crates/move-bindgen-ext-*/src/wait.rs`, `client_ext.rs`) | targets left, deadline | poll the indexer for each written object | indexer |
| effects and lookups (`crates/move-bindgen-ext-*/src/effects.rs`, `client.rs`) | pages so far | which ids a transaction created or mutated; find, fetch and decode them | indexer |
| docs, init, reporter, ext-core | none | text, templates, console, traits | - |

How they interact: `install`, `clean` and `generate` are processes that share
only the disk (staging directory, `packages.json`, `move-bindgen.toml`, the
sources, the output, and, between installs of one machine, the cache of clones).
`generate` calls codegen and the deployer generation in-process. The generated
programs call the runtime; the runtime calls a validator, which executes at
once, and an indexer, which lags behind.

Hard behaviours, all listed with their lines under `hazards` in `PROJECT.json`:

- edits to the sources and the config while a command works on them, between
  a copy and the hash that vouches for it, or between two reads of one file;
- commands that die half-way, leaving a staging directory or a clone that the
  next command may take for a finished one; two installs in one cache of clones;
- names from several origins (basenames, ids, package names, overrides, type
  names in lower case) that must not collide; one source reached in several ways;
  cyclic dependencies;
- several packages compiled at one Move address; a path into a crate that the
  `Cargo.toml` does not name or that is not written;
- partial failure of a sequence of publishes, lost answers, a lagging indexer,
  objects that other programs write and remove between effects and lookup;
- object versions that are cached and spent; a gas budget found by halving.

What makes each component correct, in one line each: *config*, what is accepted
is free of clashes; *git resolver*, what is copied was named by the pin (or by one of a
directory of the same name), and equal pins of one install get equal commits; *install*, a saved `packages.json`
describes a finished staging directory of distinct packages, all listed ones
among them; *generate*, bindings are never silently stale; *codegen*, every path
leads to the package of the datatype it stands for, and to the datatype where that is
emitted; *deployer generation*, dependencies first,
nothing lost, cycles reported; *deploy_all*, packages of a run link to packages
of that run, and its report is exact; *waiting*, Ok means the indexer shows the
transaction, and the wait ends; *lookups*, what is returned is what this
transaction changed; *PTB builder*, references agree with each other and the
chain, and gas is paid with a coin that is no argument; *gas budget*, an estimate
covers the execution.

## 2. Modules

```
Install ------- Pipeline (EXTENDS Install; INSTANCE FreshBindings)
ConfigCheck --- Sources  (EXTENDS ConfigCheck)
Codegen
TopoSort ------ DeployAll (EXTENDS TopoSort)
Reads  (INSTANCE AwaitIndexed)
GasBudget
PtbBuilder

proofs:  InstallProofs --- PipelineProofs
         DeployProofs (the sort, then the deployment)
         CodegenProofs  ReadsProofs  GasProofs  PtbProofs  SourcesProofs
```

For each specification a module `MC...` gives the constants their values. Three more,
`MCStaging`, `MCGenerate` and `MCDeploy`, put two instances side by side that belong to
one command and share no variable: one of them is at work while the other rests, so
that the states of the two add up and do not multiply. In every module an operator marked `mutant` is the definition below it with
a plausible slip; no specification uses one. The modules use no `RECURSIVE`
operator: reachability is written with sets closed under a relation, the recursion
of the sort as a stack.

### Install

One process at a time runs `install` or `clean`; the user edits and the process
may die. `pc` is the place in `run`:

| Actions | Code |
|---|---|
| `Begin`, `BeginClean`, `Clear`, `Cleared`, `CleanDone` | loading the config; `remove_dir_all`, which removes packages and `packages.json` one at a time and in any order |
| `Seed`, `SeedFails` | resolving the listed entries into the worklist |
| `Skip`, `Stage`, `StageFails` | one turn of the worklist up to `copy_dir_recursive`: `source_key` known, or id, basename and copy |
| `Discover`, `CrateClash`, `Unreadable` | crate name, `Move.toml` |
| `Enqueue` | dependencies that are not staged yet to the back of the worklist, one at a time |
| `Record` | digest, address name and record: a step later than the copy |
| `Drained`, `Rewrite`, `ExoticDep`, `UnstagedDep` | the second pass: rewriting each staged manifest |
| `SaveBegin`, `SaveEnd` | `packages.json` created, then written |
| `Edit`, `EditConfig`, `Crash` | the environment |

Contents of a source are a member of `Tree`, and a digest is the tree it hashes;
`Meta[t]` is what install reads from the `Move.toml` of `t`, and `copy` the tree that
`copy_dir_recursive` makes of it, whose `Move.toml` names the same dependencies
(`CopyAssumption`: the file is copied as it is). Names are sequences
of a root and suffixes, so that `-2` and `-rs` can meet in every way they can in
the code. `canonicalize` of a path that no longer exists fails and yields the path
as written: the model takes that key to differ from the canonical one recorded
(`Visible`). `unique_basename` searches without a bound; `UniqueBasename` searches
one suffix more than there are taken names, which is enough (proved).

### ConfigCheck and Sources

`ConfigCheck` is `Config::from_raw` as predicates over parsed tables (`Accepted`),
with the order of its tables (`InOrder`; the order of ids, `IdRank`, is a constant) and
the default crate names. `Sources` puts
the git resolver behind it: each install loads any of a set of configs, right or
wrong, and resolves the git entries of an accepted one: `Decide`, `CloneStart`, `CloneEnd` and their failures, or `Reuse`; then `Fetch`,
whose failure the code ignores, `Checkout`, `Copy`. `CloneDies` leaves a `.git`.
A directory of the cache has its commits, local names, remote-tracking names and
checked-out files, and git's rules for what `checkout` takes are `Candidates`.
`Push` moves a branch upstream. Several installs run over one cache. A `rev` may be a
branch, as in `configs/deepbookv3.toml`. Git dependencies that the walk discovers in a
`Move.toml` go through the same resolver; they are no pins of a config, and `Sources`
leaves them out. `Offline` says whether a fetch and a checkout may fail for reasons of
their own: the passing run sets it, `sources_stale` does not, so that no failure can be
blamed there.

### Pipeline and FreshBindings

`Pipeline` adds `generate` as a second command over the disk of `Install`: load
`packages.json`, compare the config digest and the source digests, compile the
staged packages one by one (each build reads everything its staged manifest
links to, and may fail), keep one crate per address, write crates and then the
workspace. `GenSortFails` is the cycle error of the workspace deployer, met when
all crates are written. One command runs at a time.

`FreshBindings` is what `generate` promises: whatever it writes comes from
contents its source had *while the command ran*, under a config that the file held
meanwhile, unless the source is gone. It knows nothing of staging or digests.
`Pipeline` implements it (`KeepsPromise == Promise!Spec`): crates are the listed
members of the output, and all steps of `install` are stutters or changes of the
sources. `seen` and `seenConf` are history variables of both.

### Codegen

`generate_workspace_from_staging` seen from the emitter: the loop that compiles the
packages and fills the peer map (`Load`, `Alias`, `PassFramework`), and the loop that
emits each crate module by module (`EmitModule`, `SkipModule`, `EmitFails`,
`WriteMember`). A type is what the translation looks at: the outermost constructor
and the datatypes and kinds below it. `PathRoot` is the choice of `rust_datatype` among
prelude, `self`, `super` and a peer crate; `BoundTraits` and `BoundTypes` are
`param_bound` and `datatype_bound`; `Foreign` is `foreign_addresses_used`; `TagMethods`
the names of the tag methods. What rustc makes of a path is `Resolves`. Two kinds of
path lead nowhere, and `RefsResolve` says exactly which: into an alias that lacks the
item (`app` uses `Fee` of `lib`, and its address belongs to `old`), and into a module
that is skipped and whose types are not routed into the runtime (run `codegen_skipped`).
`BindingsAddress` drops the `published_at` that `bindings_address` prefers: install
strips `published-at`, `Published.toml` and `Move.lock` from what it stages.

### TopoSort and DeployAll

`TopoSort` is `build`, `topo_sort` and `visit`, with the recursion as a stack of
frames and the graph chosen in the initial state. `DeployAll` continues where the
sort has ended: the generated `run`, one publish per member, over an external
chain (`coin`, `published`) and an indexer (`indexed`). The version of the gas
coin stands for the history of the wallet: each executed transaction raises it.
`resolve_from` and the linking of a publish keep labels, not bytecode. The wait
between two publishes is one step here, which succeeds only when the indexer has
caught up: the promise of `AwaitIndexed`, which `Reads` implements.

### Reads and AwaitIndexed

`Reads` is what a program does after one of its transactions, on either runtime:
`wait_for_effects` or `wait_for_object` with `poll_for_version` (`PollFound`,
`PollMissing`, `PollError`, `Wake`; one deadline for all targets, each polled at
least once), then a lookup: `Find` (`find_by_type` and the ids of a `ChangeKind`),
`GetObjects` and `GetPage`. The chain is a log of transactions, and the index of a
transaction serves as the version of what it wrote; `Others` writes and removes the
same objects, `Ingest` moves the indexer. The runtimes differ where the code does: errors
of a poll, pages, package writes, effects of the first format.

`AwaitIndexed` has no polls and no clock: a program may be told "ok" only once the
indexer shows its transaction. `Reads` implements it (`KeepsAwait == Await!Spec`) as long
as `OldEffects` is `FALSE`: sui's nodes then hand over effects of the second format only.
With effects of the first format the wait has no targets and says `Ok` at once, and the
lookups return nothing; run `reads_v1` shows it. The passing run and the theorems
`WaitImplements` and `LookupsAreExact` are about `OldEffects = FALSE`.

### GasBudget

`apply_gas` of the deployer with its dry-run probe, and `fill_auto_gas` of both
builders: the simulated budget is halved while the dry run is refused for gas, a
measured use gets a margin of a fifth, saturating, which the iota builder caps; the
oracle's suggestion is the fallback. `Submit` is what a validator makes of the budget.

### PtbBuilder

One wallet, transactions one after another, each with a builder of its own.
`cached` is the builder's `ObjectCache`, `carried` the one `execute` returned.
Every argument is an input with an id, a version and how it was given. `flavour`
selects what differs between the runtimes: an object that cannot be resolved
becomes an unresolved input on iota and a panic on sui. The price slot, which
nothing depends on, is part of `OracleFails`; the size of the budget is in `GasBudget`.
`FillBudget` fills the slot the wrapper takes for open, also over a budget that was set
on the inner builder (run `ptb_budget`).

## 3. Runs

| Run | Instance | Shows |
|---|---|---|
| `staging` | `Install`: three sources in a cycle with colliding names, three configs; one edit anywhere, one crash after the clearing | `DistinctPackages`, `ManifestComplete`, `OverridesBindAll`, `ListedCovered`, `RewriteFindsDeps`, `RunEnds` |
| | `Sources`: three repositories, two of them with one directory name, one branch, tag and commit id; 20 configs; two installs at once, three in all | `CopiedIsPinned`, `OneCommitPerPin` |
| `generate` | `Pipeline`: four sources, two of them at one address, a workspace and a single-crate config; two edits between commands or at any point of generate, a crash during rewrite, save or generate | `KeepsPromise` (refinement), `InstalledIsUsable` (action property), `GenEnds` |
| | `Codegen`: seven packages (two at one address, two frameworks, one recorded as framework, one empty), all combinations of their compiled forms | `RefsResolve`, `TagMethodsDistinct` |
| `deploy` | `DeployAll`: every graph over three named members and an unnamed one, each with or without modules; two runs, one fault | `DependenciesFirst`, `CycleReported`, `SortEnds`; `LinkedWithinRun`, `OncePerRun`, `MissingOnlyIfFiltered`, `StaleOnlyAtFirst`, `PartialIsExact`, `DeployEnds` |
| | `GasBudget`: 19 amounts around every simulated budget and the largest number, all three programs | `EstimateCovers`, `ProbeFinds`, `ProbeEnds` |
| `reads` | four objects, one of them a package, one the gas coin; both runtimes, every transaction over them, effects of the second format | `KeepsAwait` (refinement), `PollsBounded`, `ReadIsExact`, `ReadEnds` |
| `ptb` | two coins and a shared object, both runtimes, two transactions of two arguments | `GasIsNoArgument`, `InputsAgree`, `FreshIsAccepted` |

They also check the type invariants, which say a little more than types: the crates of
a workspace file exist (`GenTypeOK`), artifacts and created objects are those of the same
members (`DeployTypeOK`), with `with_auto_gas` a transaction that is to be finished has a
coin and a budget (`PtbTypeOK`), a sleep ends at most an interval after the deadline
(`ReadsTypeOK`), a crate on disk is that of a member the loop has passed
(`CodegenTypeOK`). That of `GasBudget` is proved only.

Seven more runs show a disagreement between the code and what its docs or
comments say; the counterexample is the run's point:

| Run | Property | What happens |
|---|---|---|
| `pipeline_toctou` | `KeepsPromise` | an edit between copy and hash is recorded as staged: silent stale bindings |
| `install_exotic` | `ExoticDepsSkipped` | a dependency that discovery skips "without erroring" fails the rewrite |
| `sources_stale` | `FreshInstall` | a "fresh" install after a clean stages what the branch was at when its clone was made |
| `codegen_skipped` | `SkippedRouted` | a type of a skipped framework module is not routed to the runtime, and its path leads nowhere |
| `reads_v1` | `KeepsAwait` | a wait for effects of sui's first format says `Ok` without asking the indexer |
| `ptb_cache` | `CarriedIsCurrent` | the cache returned holds the versions just spent |
| `ptb_budget` | `BudgetLocked` | a budget set on the inner builder is overwritten |

`ptb_budget` checks a promise about one slot on the instance of `ptb`; `sources_stale`
has one install after another over a network that never fails, so that only the local
branch can be to blame.

### Bounds, and why they are enough

- `MaxEdits`: one edit puts any stage of an install on either side of a change;
  two let `generate` meet a source that changed and changed back, the case
  that defeats a comparison of digests. Each source goes through at most two
  contents and absence.
- `MaxCrashes` = 1: every command starts by reading or clearing what the last one
  left, so what a crash leaves behind is seen by the next command; nothing
  accumulates over two.
- `CrashAt` leaves out `clear` and `clean`, because a command that dies there may
  leave `packages.json` beside damaged packages (section 5);
  in `staging` the process dies at every other point, in `generate`, for size, only
  at `rewrite`, `save` and anywhere in generate.
- `EditAt` in `generate` is `idle`: edits during an install break `KeepsPromise`
  (run `pipeline_toctou`). Edits during `generate` are everywhere.
- `Sources`: `MaxRuns` = 3 lets two installs overlap and a third find what they left;
  `MaxDeaths` = 1 and `MaxPush` = 1, to one repository, put one dead clone and one new
  commit anywhere between their steps, and what they leave is seen by the next. The 20
  configs are one per refused combination and one per kind of pin, alone or in pairs.
- `Codegen`: every root of a path, every form of a bound, both places of an aliased and an
  empty package and both orders of a reference and its target occur; larger packages
  repeat them.
- `MaxRuns` = 2 in `deploy`: a run that meets the leftovers of a failed one. `MaxFaults` = 1:
  a fault ends a run, so two runs need one fault to differ.
  Four members, three of them named: paths, diamonds, two roots and all cycles up
  to length three; the fourth is filtered for lack of a name, so its own labels are left
  empty.
- `reads`: `PageSize` = 1 makes two objects need two pages; `Timeout` = `Interval` = 1 gives
  a poll in time, one at the deadline and one after it; `MaxLog` = 4 is the past, the
  transaction and two of others: a write and a removal of an object. One failing query
  ends the call on iota and delays it on sui.
- `GasBudget`: 50 is halved twice before the floor of 8 stops it, once from an odd number;
  amounts lie beside each of 50, 25, 12, 8, their margins, and 64, the largest number.
- `ptb`: `MaxTx` = 2, `MaxInputs` = 2, `MaxTold` = 1, `MaxOther` = 1: two arguments to
  disagree, a second transaction to meet the cache and the lagging indexer of the
  first, one object known better than the fetcher, one use of the wallet elsewhere.
  A gas slot is set by the user at most once.

Distinct states: `ptb` 3.8 million, `reads` 621 000, `generate` 565 000 (`Codegen` 4 300
of them), `staging` 536 000 (`Install` 55 000), `deploy` 632 000 (`DeployAll` 57 000).

`CHECK_DEADLOCK FALSE` stands where the system stops: bounds of runs and
transactions exhausted, or its work done. `MCStaging.cfg` and `MCGenerate.cfg` check
deadlock: a new command can always begin, and the half that stops may stutter.

### Fairness

`RunEnds` and `GenEnds` assume only weak fairness of the process's own steps: a
process the operating system keeps running. A user need not edit nor start
anything, and a process may still die. `SortEnds` and `ProbeEnds` assume the same of
the sort and of the probe, of which no step waits for another process.
`DeployEnds` also assumes weak fairness of `Index`: the indexer keeps ingesting.
Without it the run ends by `WaitFails` at the deadline, which `DeployAll` bounds as a
fault and thus cannot rely on. `ReadEnds` closes that gap: it assumes that the
program is scheduled and the clock goes on (`WF(Program)`, `WF(Tick)`), and nothing of the
indexer, which may stop for good: the deadline ends the wait. `PtbBuilder` and
`Sources` state no liveness: whether a caller goes on, or git answers, is not the
library's business.

## 4. Proofs

TLAPS checks every theorem for all values of the constants that satisfy the
named assumptions of the modules (`UpstreamAssumption`, `TablesAssumption`,
...). They say what an input to the program is: an entry names a source, a
digest stands for one tree of a source, a reserved marker is no name. TLC
evaluates them in every run. What a theorem assumes beyond them is in its
statement.

**InstallProofs.** `TypeCorrect` and `PackagesDistinct` follow from `IInv`. That
packages are distinct is not inductive: when `Record` appends a package, its
freshness was decided several steps earlier, so `IInv` adds that the package
being staged differs from all recorded ones in source, directory, id and, once
chosen, crate (`CurIsNew`), what the process holds in which phase (`Phases`),
that records point to directories that exist (`BasesStaged`), and that the same
holds of the manifest between `SaveBegin` and `SaveEnd` (`PendingDistinct`).
`CurIsNew` rests on `UniqueBasenameIsFree`, a counting argument: among one more
suffix than there are taken names, one is free. `SavedIsComplete`
(`ManifestComplete`) adds `Building`: until a manifest is saved there is none on
disk, and directories rewritten so far link to packages of the run. It assumes
that nobody dies at `clear` or `clean`, where the code gives no protection.

Three more theorems are about the walk over the sources. `ListedAreStaged`
(`ListedCovered`) needs `ReachInv`: while the walk lasts, each listed source has
a recorded key or waits in the worklist (`ListedReached`), so that a drained
worklist leaves only staged ones; `Skip` drops only what is staged.
`OverridesBind` (`OverridesBindAll`) is about `AddressOverrides` itself
(`NumbersApart`): a name gets one more than the number of names before it in the
order of the loop, and a finite linear order numbered that way has no repeat and
no gap. `RewriteFinds` (`RewriteFindsDeps`) needs `WalkInv`: without an edit
each staged tree is still the copy of its source, and each dependency of a
recorded package is reached, or, while a package is under way, among those still
to be enqueued (`Walked`). The rewrite reads the copy where discovery read the
source; that both name the same dependencies is `CopyAssumption`. It says
nothing of entries that are neither `local` nor `git`, which discovery skips and
the rewrite refuses (run `install_exotic`).

**PipelineProofs.** `FreshOrLoud` is the refinement `PipelineSpec =>
KeepsPromise`, `UsableAfterInstall` the action property `InstalledIsUsable`,
`GenTypes` the type invariant. All assume `Undisturbed`: edits to sources and
config fall between commands or anywhere into `generate`, and nobody dies while
clearing. Run `pipeline_toctou` shows that the first half is needed. Two
invariants carry the argument. `DiskInv` is about install: next to the
invariants above it says that each staged copy is that of the contents whose
digest is recorded (`CopyInv`, where the assumption enters) and that no run
saves an empty list (`NotEmpty`, which the single-crate format needs: it takes
the first package). `GenInv` is about generate: the manifest it holds is the one
on disk, since no other command runs (`Watching`); each digest it has compared
is one its source had while it ran, or the source was gone, and what it compiled
and wrote comes from there (`Checked`). `PackagesIntact` connects them: what a
build reads is closed under the links `Building` speaks of, hence whole.
`UsableAfterInstall` also assumes that an absent and a torn file are no
manifests (`Legible`), and adds that a report of success comes after the last
write and is taken back before the next clearing (`OkIsSaved`).

**CodegenProofs.** `EveryPathResolves` (`RefsResolve`) and
`TagMethodsNeverClash` follow from `CratesAreWhole`: `LoadInv`, every address in
the peer map leads to the crate of a package that gets one and is compiled at
that address, and no two packages that get a crate share its name; `EmitInv`,
the crates on disk are those the second loop has passed, each with all modules
of its package that are not refused and with the dependencies its types need,
and of the package at hand the modules looked at. A path can only be followed at
the end, when later crates are there, so `RefsResolve` speaks of that point, and
the invariant of the way to it. `RefsResolve` says where a path leads and when
it finds its datatype there; that it always does is `ClosedResolves`, and holds
of packages that are `Closed`: what one of them mentions at the address of
another, that one has in a module that is emitted, or the runtime has it.
Packages that differ at one address and skipped framework modules are what
`Closed` excludes. `CodegenTypes` (`CodegenTypeOK`) adds that what is left to
emit of a package are its modules (`ModulesInv`). `LowerAssumption`: what is in
lower case stays as it is when put in lower case again. `CodegenAssumption`
includes that crate names differ (`PackagesDistinct`) and that no compiled
package sits at address `0x0`, both of which `Install` provides: it rewrites
`"0x0"` to a placeholder and binds each to a number.

**DeployProofs, the sort.** `SearchIsSound` is the invariant of the depth-first
search: each frame of the stack is a dependency of the one that called it, and
no name is on it twice (`Frames`); a name marked in progress is on the stack, a
name marked done in the order (`Marks`); the order holds deployable members,
distinct and done, each after those it names (`Order`); and the loop over the
members leaves none behind (`Loop`). `DependenciesComeFirst` follows at once.
`CyclesAreReported` adds where the search was when it gave up (`CycleMet`): the
stretch of the stack from the repeated name is a cycle (`StackIsCycle`); and a
complete order excludes one (`OrderHasNone`: the first member of a cycle in the
order would need another before it). It assumes that deployable members have
distinct address names (`NamesApart`), since `by_name` keeps one of two that
share a name.

**DeployProofs, the deployment.** `DeployIsSound` extends that invariant by what
a run has done: where it stands (`Place`); that, from its second publish on, the
coin it lists is the current one (`CoinKnown`); that what it published are
members it has come to, linked to earlier ones of the same run (`OnChain`); that
its artifacts lead to its packages and hold all it is past (`Kept`).
`LinksStayInRun`, `PublishedOnce`, `OrderResolves`, `WaitKeepsGasFresh`,
`ReportIsExact` and `DeployTypes` follow; `OrderResolves` uses the order the
sort was proved to return, so deployment is proved on top of the sort and not of
an assumption about it.

**ReadsProofs.** `WaitImplements` is the refinement of `AwaitIndexed`, for
`~OldEffects`, from `Following`: `ChainInv` relates the log, the indexer and the
program's transaction, `WaitInv` says that as long as the indexer is behind the
transaction a target is left to poll. That the last target found means the whole
transaction is indexed holds because the indexer ingests transactions as a whole
and each target is asked for at its exact version. `PollsStayFew` needs more
than a bound on time: `PollsInv` says that each poll so far either found a
target, of which there are as many as objects, or was followed by a sleep, and
all sleeps end within one deadline.

`LookupsAreExact` (`ReadIsExact`, for `~OldEffects` too) follows from `LookInv`,
which describes a lookup half-way (`Looking`): the ids asked for are among those
the transaction changed in the way asked for, and either all that nobody has
removed or a full page of iota's service (`Complete`); each page so far brought
one object for each of its ids, at a version not older than the transaction. It
rests on `WrittenIsLive`: once the indexer has come to the transaction, what it
wrote is live at its version or a later one unless somebody removed it. Removals
by others only make the promise weaker, and never the answer wrong
(`LookingStays`). `OneEach` counts objects by their ids, `LargestExists` gives
the maximum that `LastWrite` chooses. `ReadsTypes` (`ReadsTypeOK`) needs that
the program's transaction is the second of the log; `MaxLog` must leave room for
it.

**GasProofs.** `TypeCorrect` (`GasTypeOK`) bounds every simulated budget by the
first, and every budget by 64 bits. `EstimateIsEnough` rests on `Measured`, that
a budget that claims to be an estimate is that of the measured use; the rest is
the arithmetic of a floored fifth and a saturating sum. `HalvingMissesNone`
rests on `Halving`: a simulated budget that has been reached is the first one,
or the coin holds less than twice the use or at most twice that budget, so the
halving cannot step over what could have been measured. No induction over the
number of halvings is needed: what the last refusal said is enough.

**PtbProofs.** `PtbInvariance` is the invariant of the builder: an argument
given by its id and resolved is in the cache at the version it has there, unless
the user registered the object (`Known`); a coin the builder picked was picked
after the last argument was resolved, from those not in the cache (`Spared`);
and a builder with no reason to be wary (an empty cache, an indexer that has
caught up, nobody else at the wallet) knows the current version of everything
(`Timely`). `OneInput` (`InputsAgree`) follows from `Known`, `GasIsSpare`
(`GasIsNoArgument`) from `Known` and `Spared`, `FreshNotRefused`
(`FreshIsAccepted`) from `Timely` at `Submit`, and `PtbTypes` (`PtbTypeOK`) is
part of it. None limits the number of arguments, objects, transactions or uses
of the wallet elsewhere.

**SourcesProofs.** `SourcesInvariance` is the invariant of the shared cache, for
any number of installs: what a directory holds was cloned from a URL of a pin
with that directory, and its names stand for commits they named upstream
(`Sound`); an install between two steps on a directory relies on what others
cannot undo (`Relies`); two installs never clone into one directory
(`OneCloner`); and what was copied from a finished clone is what its local ref
still stands for (`Copies`, `Settled`). The last is why `OneCommit`
(`OneCommitPerPin`) holds: a local branch, once made by a checkout, is never
moved by the later fetches nor the clone removed, so all copies of a pin come
from one commit, those of later installs included, which is what run
`sources_stale` shows from its other side. `NamesNeverMove` states that reason
as a step property (`LocalNamesStay`, proved only). `CopiesArePinned`
(`CopiedIsPinned`) follows from `Sound`. Exempt in `OneCommitPerPin` are
installs that came upon a `.git` whose clone was not finished (`joined`): there
the code has no protection. `InOrderLists` is about the config: sorting its
tables by id lists each once, for any finite set of them.

Every invariant the passing runs check is a theorem, and so are the two
refinements and the action property `InstalledIsUsable`. Only model-checked:

- all liveness (`RunEnds`, `GenEnds`, `SortEnds`, `DeployEnds`, `ReadEnds`,
  `ProbeEnds`): fairness is `ENABLED`, out of the prover's reach;
- what needs an induction over data, such as the reachable set of directories a
  build reads: `Reads` is defined as the least closed set, and only its bound is
  proved.

## 5. Not modelled

| What | Why |
|---|---|
| `bindgen/docs.rs`, `init.rs`, `reporter.rs` | text in, text out; no state |
| `move-bindgen-ext-core` | traits and newtypes; which fields get the 32-byte encoding is `Attributed` of `Codegen` |
| text of TOML, Move and Rust, and hashing | parsed values; a digest stands for what it hashes, so two contents with one digest are not shown |
| the Move compilers, git, the chain, the indexer | external; modelled as far as the code relies on them |
| `events_by_tx`, `dry_run` as a client call, `get_dynamic_field` | single queries whose answer is handed on |
| pages of `find_by_type` and `list_gas_coins` | how many objects there are is the service's; `Find` may miss one on iota |
| pure values, receiving objects, mutability of shared inputs, argument traits in `arguments.rs` | data of an input, which no decision of the builder depends on |
| `move-bindgen-ext-sui` and `-runtime-sui` where they equal iota | one `flavour` constant; the deployer for sui is a stub whose `execute` panics |
| `generate` without a config, `relativize_runtime`, the files of `codegen/deploy.rs` | one compile and one write; paths in a text; bytes copied |
| two commands over one staging directory | nothing in code or docs says that they are supported |

Where the source is weaker than one might think, without a run of its own:

- Of two members with one address name `by_name` keeps the later, and the sort
  returns one of the two. The theorems about the sort and the deployment include
  the case, no instance does.
- A command that dies inside `remove_dir_all`
  (`crates/move-bindgen-cli/src/main.rs:64`, `bindgen/install.rs:79`) may leave
  `packages.json` beside half-removed packages. `CrashAt` excludes it, and the
  theorems say so.
- `validate_unique_sources` compares sources as written, `source_key` canonical
  paths: two entries for one directory are accepted and staged once.
- A git entry without rev, branch and tag is accepted (`config/package.rs:79`)
  and fails in the middle of an install (`git_resolver.rs:46`): `NoPin`. No doc
  says otherwise.
- Every publish reports the gas coin, which it mutates, among the created
  objects (`CollectCreated`), although the doc of `collect_created_objects`
  (`workspace_deploy.rs:518`) speaks of objects it created.
- A `u256` below a vector or an option gets no `u256_le` attribute
  (`codegen/datatype.rs:22`), although `move-bindgen-ext-core/src/lib.rs:175`
  says that every U256 field is annotated.
- A cycle among the members fails `generate` after all crates were written,
  under the old workspace file (`GenSortFails`); what it wrote is fresh all the
  same.
- `digest.rs` (lines 43 and 69) hashes by a list of names what
  `copy_dir_recursive` copies by another: `Meta[t].copy` lets contents with
  different digests have one copy.

What the models merge or simplify, where it makes no difference to the
properties:

- `Enqueue` takes the key of a local dependency from the dependency itself;
  `source_key` canonicalizes `parent/dep`, which also fails when the parent is
  gone.
- `Discover` reads the `Move.toml` once, the code twice (`install.rs:167` and
  199).
- `GenWrite` writes the files of one crate in one step; a crash leaves whole
  crates.
- `FillBudget` sets one budget whatever the size; which slots it takes for open
  is exact.

## 6. Plan

Done, in this order: install and its invariant; generate on top of it and the
promise; the sort, and the deployment over it; the transaction builder; gas; git
clones and config; what programs read back; codegen; the proofs, from the bottom
(`InstallProofs`, the sort) to what rests on them (`PipelineProofs`, the
deployment), then those of the components that stand alone (`ReadsProofs`,
`PtbProofs`, `SourcesProofs`).

What would come next:

- `Reads` composed with `DeployAll`, in place of the promise of `AwaitIndexed`,
  once a run of that size is of use.
- A dead clearing, should the code start to remove `packages.json` first: then
  `CrashAt` could be every point, and `ManifestComplete` would hold without the
  assumption.
