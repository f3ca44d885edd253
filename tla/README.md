# Mandrel: TLA+ models and proofs

Mandrel compiles an int8 attention kernel for the Vortex RISC-V GPU, builds the
RTL simulator of a pinned, configured Vortex, runs the kernel on it, compares
the output exactly with a host reference, and writes a performance record that
must name the hardware configuration it was measured on. Beside it stands a host
reference of one Mixtral decoder layer over a fixture fetched from the network.

This directory holds TLA+ modules of the parts of that system where the order
of steps matters, TLC configurations that check them on small instances, and
TLAPS proofs of their main properties for every instance. All paths below are
relative to the repository root.

## 1. The system

| Part | State it keeps | Operations | Talks to |
|---|---|---|---|
| Config materializer, `scripts/env/materialize-vortex-config.py` | five files: manifest, sha256, tag, `VX_mandrel.vh`, `VX_mandrel.h` | resolve the design through upstream `gen_config.py`, validate the request, render, replace or compare | setup and env-check call it; RTL build, env-check and xtask read its files |
| RTLSim setup, `scripts/env/setup-vortex.sh` | build directory: objects, library, toolchain stamp | materialize, stamp, clean if the stamp changed, make, require libraries | the library is loaded by the run |
| Toolchain provisioning, `setup-llvm-vortex.sh`, `setup-verilator.sh`, `_lib.sh` | pinned checkouts, installs | clone, check the pin, patch, build, install | setup requires its files |
| Environment check, `scripts/env/check.sh` | none | compare tools, files, published configuration | precondition of `make run` |
| Evidence run, `crates/xtask/src/attention/` | artifacts and reports under `target/mandrel/vortex` | read identity, build probe and kernel, probe the RTL tag, run attention in a child process, collect the trace, write JSON and CSV | everything else |
| Kernel toolchain, `crates/vortex-backend/src/toolchain.rs` | artifacts at fixed paths | MLIR to LLVM IR to object to ELF to vxbin, ISA and symbol checks | reads the published configuration again at each step that needs it |
| Attention code generator, `crates/vortex-codegen/src/codegen/attention_mlir.rs` | none | emit the control-flow graph of the kernel | its output is what every device thread executes |
| Device IR and lowering, `crates/vortex-codegen/src/codegen/{device_ir,device_ir_mlir,vortex_ir}.rs` | a constant counter per printed block | print a kernel with phis as an LLVM-dialect function with block arguments | the code generator builds the IR, the toolchain reads the text |
| Planning, `crates/{schedule,compiler,profiler,target-ir,kernel-ir}` | none | read the extents, select a schedule, estimate its work, make and validate the plan, contract with the opened device | launch, code generator, record |
| Device session, `crates/vortex-backend/src/{backend,executor,vortex2,ffi}.rs` | device, queue, buffer, event, module and kernel handles; two caches | open, write, launch, wait, read; C ABI create/destroy | external Vortex runtime |
| Trace and experiment record, `crates/xtask/src/attention/{metrics,compare}.rs`, `trace/`, `crates/experiment` | none | compare, print the trace line, parse the child's output, make the result | the evidence run |
| Tiny MoE / Mixtral reference, `crates/xtask/src/moe.rs`, `crates/{runtime,kernels}` | `config.json`, weights and their `.tmp` in a directory | fetch with retries; load, validate, route, run the experts | the network; printing |
| ggml/model descriptions, command line | none | enumerations, dispatch | printing and tests |

### What is hard in it

* **Crash and restart.** Setup is a shell script under `set -e`; it may stop
  between any two commands and is simply run again, perhaps for another design.
  Its decision to keep or clean the objects of an earlier run hangs on a stamp
  file that is written, compared and moved in separate steps.
* **Files as shared memory.** The published configuration is five files,
  replaced one by one; a run reads them several times (identity, startup
  object, ISA check), each time file by file. Artifacts and reports live at
  paths that are the same for every run.
* **Two processes, one library.** The tag is observed by the parent process and
  attention runs in a child that loads the library file again.
* **Two terminals, one tree.** No lock keeps two runs, or a run and a setup, from
  working on the same files at the same time.
* **An asynchronous device.** A call enqueues writes, a launch and a read and
  waits twice; when it fails in between, its buffers are released while the
  queue still holds its commands, and the next call may get the same addresses.
* **Shortcuts.** Every provisioning script first decides that something is
  already there, from a file's existence, a version or a patch that reverses;
  the decision has to survive installs that were cut off, moved pins and edits.
* **SIMT execution.** A grid laid out for the compiled shape runs over buffers
  made for the runtime shape; threads interleave freely and share the output;
  the accumulators are phi registers that live from one output cell to the next.
* **Exactness.** The comparison with the host is exact, so the device must add
  the same terms in the same order.
* **A parallel read made sequential.** Phis are read in parallel on entry to a
  block. The printer turns them into block arguments in two separate passes, one
  over the branch and one over its target, and gives literals names of its own
  from a counter that starts again in every block.
* **Products of extents.** Grids and workloads are products of user-given
  extents; some are checked, some are `u32` products that wrap, and the one for
  the shape that ran is computed after the device has done the work.
* **Another program's output.** The record is made of lines that a child and its
  driver print; they may be missing, partial, or about one core only.
* **A directory shared with a download.** curl may fail or be stopped anywhere,
  upstream is a branch that moves, and a reference run may read in between.

`PROJECT.json` lists the hazards line by line, with the property that would
catch each one or the reason why none does yet; section 5 names those that
only another kind of check could reach.

### What makes each part correct

* Setup: no object compiled for something else survives a decision to keep the
  objects; the library is never a mix of two builds; "ready" means current; a
  user who goes on rerunning it gets there.
* Evidence run: a report is about the RTL, the image and the design it names, of
  every run that nothing else disturbed, whatever was left behind by those before.
* Lowering: the printed function does what the kernel means.
* Planning and record: what was planned is launched and described without a late
  error; the record's workgroups, work, facts and counters are those of the run.
* Tiny MoE: a torn file never gets its own name; what the loader accepts, the
  kernels run; the router keeps the top experts.
* Kernel: every output cell is written once, in bounds, with the host's value;
  none is left out; the launch ends; it does the work the profiler estimates.
* Device session: no handle outlives what it was made from; the output a call
  returns is computed from its own inputs; nothing of a call that returned is
  still queued; one module per path; launches fit the device.
* Provisioning: sources that are built are the pinned, patched and reviewed
  ones; an install that was cut off is not taken for whole; running the setup
  again ends in an environment that passes, except in states that can be named.

## 2. Modules

| Module | Models | State → code | Actions → code |
|---|---|---|---|
| `VortexConfigFiles` | the five files and what each records | — | operators only |
| `VortexSetup` | `setup-vortex.sh` with the materializer | `disk` = the five files, `stamp`/`stampTmp` = `mandrel-rtlsim-toolchain.stamp[.tmp]`, `objects`/`lib` = RTLSim objects and library, `pc` = next command | `ResolveDesign` = load, generate, validate; `PublishOutput` = one `os.replace`; `WriteStampTmp`, `CompareStamp`, `CleanFile`, `CleanDone`, `ReplaceStamp` = lines 49-68; `MakeObject`, `LinkLibrary` = make; `RequireLibraries`; `Interrupt`; `EditInputs` |
| `RtlLibrary` | abstract specification: no library, or a whole one; another identity is linked only after a clean | `library` | `Clean`, `Link` |
| `AttentionRun` | `run_vortex_attention_correctness`, its child, its builds and its reports, in any number of terminals | shared files: `object`/`elf`/`vxbin` = artifacts at fixed paths, `json`, `csv`; per terminal: `rpc` = next step, `seen` = contents read so far of the published files, `identity`, `kernel`, `observed`, `loaded`, `executed`; history `overlapped` = the runs during which another was active | one per step and terminal; `ReadPublished` reads one file; `Stop` is every `Err`, failing tool or kill |
| `EvidenceWorkflow` | setup in one terminal and runs in the others, on one tree | both; history `disturbed` = the runs during which setup or an edit took a step | `SetupTurn`, `RunTurn`, in any order |
| `AttentionKernel` | the emitted control-flow graph, walked by every thread of the launch | per thread `at` = block, `dim`, `key`, `depth`, `dot`, `maxScore`, `denom`, `numer` = the phi registers; `out` = output buffer | one per CFG edge that does work; a dot loop's head and body are one action |
| `LaunchLimits` | `validate_launch_dims_against_caps` with its checked u64 products | — | operators only |
| `DeviceSession` | one `VortexBackend` from open to drop | `live` = handles owned, `modules`/`kernels` = the caches of `VortexExecutor`, `queue`/`mem` = the runtime's side, `call`, `args`, `locals`, `host` = the call being served | one per C API call (`CreateBuffer`, `EnqueueWrite`, `LoadModule`, ...), each able to fail (`CallFails`); `ReleaseLocal`, `ReleaseField` = the `Drop`s in their order; `ExecuteCommand` = the device |
| `PinnedToolchain` | `setup.sh`, `setup-verilator.sh`, `setup-llvm-vortex.sh`, `setup-vortex.sh`, `check.sh` | `lock` = revisions of `source.lock.toml`, `head`, `patched`, `edited` = the three checkouts, `installed` = which revision each file was built from, `design` = the checked-in design, `config` = what the config files were rendered from, `plan`/`pc` = scripts and commands still to run | `Clone`, `CheckOut`, `ApplyPatch`, `ReviewChanges` = `_lib.sh`; `CheckVersion`, `CheckRequired`, `RequireTools` = the shortcuts and demands; `Install*`, `Materialize`, `BuildVortex`, `BuildFails`; `CheckEnvironment` = revisions, files and config integrity; `Stop`, `StopInCheckout`; `MovePin`, `EditDesign`, `EditCheckout`, `CleanCheckout` = the user |
| `AttentionWork` | the kernel with its multiply-adds and bytes counted, against `estimate.rs` | `macs`, `loads`, `stores` = what the threads have executed | `WorkStep` = an action of `AttentionKernel` with its cost |
| `DeviceIr` | `device_ir.rs`: operations, blocks, terminators; what they mean | — | operators only |
| `KernelExecution` | abstract specification: the walk of a kernel's blocks, phis read in parallel | `at`, `env`, `trace` = stores, barriers and branches with their terms | `WalkBlock` |
| `MlirLowering` | `device_ir_mlir.rs`, op by op, and the walk of what it printed | `block`, `op` = the place in the kernel, `constants` = `const_counter`, `mlir` = the text, as lines and edges | `OpenBlock`, `SkipPhi`, `EmitOp`, `EmitTerminator`; `WalkPrinted` = the function's execution |
| `AttentionPlan` | schedule selection, estimate, plan, its validation | — | operators only |
| `AttentionRecord` | one run from the request to the experiment result | `op`, `target`, `device`, `asked`, `scalar` = the request, `plan`, `contract`, `launched`, `workload`, `perf`, `result` = what is made of it | one per stage: `ReadSpec`, `CompilePlan`, `ValidatePlan`, `BuildInput`, `OpenDevice`, `Launch`, `Describe`, `CompareAndPrint`, `Collect` |
| `MixtralLayer` | the loader's checks, the reference kernels' assertions and index ranges, `insert_topk` | — | operators only |
| `MixtralReference` | `moe-fetch-tiny-mixtral` beside reference runs | `files`, `temps` = the directory, `upstream` = the branch, `fetch`, `run`, `fixture`, `routing` | `RemoveStale`, `CurlSucceeds`, `CurlFails`, `Publish`, `StopFetch`; `ReadConfig`, `ReadWeights`, `Route`, `RunExperts`; `UpstreamMoves` |
| `MC*` | values for the constants | | |
| `*Proofs`, `Recurrences` | the theorems; induction over sets of naturals | | |

What is abstracted:

* A configuration is an *identity*. `Resolve` maps a design to the identity of
  its resolved defines or to `Rejected`; two designs may resolve to one
  identity, which is why the manifest's rendering is the design and the other
  files' is the identity. The 64-bit tag is taken to be as distinctive as the
  digest it is cut from.
* make is external: for each object it may keep what is there or rebuild it,
  and must build what is missing. This is weaker than what make does, so
  nothing rests on its timestamps.
* The Vortex runtime is external: its queue is taken to be in order (the writes
  of a call carry no event that the launch could wait for, so the code relies on
  it), and an address to be reusable as soon as its buffer is released, which is
  the worst case. What a kernel computes is a function of its image and of what
  it finds in its input buffers.
* git, cmake and make install rules are external too: a file that is installed
  is of the revision checked out. The patches are those of the pinned revision.
* A torn file is one value, `Torn`, that no reader accepts.
* Reports carry, beside what the code writes, which library and image were
  really used; only properties read these fields.
* A float sum is the sequence of its addends in the order of the additions; the
  stored i8 is the pair of sums. Equality here is equality there whatever `exp`
  and addition round to, provided host and device round alike. That provision is
  *not* shown. A multiply-add is one step of the counted kernel. A score is an exact integer: at head dimensions up to 64 it stays
  below 2^24, where f32 is exact.
* In the device IR a value is the term of the operations that made it, so that
  equal traces mean equal results whatever the operations compute; a branch goes
  either way. A printed line is its operation, operands and results; indentation
  and spelling are left out. `sanitize_ssa_component` is a constant function of
  labels.
* A target is its facts; quantization and the paged layout have one value each in
  the code. Integers of the planning keep their width, with 5 and 10 bits for
  `u32` and `u64`.
* A trace line is the record it prints and parses back. A driver's PERF line is
  the whole device's or one core's, with its numbers there or not.
* A tensor of the Mixtral layer is its shape, and of all floats only the router's
  logits have values: numbers, NaN and minus infinity.

## 3. Runs

| Run | Question | Bounds, and why they are enough |
|---|---|---|
| `setup` | Can any interruption or edit lead to a stale object, a mixed library or a false "ready"? Does setup implement `RtlLibrary`, and does a user who reruns it end with the right library? | Four designs (two with one identity, one wide, one rejected), two compilers, two objects, 2 interruptions, 3 edits, under fairness. Two objects are the fewest that can be mixed; a stale stamp needs one interruption, a return to the first design a second edit. |
| `setup_atomic` | Are the five files replaced as one, as the docs say? | One interruption, one edit: **violated**. |
| `evidence` | Is every report about what it names, and what of it still holds when setup or another run goes on in another terminal? | Two terminals for runs beside the one of setup; two designs, one of which lacks an extension the ELF needs. Either one run with an interruption of setup and an edit, or two runs one after the other with one of these, at any points; or three runs over what one setup left, some of which overlap. Two runs are the fewest in which an old artifact or report can be mistaken for a new one; three are the fewest in which two overlap and one is alone before or after them. The runs are used up in the end, so deadlock is not checked. |
| `evidence_race` | Does the tag match survive a concurrent setup? | **Violated**: setup replaces the library between probe and child. |
| `attention` | Are rows and columns distributed and computed right, does the launch end, and is its work what the estimate says? | Compiled 3×3 in tiles of 2×2, runtime 2×2, one thread per row of a tile: eight threads, two of which compute two cells each, the others start past the runtime rows or columns; two keys. Strides above one are left to the theorems, which hold for every block width. |
| `attention_scalar` | Does the documented scalar launch compute the output? | 2×2: **violated**, one row only. |
| `device_session` | Do handles, queue, events and caches hold together whatever fails? | Two calls, attention or probe, in one session or two; two paths, one rebuild, four addresses: the fewest with which a second call reuses those of a failed one. Three launch shapes: exact fit, one byte too many, overflow of the block size. Addresses and images are symmetric; only safety is checked. |
| `toolchain` | Do the shortcuts and checks survive interruption, moved pins and edits? Does the advice of env-check help? | Two revisions of each project, two patches, two designs, one of which one Vortex revision does not honour; 1 interruption, 2 changes by the user: enough to move a pin over a cut-off install or checkout and back, and to edit and clean up. Each disjunct of `NeedsUser` is needed: without any one of them the property is violated. |
| `lowering` | Does the printed function do what the kernel means? Are its names unique, and do its edges fit its blocks? | A loop whose two phis take any of several values on each edge, each other's among them (a swap); a diamond with literals on both edges of its branch, one of them straight to the join; a block with every kind of operation; the identity probe; two kernels that cannot be printed. Walks of 7 blocks: two rounds of the loop. |
| `record` | Does any product wrap unseen, does anything fail after the device has run, is the result of the run that took place? | `u32` of 5 bits, `u64` of 10: shapes below, at and above a tile and at the width's end, one whose work does not fit; targets and devices that fall short in one fact each; all driver outputs. |
| `moe` | Is a torn download ever published, does what loads also run, does the router keep the top experts? | Two upstream revisions with the same tensors and different routing and heads, 2 attempts, any number of fetches; 3 experts, 2 tokens, logits with ties and NaN. |
| `toolchain_pinned` | Is the announced toolchain the pinned one? | One moved pin: **violated**. |

Every property has a mutant in `PROJECT.json`: a definition changed the way a
plausible bug would change it, for which TLC finds the property violated. The
mutants stand beside the definitions they change, marked as such.

### The disagreements

* *Atomic replacement.* `hardware/vortex/README.md:38` and
  `docs/codesign-architecture.md:205` say the set of files is written
  atomically. Each file is; the set is not (`materialize-vortex-config.py:327`).
  `ReadyMeansCurrent` and the evidence runs show that readers cope.
* *Matching tags.* `hardware/vortex/README.md:50` accepts evidence "only when
  the realized and observed tags match exactly". The observation is of the
  library the parent loaded; the child loads the file again
  (`runtime.rs:49-72`).
* *Scalar launch.* `docs/mlir.md:93` offers
  `MANDREL_ATTENTION_RUNTIME_SCALAR_LAUNCH=1` as a knob of the correctness run;
  with any sequence above 1 the comparison must fail (`runtime.rs:208`).
* *The pinned toolchain.* `setup-llvm-vortex.sh:136` says that the "pinned"
  toolchain is already installed, after asking only whether its files exist
  (`:124-135`). After the pin has moved they are of the old revision, and
  `check.sh` looks at the checkouts' revisions only. `UnmovedPinsAreBuilt` shows
  the shortcut is sound as long as nobody moves a pin, interrupted or not.

`SetupAllConverges` has five exceptions (`NeedsUser`) in which `check.sh`'s advice
"run scripts/env/setup.sh all" does not, or need not, help:

* tracked changes in a checkout that are no patch, the user's or those a `git
  checkout` left that was cut off: `_lib.sh:75` moves no pin over them, the review
  of `_lib.sh:108` refuses most of them in Vortex, and sources so changed may not
  build;
* a patch half applied, which neither applies nor reverses;
* a moved Vortex pin over the patched, hence dirty, checkout;
* a design the pinned Vortex does not honour, on which the materializer, and
  `check.sh` with it, fails every time;
* a Verilator whose binary was installed and whose data was not.

The converse holds as well: an environment check that passes has seen the config
files of the checked-in design at the pinned revision. What it has not seen is
what the toolchain was built from (`toolchain_pinned`).

### Observations that contradict no document

* Two attention runs at once share their artifacts and reports. Each may launch
  the image of the other, and after both have succeeded the JSON may be of one and
  the CSV of the other; so `ReportFromOwnImage` and `ReportsAgreeAfterSuccess` are
  stated of runs that no other overlapped. The RTL a report names is not affected
  (`SequentialReportNamesRtl`): each run has its backends to itself.
* `ExperimentStatus` has values for failed and unsupported runs, but every failure
  of the run is an `Err` before a record is made: only `Succeeded` is ever written
  (`ResultDescribesRun`).
* `KernelRequirements` (`target-ir/src/lib.rs:399`) are evaluated nowhere in the
  program. The exact contract with the opened device makes up for it
  (`LaunchMeetsRequirements`).
* `workgroup_count` (`kernel-ir/src/launch.rs:20`) multiplies `u32` unchecked. It is
  exact for every plan only because the estimate's checked `u64` products have
  bounded the shape before.
* `MANDREL_MOE_TOKENS=0` is refused by the loader and not by the deterministic
  fixture, where it ends in a panic; logits that are NaN or minus infinity leave
  `usize::MAX` as an expert's index (`kernels/src/lib.rs:491`). Both are the
  exceptions of `LoadedFixtureRuns`.
* `config.json` and the weights may be of two upstream revisions. What loads from
  such a pair runs, within those exceptions, but is no published model.

### Fairness

* `FairSetup`: a command of a running script is eventually executed (the shell
  waits for nobody), and a user whose setup did not reach "ready" runs it
  again. Nothing is assumed about interruptions except that they are finite
  (`MaxStops`), nor about edits (`MaxEdits`); a design that is rejected is
  exempt from the conclusion.
* `FairPin`: commands of a running script are executed, and a user whose
  environment check would fail runs `setup.sh all` again and again (strong
  fairness, since he may run other scripts in between). Stops, moved pins and
  edits are finite. Nothing is assumed about builds of changed sources: they may
  fail for ever.
* `FairWork`: the device executes some thread as long as one can go on. That is
  enough for all to return, since the kernel has no barrier and no atomics and
  every thread's way is finite; no fairness among threads is assumed.
* The runs of the evidence workflow, the device session, the record and the MoE
  reference claim no liveness: a hung simulator hangs `Event::wait`, which has no
  timeout, and a fetch that gives up is not repeated by anything in the code.

Deadlock is checked in the runs `setup`, `setup_atomic`, `evidence_race` and
`moe`. Elsewhere the system stops by design, or when its bounds
are used up: when all runs have been made, when all threads have returned, when the session has served its
calls, when provisioning needs no rerun, when the function has been printed and
walked, when the record is made.

## 4. Proofs

**Setup** (`EvidenceWorkflowProofs`, first part), from `ConfigAssumption` and `SetupAssumption`
(`Absent` is no identity, at least one object; counters are naturals). The
invariant is `SetupIInv`: besides the three properties it says that from
resolution on the run works on the current design (`PublishedIsOfDesign`), that
the temporary stamp, and after the move the stamp, names the current design and
tools (`StampIsOfDesign`), and that the stamp is replaced over an empty build
directory (`BuildFollowsRun`). The last is what carries `StampVouchesForObjects`
over `ReplaceStamp`. Proved: `SetupTypeCorrect`, `StampVouches`,
`LibraryCoherent`, `ReadyIsCurrent`, and `SetupImplementsLibrary`, the
refinement of `RtlLibrary` under `library <- LibraryBuild`.

**Kernel** (`AttentionKernelProofs`), from `ShapeAssumption`, `InputAssumption`
and `DotAssumption` (`Dot` is the host's partial dot product, given by its
recurrence because a recursive operator would be out of the prover's reach).
The invariant `KernelIInv` says of each thread that it is on a column of its own
(`OnOwnCell`), that its dot register is the host's partial product
(`DotIsPartial`), its maximum the maximum of the keys so far (`MaxIsPartial`),
its sums the host's first `key` addends (`SumsArePartial`), and of the output
that each stored cell has the host's value and an owner that has moved past it
(`StoredByOwner`). That no two threads own a cell is arithmetic: a number has
one pair of digits in a base (lemmas `Digits`, `OneOwner`); that an owner has
moved past its cell is what excludes a second store by the same thread. Proved:
`KernelTypeCorrect`, `KernelInBounds`, `KernelAgreesWithHost`,
`KernelStoresOnce`, for every shape, tile, block and input and with or without
the scalar launch.

In the same module, coverage: `NoCellLeft` says that no element is left over when
all threads have returned. The invariant `CoverageIInv` adds to `KernelIInv`, for
each thread, that the columns it owns below its `dim` register are stored
(`CellsDone`): its next column is its last one plus the stride, and between the two
there is none it owns. That each element has an owner is the other half of the
arithmetic above: a column lies in a tile and, within it, on some thread's stride
(`TileExists`, `OwnerExists`), and an index has a row and a column (`IndexOnto`).
`KernelCoversOutput` holds for `~ScalarLaunch`; with it the run `attention_scalar`
has the counterexample.

And the work of `AttentionWork`, whose counters are sums over all threads. The
invariant `WorkIInv` turns the sums into sets: a multiply-add is a unit, named by the
output element it is for, the number of the dot product and the depth (`DotUnits`), or by the
element and the key (`ValueUnits`); the units executed are all of the elements
stored, and of the element each thread is on as many as its registers say; and each
counter is the number of such units (`CountersAgree`). A step adds exactly one unit,
a new one because an element has one thread; a store only moves the units of its
thread to those of the output. When all have returned every element is stored
(`NothingIsLeft`), so the units are the whole space and its size is the product the
estimate computes: `EstimateHolds`, for `~ScalarLaunch`, whenever no product
overflows, that is whenever the code has an estimate.

**Device session** (`DeviceSessionProofs`), from `SessionAssumption`: the shapes
asked for have three numbers per dimension, the device's limits are naturals, and
`Absent` is no image. The invariant `SessionIInv` has a part
for each thing a call relies on. `HandlesOwned`: beyond runtime, device, queue and
cached modules, what is live is in the call's locals, so that unwinding them in
reverse order leaves the caches' handles only. `CachesAgree`: a cached kernel is of
the cached module of its path. `CallProceeds`: how many buffers and writes there are
at each step, all at different addresses. `QueueStaged`: the writes of a call stand
in the queue right before its launch, or have been executed and nothing over them
since; this is stated for every launch in the queue at every position, because the
device may execute any prefix of a call's commands before the call issues the next.
`OutputFollows`: from the launch on, the last command queued or the output buffer
itself holds the call's result. That addresses are reused as soon as their buffer is
released is what makes the last two necessary. Proved: `SessionTypeCorrect`,
`HandlesReleasedInOrder`, `ReturnedCallIsSettled`, `CallReturnsOwnOutput`,
`AcceptedLaunchesFit` (every product the backend checks in u64 is below the device's
limit as a number, lemma `AcceptedFits`) and the action property `PathLoadedOnce`.

**Evidence** (`EvidenceWorkflowProofs`, on top of setup's), from `ConfigAssumption`,
`SetupAssumption` and `WorkflowAssumption`. The invariant has three layers.
`SetupIInv` is kept, since no step of a run touches setup's variables. The other two
hold in any number of terminals. `RunIInv` is about runs among themselves: what a
run has read of the five files are contents of their kind (`FilesSorted`), what it
has established at each step (`RunsKnow`), that two active runs are both in
`overlapped` (`OverlapKnown`), that the image at the fixed path is the run's own from
the link of its ELF to the launch, if no other overlapped it (`ArtifactsOwn`), and
that each report is of the run that wrote it (`ReportsSound`). `QuietIInv` is about
runs and setup: as long as a run is not in `disturbed`, the published files, the
design and the library are those it has read (`StandsStill`), the artifacts were
built for them if it was also alone (`ImageFits`), and so is what it reports
(`FaithfulReport`). Proved: `RunTypeCorrect`, without a condition; `ReportsOwnImage`
and `SuccessWritesBoth`, of runs no other overlapped, whatever setup does;
`SequentialNamesRtl` and `SequentialReportsDesign`, of runs setup did not disturb,
whatever other runs do; `SequentialImageFits`, of runs with neither. Of a disturbed
run the run `evidence_race` has the counterexample to the tag.

**Record** (`AttentionRecordProofs`), from `RecordAssumption`: extents are
naturals, a device's counts are naturals, and its XLEN is 32 or 64, since
`toolchain.rs:225` refuses any other. The invariant `RecordIInv` says of each stage
what the earlier ones left (`Planned`, `ShapeChosen`, `ContractHolds`,
`LaunchedAsPlanned`, `Described`, `Printed`, `Recorded`). The work is arithmetic:
checked sums and products are monotone (`MulAtMost`, `AddAtMost`), so that a shape
within the planned one has an estimate when the plan has (`SmallerWorkFits`), and an
estimate that did not overflow u64 bounds the shape so that the u32 product of the
grid does not wrap (`WorkBoundsShape`). Proved: `PlannedRunsGoThrough` (what was
compiled and validated meets no later error of planning, contract or description),
`WorkgroupCountsExact`, `LaunchesMeetRequirements`, `ResultsDescribeRuns`,
`CountersAreWhole`.

**Lowering** (`MlirLoweringProofs`), from `LoweringAssumption`, which is what the
builders make: labels of their own, also after `sanitize_ssa_component`; no phi in
the entry; each name defined by one operation, with as many names as its constructor
gives it; one or two edges, or a return. `LoweringIInv` says that the printed
blocks are the kernel's first ones with the arguments they were opened with, and
that an edge that is printed leads to a block of the kernel and passes the types of
that block's phis. `EdgesFit` needs the labels distinct, as branch and header find
the block each by its label. For `NamesAreUnique`, `NamesSoFar` says where each name
of a block comes from: a phi or an operation printed already (`OfOperation`), or a
constant whose number is below the counter of the block (`OfConstant`). So the names
of a line are new in its block: its operation's were not used, and its constants are
numbered from the counter on (`LinesOfOnce`, `ConstantLinesOnce`, `FreshConstant`).
Over blocks it is the builder's names and the prefixes that differ.

**Provisioning** (`PinnedToolchainProofs`), from `PinAssumption`. The invariant
`PinIInv` says that between the checkout step and the end of a script its checkout
is at the pin (`AtPins`), that the Vortex sources are patched and reviewed from the
patch step on, that the files a script has passed are there (`InstalledSoFar`), and
that every installed file is of its project's pin as long as that pin was not moved
(`FromUnmovedPins`). The last is not about any script: it is what makes the
"already installed" shortcut sound after any stop. Proved: `PinTypeCorrect`,
`SourcesAreReviewed`, `AnnouncedIsBuilt`.

**Tiny Mixtral** (`MixtralReferenceProofs`). `FetchPublishesWhole` needs only that
when the rename is next, the temporary file is a complete download (`FetchIInv`). The
other two are from `ReferenceAssumption` (a float that is no number is none of the
integers that stand for numbers, sizes are naturals, the logits of the deterministic
fixture are finite) and concern every config, whatever number of experts, top_k and
tokens:

* `RouterKeepsTopK`. That `insert_topk` over all experts gives the ranking is an
  induction over the experts: after n of them the row holds the best k of the n, in
  the order of their rank (`KeepsBest`, kept by one more expert: `InsertKeepsBest`).
  Slots and ranks are then the same numbers because an expert has one slot
  (`RouterIsTopK`, by a bijection).
* `LoadedFixturesRun`. What the loader compares the tensors with makes the fixture
  `WellFormed` (`FixtureIsWellFormed`; the appended expert tensors are an induction
  again), and a well-formed fixture passes each assertion and range of the kernels
  (`LayerFits`, `BlockFits`: row-major offsets, and heads in groups of equal size).
  The invariant `RunIInv` says which of this the run knows at each step.

An induction over data is possible although the library's induction theorem takes an
operator, which no installed prover can instantiate: `Recurrences` proves induction
for *sets* of naturals, from the library's theorem that they are well-founded, and
from it that a loop, as a recursive function, has a solution (`RecurrenceSolved`). A
function that TLA+ defines by CHOOSE then satisfies its recurrence.

**Only model-checked:**

* Liveness: `SetupConverges`, `KernelTerminates`, `SetupAllConverges`. The prover
  has no rule for fairness.
* `ImplementsKernel`: a block is walked by folds over its operations and over its
  lines, each of which would first have to become a recursive function.

## 5. Not modelled

* Float arithmetic: rounding, `exp`, the layers of the Mixtral reference, f16 and
  bf16 decoding. `rope_theta` is loaded and read by no reference kernel.
* Text: MLIR, C++ and report formatting, command lines, TOML, ELF, safetensors and
  disassembly parsing, field by field trace parsing, `trace/print.rs`, logging.
* In the lowering: two labels that sanitize to one prefix (no builder makes such
  labels; `Sanitized` is one-to-one in the run), metadata and the module's header.
* In planning: the kernel catalog, affine maps and tiled layouts, which no run of
  the program consults; ggml and model enumerations.
* In provisioning: the uv environment, submodules, the links and the wrapper around
  the system's RISC-V tools, and what a user's edit inside a file that a patch names
  does (it passes the review, which is by path). `installed` records the revision a
  file was built from, not the changes its checkout had: nobody reviews those of the
  LLVM and Verilator checkouts. A file is installed in one step (a copy cut off in
  the middle would be a file to `-f`), and the five config files are one value
  (`VortexSetup` has them one by one). A clone that leaves a `.git` without a
  revision, which takes git itself being killed before it can clean up, ends every
  later script. In env-check: the Python version and the libc multilib.
* In setup: the manifest's second read of the design file, and a change of Vortex
  revision under an unchanged stamp. `PinnedToolchain` has the revisions and
  `VortexSetup` the stamp; what would have to be shown about them together is that
  make sees the changed sources, and make is external.
* In the evidence run: two setups at once, or an edit by one terminal while another
  sets up; two runs that write one file at the same moment, so that it is neither's
  (a tool reads and writes an artifact in one step); the driver and library path the
  parent's probe takes from the caller's environment, where the child forces rtlsim.
* In the TLC instance of the kernel no thread that computes lies in a ragged tile of
  the compiled grid; `KernelCoversOutput` covers those shapes.
* In the device session: argument checks and error strings of the C ABI, symbol
  lookup, and `enqueue_read_after`, which nothing calls.
* In the fetch: two concurrent fetches, which would share the temporary path.
* The Vortex runtime and RTL, make, git and curl, except as described in section 2.

Hazards among these that no property covers, beside those `PROJECT.json` notes:
different rounding of host and device `exp`
(`codegen/attention_mlir.rs:449`) under an exact comparison; `Event::wait` without a
timeout (`vortex2.rs:441`); the edit inside a patched file (`_lib.sh:108`); the
second read of the design (`materialize-vortex-config.py:262`).

## 6. Plan

The modules of the plan are written, and every invariant of a passing run is a
theorem, as are the action properties and the refinement of `RtlLibrary`. What is
left is `ImplementsKernel`, the refinement of the device IR's meaning by the printed
function: the folds of `DeviceIr` and `WalkPrinted` as recursive functions (for which
`Recurrences` gives the recurrence), and an invariant that the two environments agree
on every IR name and that a constant is bound before the line that reads it, which
follows from `NamesAreUnique`.
