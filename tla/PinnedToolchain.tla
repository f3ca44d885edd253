--------------------------- MODULE PinnedToolchain ---------------------------
(***************************************************************************)
(* Toolchain provisioning: scripts/env/setup.sh with setup-verilator.sh,   *)
(* setup-llvm-vortex.sh, setup-vortex.sh, check.sh and the helpers of      *)
(* _lib.sh.                                                                *)
(*                                                                         *)
(* hardware/vortex/source.lock.toml pins one revision per project.  A      *)
(* script checks the project out, patches it if it is Vortex, and builds   *)
(* and installs what is not there yet; setup-vortex.sh materializes the    *)
(* checked-in hardware design first, here in one step (VortexSetup has the *)
(* files one by one).  Any script may stop between two steps or in the     *)
(* middle of a checkout; the user moves pins, edits the design or a        *)
(* checkout or cleans up between runs.  git, cmake, make and the projects' *)
(* own install rules are external: they do what they are for, one file     *)
(* after the other, except that a tree with changes of its own may fail to *)
(* build.                                                                  *)
(***************************************************************************)
EXTENDS Naturals, Sequences, FiniteSetsExt

CONSTANTS
  Revision,    \* revisions of a project
  FirstLock,   \* the pins a history may start from
  Version,     \* [Revision -> what verilator --version prints]
  Patches,     \* how many patches hardware/vortex/patches has
  Design,      \* hardware designs
  Honoured,    \* <<design, revision of Vortex>> whose generator resolves it
  Absent,      \* not checked out, not installed
  MaxStops,    \* bound: scripts killed or failing on their own
  MaxEdits     \* bound: changes by the user

Project == {"verilator", "llvm", "vortex"}

ASSUME PinAssumption ==
  /\ FirstLock \subseteq [Project -> Revision]
  /\ Absent \notin Revision /\ Honoured \subseteq Design \X Revision
  /\ Patches \in Nat /\ MaxStops \in Nat /\ MaxEdits \in Nat

Patch == 1..Patches
LlvmFile == {"clang", "mlir-opt", "mlir-translate"}

(* What setup-llvm-vortex.sh installs and requires.  Mutant: the           *)
(* compiler-rt builtins, installed last, are not in its list.              *)
ToolchainFile == LlvmFile \cup {"builtins", "libvortex2"}
AllButBuiltins == ToolchainFile \ {"builtins"}
Required == ToolchainFile
(* Tracked changes in a checkout, besides the patches.                     *)
ChangesIn(project) ==
  {"other files"}
    \cup (IF project = "vortex" THEN {"patched files", "VX_config.toml"} ELSE {})
Unreviewed == {"VX_config.toml", "other files"}

Owner(file) == CASE file \in {"verilator", "verilator data"} -> "verilator"
                 [] file \in {"libvortex2", "runtime"} -> "vortex"
                 [] OTHER -> "llvm"
File == LlvmFile \cup {"builtins", "libvortex2", "verilator", "verilator data",
                       "runtime"}

Script == {"verilator", "llvm", "vortex", "check"}
All == <<"verilator", "llvm", "vortex", "check">>

VARIABLES
  lock,        \* the pinned revisions
  head,        \* the revision each checkout is at
  patched,     \* each patch: "none", "applied", or "broken": half there
  edited,      \* each checkout's tracked changes that are no patch: "none",
               \* "patched files", "VX_config.toml" or "other files"
  design,      \* the checked-in design
  config,      \* what the config files were rendered from; Absent: they are
               \* not all there, or not of one rendering
  installed,   \* the revision each file was built from
  plan,        \* scripts still to run, the first one running
  pc,          \* its next command
  force,       \* MANDREL_FORCE_REBUILD of this run
  stops, edits,
  moved        \* the projects whose pin was ever moved

checkout == <<head, patched>>
vars == <<lock, checkout, edited, design, config, installed, plan, pc, force,
          stops, edits, moved>>

FirstStep == [verilator |-> "checkout", llvm |-> "checkout",
              vortex |-> "needs", check |-> "check"]

PinInit ==
  /\ lock \in FirstLock
  /\ head = [p \in Project |-> Absent]
  /\ patched = [p \in Patch |-> "none"]
  /\ edited = [p \in Project |-> "none"]
  /\ design \in Design /\ config = Absent
  /\ installed = [f \in File |-> Absent]
  /\ plan = <<>> /\ pc = "idle" /\ force = FALSE
  /\ stops = 0 /\ edits = 0 /\ moved = {}

StartScripts(scripts) ==
  /\ pc = "idle"
  /\ plan' = scripts /\ pc' = FirstStep[Head(scripts)]
  /\ force' \in BOOLEAN
  /\ UNCHANGED <<lock, checkout, edited, design, config, installed, stops,
                 edits, moved>>

Resume == UNCHANGED <<lock, edited, design, config, force, stops, edits, moved>>

(* A script that ends well gives way to the next of setup.sh all; under    *)
(* set -e one that does not ends the run.                                  *)
Finish ==
  /\ plan' = Tail(plan)
  /\ pc' = IF plan' = <<>> THEN "idle" ELSE FirstStep[Head(plan')]
Die == plan' = <<>> /\ pc' = "idle"
Goto(step) == pc' = step /\ UNCHANGED plan

-----------------------------------------------------------------------------
(* mandrel_ensure_checkout.                                                *)

Repository ==
  IF Head(plan) = "verilator" THEN "verilator"
  ELSE IF pc = "checkout llvm" THEN "llvm" ELSE "vortex"

(* Mutant: a Vortex checkout goes straight to the builds.                  *)
AfterCheckoutBuild ==
  CASE Repository = "verilator" -> "version"
    [] Repository = "llvm" -> "required"
    [] Repository = "vortex" -> "build"
AfterCheckout ==
  CASE Repository = "verilator" -> "version"
    [] Repository = "llvm" -> "required"
    [] Repository = "vortex" -> "patch"

Checking == pc \in {"checkout", "checkout llvm"}

(* git clone leaves the checkout at whatever upstream's branch is at.      *)
Clone ==
  /\ Checking /\ head[Repository] = Absent
  /\ \E tip \in Revision : head' = [head EXCEPT ![Repository] = tip]
  /\ UNCHANGED <<patched, installed, plan, pc>> /\ Resume

(* git status --untracked-files=no                                         *)
Dirty(project) ==
  \/ edited[project] # "none"
  \/ project = "vortex" /\ \E p \in Patch : patched[p] # "none"

CheckOut ==
  /\ Checking /\ head[Repository] # Absent
  /\ IF head[Repository] # lock[Repository] /\ Dirty(Repository)
     THEN Die /\ UNCHANGED head
     ELSE /\ head' = [head EXCEPT ![Repository] = lock[Repository]]
          /\ Goto(AfterCheckout)
  /\ UNCHANGED <<patched, installed>> /\ Resume

ChangeTracked(project) ==
  \/ /\ \E c \in ChangesIn(project) : edited' = [edited EXCEPT ![project] = c]
     /\ UNCHANGED patched
  \/ /\ project = "vortex"
     /\ \E p \in Patch : patched' = [patched EXCEPT ![p] = "broken"]
     /\ UNCHANGED edited

(* git writes the files before it moves HEAD, after a clone it has moved it*)
(* already: cut off in between, the files it did write are tracked changes.*)
StopInCheckout ==
  /\ Checking /\ stops < MaxStops
  /\ \/ /\ head[Repository] = Absent
        /\ \E tip \in Revision : head' = [head EXCEPT ![Repository] = tip]
     \/ /\ head[Repository] \notin {Absent, lock[Repository]}
        /\ ~Dirty(Repository) /\ UNCHANGED head
  /\ ChangeTracked(Repository)
  /\ Die /\ stops' = stops + 1
  /\ UNCHANGED <<lock, design, config, installed, force, edits, moved>>

(* mandrel_apply_vortex_patches, one patch after the other: one that        *)
(* reverses cleanly is there, one that applies cleanly is applied, and one *)
(* that does neither ends the script.  git apply may be killed half way.   *)
(* Mutants: what does not apply is taken to be there; there is no check of *)
(* the reverse.                                                            *)
DoesNotApply(p) == patched[p] # "none"
NoReverseCheck(p) == FALSE

Reverses(p) == patched[p] = "applied"
Outstanding == {p \in Patch : ~Reverses(p)}

ApplyPatch ==
  /\ pc = "patch" /\ Outstanding # {}
  /\ LET p == Min(Outstanding) IN
       \/ /\ patched[p] = "none"
          /\ patched' = [patched EXCEPT ![p] = "applied"]
          /\ UNCHANGED <<plan, pc, stops>>
       \/ /\ patched[p] = "none" /\ stops < MaxStops
          /\ patched' = [patched EXCEPT ![p] = "broken"]
          /\ Die /\ stops' = stops + 1
       \/ /\ patched[p] # "none"
          /\ Die /\ UNCHANGED <<patched, stops>>
  /\ UNCHANGED <<lock, head, edited, design, config, installed, force, edits,
                 moved>>

(* Then git diff may name no file that no patch names.                     *)
ReviewChanges ==
  /\ pc = "patch" /\ Outstanding = {}
  /\ IF edited["vortex"] \in Unreviewed THEN Die
     ELSE Goto(IF Head(plan) = "llvm" THEN "checkout llvm" ELSE "materialize")
  /\ UNCHANGED <<checkout, installed>> /\ Resume

-----------------------------------------------------------------------------
(* setup-verilator.sh                                                      *)

(* --version of the installed binary, against the version of the lock.     *)
VersionInstalled ==
  /\ installed["verilator"] # Absent
  /\ Version[installed["verilator"]] = Version[lock["verilator"]]

CheckVersion ==
  /\ pc = "version"
  /\ IF VersionInstalled THEN Finish ELSE Goto("install verilator")
  /\ UNCHANGED <<checkout, installed>> /\ Resume

Install(file) ==
  installed' = [installed EXCEPT ![file] = head[Owner(file)]]

(* make installbin ... installdata, in this order; then the version again. *)
InstallVerilator ==
  /\ pc = "install verilator"
  /\ Install("verilator") /\ Goto("install data")
  /\ UNCHANGED checkout /\ Resume

InstallVerilatorData ==
  /\ pc = "install data"
  /\ Install("verilator data") /\ Finish
  /\ UNCHANGED checkout /\ Resume

-----------------------------------------------------------------------------
(* setup-llvm-vortex.sh                                                    *)

CheckRequired ==
  /\ pc = "required"
  /\ IF (\A f \in Required : installed[f] # Absent) /\ ~force
     THEN Goto("ready") ELSE Goto("install llvm")
  /\ UNCHANGED <<checkout, installed>> /\ Resume

(* cmake --install, file by file, then make sw/kernel and compiler-rt.     *)
InstallLlvm ==
  /\ pc = "install llvm"
  /\ \E f \in LlvmFile : installed[f] # head["llvm"] /\ Install(f)
  /\ UNCHANGED <<checkout, plan, pc>> /\ Resume

LlvmInstalled ==
  /\ pc = "install llvm"
  /\ \A f \in LlvmFile : installed[f] = head["llvm"]
  /\ Goto("kernel library")
  /\ UNCHANGED <<checkout, installed>> /\ Resume

MakeKernelLibrary ==
  /\ pc = "kernel library"
  /\ Install("libvortex2") /\ Goto("builtins")
  /\ UNCHANGED checkout /\ Resume

InstallBuiltins ==
  /\ pc = "builtins"
  /\ Install("builtins") /\ Goto("ready")
  /\ UNCHANGED checkout /\ Resume

(* "... already installed", or "LLVM-Vortex source toolchain ready".       *)
LlvmReady ==
  /\ pc = "ready"
  /\ Finish
  /\ UNCHANGED <<checkout, installed>> /\ Resume

-----------------------------------------------------------------------------
(* setup-vortex.sh: what it requires, checkout and patches, the config     *)
(* files, and the builds.                                                  *)

RequireTools ==
  /\ pc = "needs"
  /\ IF \A f \in {"verilator", "clang", "mlir-translate", "builtins"} :
          installed[f] # Absent
     THEN Goto("checkout") ELSE Die
  /\ UNCHANGED <<checkout, installed>> /\ Resume

(* materialize-vortex-config.py runs the checkout's generator on the       *)
(* design; the manifest holds the digest of VX_config.toml too.            *)
Resolves == <<design, head["vortex"]>> \in Honoured
Rendering == [design |-> design, source |-> head["vortex"]]

Materialize ==
  /\ pc = "materialize"
  /\ IF Resolves THEN config' = Rendering /\ Goto("build")
     ELSE Die /\ UNCHANGED config
  /\ UNCHANGED <<lock, checkout, edited, design, installed, force, stops,
                 edits, moved>>

(* make needs Verilator's headers as well as its binary.                   *)
BuildVortex ==
  /\ pc = "build"
  /\ IF installed["verilator data"] # Absent
     THEN /\ installed' = [installed EXCEPT !["libvortex2"] = head["vortex"],
                                            !["runtime"] = head["vortex"]]
          /\ Finish
     ELSE Die /\ UNCHANGED installed
  /\ UNCHANGED checkout /\ Resume

(* Sources with changes of their own may not build.                        *)
BuildFails ==
  /\ \/ pc = "install verilator" /\ edited["verilator"] # "none"
     \/ pc \in {"install llvm", "builtins"} /\ edited["llvm"] # "none"
     \/ pc \in {"kernel library", "build"} /\ edited["vortex"] # "none"
  /\ Die
  /\ UNCHANGED <<checkout, installed>> /\ Resume

(* check.sh: the revisions, the files it looks for, and the config files   *)
(* byte for byte against a new rendering (materialize --check).            *)
ConfigIntact ==
  /\ Resolves /\ config = Rendering
  /\ edited["vortex"] # "VX_config.toml"

EnvironmentPasses ==
  /\ head = lock
  /\ \A f \in {"verilator", "clang", "mlir-translate", "builtins", "runtime"} :
       installed[f] # Absent
  /\ ConfigIntact

CheckEnvironment ==
  /\ pc = "check"
  /\ IF EnvironmentPasses THEN Finish ELSE Die
  /\ UNCHANGED <<checkout, installed>> /\ Resume

-----------------------------------------------------------------------------
ScriptStep ==
  \/ Clone \/ CheckOut \/ ApplyPatch \/ ReviewChanges
  \/ CheckVersion \/ InstallVerilator \/ InstallVerilatorData
  \/ CheckRequired \/ InstallLlvm \/ LlvmInstalled \/ MakeKernelLibrary
  \/ InstallBuiltins \/ LlvmReady
  \/ RequireTools \/ Materialize \/ BuildVortex \/ BuildFails \/ CheckEnvironment

(* Between two of the config files it leaves some of each rendering.       *)
Stop ==
  /\ pc # "idle" /\ stops < MaxStops
  /\ \/ UNCHANGED config
     \/ pc = "materialize" /\ Resolves /\ config' = Absent
  /\ Die /\ stops' = stops + 1
  /\ UNCHANGED <<lock, checkout, edited, design, installed, force, edits, moved>>

UserActs ==
  /\ pc = "idle" /\ edits < MaxEdits /\ edits' = edits + 1
  /\ UNCHANGED <<config, installed, plan, pc, force, stops>>

MovePin(project) ==
  /\ UserActs
  /\ \E r \in Revision \ {lock[project]} : lock' = [lock EXCEPT ![project] = r]
  /\ moved' = moved \cup {project}
  /\ UNCHANGED <<checkout, edited, design>>

EditDesign ==
  /\ UserActs
  /\ \E d \in Design \ {design} : design' = d
  /\ UNCHANGED <<lock, checkout, edited, moved>>

EditCheckout(project) ==
  /\ UserActs /\ head[project] # Absent
  /\ ChangeTracked(project)
  /\ UNCHANGED <<lock, head, design, moved>>

(* git checkout . in the checkout                                          *)
CleanCheckout(project) ==
  /\ UserActs /\ Dirty(project)
  /\ edited' = [edited EXCEPT ![project] = "none"]
  /\ IF project = "vortex" THEN patched' = [p \in Patch |-> "none"]
     ELSE UNCHANGED patched
  /\ UNCHANGED <<lock, head, design, moved>>

PinNext ==
  \/ StartScripts(All) \/ \E s \in Script : StartScripts(<<s>>)
  \/ ScriptStep \/ Stop \/ StopInCheckout
  \/ \E p \in Project : MovePin(p) \/ EditCheckout(p) \/ CleanCheckout(p)
  \/ EditDesign

PinSpec == PinInit /\ [][PinNext]_vars

(* Commands end; a user whose environment check would fail follows, now    *)
(* and again, its advice: "run scripts/env/setup.sh all".                  *)
FollowAdvice == ~EnvironmentPasses /\ StartScripts(All)
FairPin == PinSpec /\ WF_vars(ScriptStep) /\ SF_vars(FollowAdvice)

-----------------------------------------------------------------------------
(* Types, and the steps of each script.                                    *)
StepsOf == [
  verilator |-> {"checkout", "version", "install verilator", "install data"},
  llvm |-> {"checkout", "patch", "checkout llvm", "required", "install llvm",
            "kernel library", "builtins", "ready"},
  vortex |-> {"needs", "checkout", "patch", "materialize", "build"},
  check |-> {"check"}]

PinTypeOK ==
  /\ lock \in [Project -> Revision]
  /\ head \in [Project -> Revision \cup {Absent}]
  /\ patched \in [Patch -> {"none", "applied", "broken"}]
  /\ edited \in [Project -> {"none", "patched files", "VX_config.toml", "other files"}]
  /\ design \in Design
  /\ config \in [design : Design, source : Revision \cup {Absent}] \cup {Absent}
  /\ installed \in [File -> Revision \cup {Absent}]
  /\ plan \in Seq(Script) /\ force \in BOOLEAN /\ moved \subseteq Project
  /\ IF plan = <<>> THEN pc = "idle" ELSE pc \in StepsOf[Head(plan)]
  /\ stops \in 0..MaxStops /\ edits \in 0..MaxEdits

(* When setup-llvm-vortex.sh says it is done, whatever earlier scripts were*)
(* cut off and wherever, every required file is installed, and comes from  *)
(* the pinned revision unless the pin of its project was moved: the        *)
(* shortcut of lines 124-138 is sound for an interrupted install.          *)
UnmovedPinsAreBuilt ==
  pc = "ready" =>
    \A f \in ToolchainFile : /\ installed[f] # Absent
                             /\ Owner(f) \notin moved => installed[f] = lock[Owner(f)]

(* The Vortex sources anything is built from are the pinned revision with  *)
(* every patch whole and no change outside the files the patches name      *)
(* (_lib.sh, mandrel_apply_vortex_patches).                                *)
OnlyReviewedSources ==
  pc \in {"materialize", "build", "checkout llvm", "required", "install llvm",
          "kernel library", "builtins"} =>
    /\ head["vortex"] = lock["vortex"]
    /\ \A p \in Patch : patched[p] = "applied"
    /\ edited["vortex"] \notin Unreviewed

(* Where the advice does not help: a checkout with changes of its own or a *)
(* broken patch, by the user or by a checkout cut off half way; a Vortex   *)
(* checkout whose pin moved, for its own patches make it dirty; a design   *)
(* the pinned Vortex does not honour; and a Verilator cut off between its  *)
(* binary and its data, which the next setup takes for installed.          *)
NeedsUser ==
  \/ \E p \in Project : edited[p] # "none"
  \/ \E p \in Patch : patched[p] = "broken"
  \/ head["vortex"] # lock["vortex"] /\ Dirty("vortex")
  \/ <<design, lock["vortex"]>> \notin Honoured
  \/ VersionInstalled /\ installed["verilator data"] = Absent

(* A user who keeps following the advice of check.sh ends with an          *)
(* environment that passes, and it stays so, unless in one of those states.*)
SetupAllConverges == <>[](EnvironmentPasses \/ NeedsUser)

(* "pinned LLVM-Vortex, compiler-rt, and Vortex kernel runtime are already *)
(* installed" (setup-llvm-vortex.sh:136).                                  *)
AnnouncedIsPinned ==
  pc = "ready" => \A f \in ToolchainFile : installed[f] = lock[Owner(f)]
==============================================================================
