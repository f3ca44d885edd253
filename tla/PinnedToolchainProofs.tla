------------------------ MODULE PinnedToolchainProofs ------------------------
(***************************************************************************)
(* For any revisions, designs and number of patches, stops and edits: the  *)
(* scripts build only reviewed sources, and when setup-llvm-vortex.sh says *)
(* it is done every required file is there, from the pinned revision if no *)
(* pin was moved.                                                          *)
(***************************************************************************)
EXTENDS PinnedToolchain, TLAPS

(* The running script and its step.                                        *)
StepOK ==
  /\ plan \in Seq(Script)
  /\ IF plan = <<>> THEN pc = "idle" ELSE pc \in StepsOf[Head(plan)]

DataOK ==
  /\ lock \in [Project -> Revision]
  /\ head \in [Project -> Revision \cup {Absent}]
  /\ patched \in [Patch -> {"none", "applied", "broken"}]
  /\ edited \in [Project -> {"none", "patched files", "VX_config.toml", "other files"}]
  /\ design \in Design
  /\ config \in [design : Design, source : Revision \cup {Absent}] \cup {Absent}
  /\ installed \in [File -> Revision \cup {Absent}]
  /\ force \in BOOLEAN /\ moved \subseteq Project
  /\ stops \in 0..MaxStops /\ edits \in 0..MaxEdits

LEMMA TypeParts == PinTypeOK <=> StepOK /\ DataOK
BY DEF PinTypeOK, StepOK, DataOK

LEMMA Steps ==
  /\ StepsOf["verilator"] = {"checkout", "version", "install verilator", "install data"}
  /\ StepsOf["llvm"] = {"checkout", "patch", "checkout llvm", "required", "install llvm",
                        "kernel library", "builtins", "ready"}
  /\ StepsOf["vortex"] = {"needs", "checkout", "patch", "materialize", "build"}
  /\ StepsOf["check"] = {"check"}
BY DEF StepsOf

LEMMA Firsts ==
  ASSUME NEW s \in Script
  PROVE  FirstStep[s] \in StepsOf[s] /\ FirstStep[s] \in {"checkout", "needs", "check"}
<1>1. /\ FirstStep["verilator"] = "checkout" /\ FirstStep["llvm"] = "checkout"
      /\ FirstStep["vortex"] = "needs" /\ FirstStep["check"] = "check"
  BY DEF FirstStep
<1>2. s \in {"verilator", "llvm", "vortex", "check"}
  BY DEF Script
<1>. QED BY <1>1, <1>2, Steps

(* Which script a step is of.                                              *)
LEMMA AtStep ==
  ASSUME StepOK
  PROVE  /\ pc # "idle" <=> plan # <<>>
         /\ plan # <<>> => Head(plan) \in Script /\ pc \in StepsOf[Head(plan)]
         /\ pc \in {"version", "install verilator", "install data"} => Head(plan) = "verilator"
         /\ pc \in {"checkout llvm", "required", "install llvm", "kernel library",
                    "builtins", "ready"} => Head(plan) = "llvm"
         /\ pc = "patch" => Head(plan) \in {"llvm", "vortex"}
         /\ pc \in {"needs", "materialize", "build"} => Head(plan) = "vortex"
<1>1. ASSUME plan # <<>> PROVE Head(plan) \in Script
  BY <1>1 DEF StepOK
<1>2. plan # <<>> => pc # "idle"
  BY <1>1, Steps DEF StepOK, Script
<1>. QED BY <1>1, <1>2, Steps DEF StepOK, Script

LEMMA FinishOK ==
  ASSUME StepOK, plan # <<>>, Finish
  PROVE  StepOK' /\ pc' \in {"idle", "checkout", "needs", "check"}
<1>1. plan' \in Seq(Script)
  BY DEF StepOK, Finish
<1>2. CASE plan' = <<>>
  BY <1>1, <1>2 DEF StepOK, Finish
<1>3. CASE plan' # <<>>
  <2>1. Head(plan') \in Script /\ pc' = FirstStep[Head(plan')]
    BY <1>1, <1>3 DEF Finish
  <2>. QED BY <1>1, <1>3, <2>1, Firsts DEF StepOK
<1>. QED BY <1>2, <1>3

LEMMA DieOK ==
  ASSUME Die PROVE StepOK' /\ pc' = "idle"
BY DEF Die, StepOK

LEMMA GotoOK ==
  ASSUME StepOK, plan # <<>>, NEW step \in StepsOf[Head(plan)], Goto(step)
  PROVE  StepOK' /\ pc' = step
BY DEF Goto, StepOK

LEMMA StartOK ==
  ASSUME NEW scripts \in Seq(Script), scripts # <<>>, StartScripts(scripts)
  PROVE  StepOK' /\ pc' \in {"checkout", "needs", "check"}
<1>1. Head(scripts) \in Script
  OBVIOUS
<1>. QED BY <1>1, Firsts DEF StartScripts, StepOK

LEMMA Scripts == All \in Seq(Script) /\ All # <<>>
                 /\ \A s \in Script : <<s>> \in Seq(Script) /\ <<s>> # <<>>
BY DEF All, Script

LEMMA Owners ==
  /\ Owner("verilator") = "verilator" /\ Owner("verilator data") = "verilator"
  /\ Owner("libvortex2") = "vortex" /\ Owner("runtime") = "vortex"
  /\ Owner("builtins") = "llvm" /\ \A f \in LlvmFile : Owner(f) = "llvm"
  /\ \A f \in File : Owner(f) \in Project
  /\ LlvmFile \subseteq File /\ ToolchainFile \subseteq File
  /\ {"verilator", "verilator data", "libvortex2", "runtime", "builtins"} \subseteq File
BY DEF Owner, LlvmFile, File, Project, ToolchainFile

-----------------------------------------------------------------------------
(* Types.                                                                  *)

LEMMA StepOKStep == PinTypeOK /\ [PinNext]_vars => StepOK'
<1>. SUFFICES ASSUME PinTypeOK, [PinNext]_vars PROVE StepOK'
  OBVIOUS
<1>0. StepOK
  BY TypeParts
<1>s. /\ pc # "idle" <=> plan # <<>>
      /\ plan # <<>> => Head(plan) \in Script /\ pc \in StepsOf[Head(plan)]
      /\ pc \in {"version", "install verilator", "install data"} => Head(plan) = "verilator"
      /\ pc \in {"checkout llvm", "required", "install llvm", "kernel library",
                 "builtins", "ready"} => Head(plan) = "llvm"
      /\ pc = "patch" => Head(plan) \in {"llvm", "vortex"}
      /\ pc \in {"needs", "materialize", "build"} => Head(plan) = "vortex"
  BY <1>0, AtStep
<1>1. ASSUME NEW scripts \in Seq(Script), scripts # <<>>, StartScripts(scripts) PROVE StepOK'
  BY <1>1, StartOK
<1>2. CASE Clone
  BY <1>0, <1>2 DEF Clone, StepOK
<1>3. CASE CheckOut
  <2>1. plan # <<>> /\ pc \in {"checkout", "checkout llvm"}
    BY <1>3, <1>s DEF CheckOut, Checking
  <2>2. AfterCheckout \in StepsOf[Head(plan)]
    BY <2>1, <1>s, Steps DEF AfterCheckout, Repository, Script
  <2>3. Die \/ Goto(AfterCheckout)
    BY <1>3 DEF CheckOut
  <2>. QED BY <1>0, <2>1, <2>2, <2>3, DieOK, GotoOK
<1>4. CASE ApplyPatch
  <2>1. UNCHANGED <<plan, pc>> \/ Die
    BY <1>4 DEF ApplyPatch
  <2>. QED BY <1>0, <2>1, DieOK DEF StepOK
<1>5. CASE ReviewChanges
  <2>1. plan # <<>> /\ Head(plan) \in {"llvm", "vortex"}
    BY <1>5, <1>s DEF ReviewChanges
  <2>2. (IF Head(plan) = "llvm" THEN "checkout llvm" ELSE "materialize")
          \in StepsOf[Head(plan)]
    BY <2>1, Steps
  <2>3. Die \/ Goto(IF Head(plan) = "llvm" THEN "checkout llvm" ELSE "materialize")
    BY <1>5 DEF ReviewChanges
  <2>. QED BY <1>0, <2>1, <2>2, <2>3, DieOK, GotoOK
<1>6. CASE CheckVersion \/ InstallVerilator \/ InstallVerilatorData
  <2>1. plan # <<>> /\ Head(plan) = "verilator"
    BY <1>6, <1>s DEF CheckVersion, InstallVerilator, InstallVerilatorData
  <2>2. Finish \/ Goto("install verilator") \/ Goto("install data")
    BY <1>6 DEF CheckVersion, InstallVerilator, InstallVerilatorData
  <2>. QED BY <1>0, <2>1, <2>2, Steps, FinishOK, GotoOK
<1>7. CASE \/ CheckRequired \/ InstallLlvm \/ LlvmInstalled \/ MakeKernelLibrary
           \/ InstallBuiltins \/ LlvmReady
  <2>1. plan # <<>> /\ Head(plan) = "llvm"
    BY <1>7, <1>s DEF CheckRequired, InstallLlvm, LlvmInstalled, MakeKernelLibrary,
                      InstallBuiltins, LlvmReady
  <2>2. \/ Finish \/ UNCHANGED <<plan, pc>>
        \/ \E step \in {"ready", "install llvm", "kernel library", "builtins"} : Goto(step)
    BY <1>7 DEF CheckRequired, InstallLlvm, LlvmInstalled, MakeKernelLibrary,
                InstallBuiltins, LlvmReady
  <2>3. CASE UNCHANGED <<plan, pc>>
    BY <1>0, <2>3 DEF StepOK
  <2>. QED BY <1>0, <2>1, <2>2, <2>3, Steps, FinishOK, GotoOK
<1>8. CASE RequireTools \/ Materialize \/ BuildVortex
  <2>1. plan # <<>> /\ Head(plan) = "vortex"
    BY <1>8, <1>s DEF RequireTools, Materialize, BuildVortex
  <2>2. Finish \/ Die \/ Goto("checkout") \/ Goto("build")
    BY <1>8 DEF RequireTools, Materialize, BuildVortex
  <2>. QED BY <1>0, <2>1, <2>2, Steps, FinishOK, DieOK, GotoOK
<1>9. CASE CheckEnvironment \/ BuildFails \/ Stop \/ StopInCheckout
  <2>1. plan # <<>> /\ (Finish \/ Die)
    BY <1>9, <1>s DEF CheckEnvironment, BuildFails, Stop, StopInCheckout, Checking
  <2>. QED BY <1>0, <2>1, FinishOK, DieOK
<1>10. CASE \/ \E p \in Project : MovePin(p) \/ EditCheckout(p) \/ CleanCheckout(p)
            \/ EditDesign \/ UNCHANGED vars
  BY <1>0, <1>10 DEF MovePin, EditCheckout, CleanCheckout, EditDesign, UserActs, StepOK, vars
<1>. QED BY <1>1, <1>2, <1>3, <1>4, <1>5, <1>6, <1>7, <1>8, <1>9, <1>10, Scripts
         DEF PinNext, ScriptStep

LEMMA InstallOK ==
  ASSUME DataOK, NEW f \in File, head[Owner(f)] # Absent, Install(f)
  PROVE  /\ installed' \in [File -> Revision \cup {Absent}]
         /\ installed'[f] = head[Owner(f)]
         /\ \A g \in File \ {f} : installed'[g] = installed[g]
<1>1. Owner(f) \in Project
  BY Owners
<1>2. head[Owner(f)] \in Revision \cup {Absent}
  BY <1>1 DEF DataOK
<1>. QED BY <1>2 DEF DataOK, Install

LEMMA Bounds ==
  ASSUME DataOK
  PROVE  /\ stops < MaxStops => stops + 1 \in 0..MaxStops
         /\ edits < MaxEdits => edits + 1 \in 0..MaxEdits
<1>1. MaxStops \in Nat /\ MaxEdits \in Nat
  BY PinAssumption
<1>2. stops \in 0..MaxStops /\ edits \in 0..MaxEdits
  BY DEF DataOK
<1>. QED BY ONLY <1>1, <1>2

(* The two ways a checkout becomes dirty.                                  *)
LEMMA ChangeOK ==
  ASSUME DataOK, NEW project \in Project, ChangeTracked(project)
  PROVE  /\ patched' \in [Patch -> {"none", "applied", "broken"}]
         /\ edited' \in [Project -> {"none", "patched files", "VX_config.toml", "other files"}]
<1>1. ChangesIn(project) \subseteq {"none", "patched files", "VX_config.toml", "other files"}
  BY DEF ChangesIn
<1>. QED BY <1>1 DEF ChangeTracked, DataOK

LEMMA DataOKStep == PinTypeOK /\ [PinNext]_vars => DataOK'
<1>. SUFFICES ASSUME PinTypeOK, [PinNext]_vars PROVE DataOK'
  OBVIOUS
<1>0. DataOK /\ StepOK
  BY TypeParts
<1>1. ASSUME NEW scripts, StartScripts(scripts) PROVE DataOK'
  BY <1>0, <1>1 DEF StartScripts, DataOK, checkout
<1>2. CASE Clone
  BY <1>0, <1>2 DEF Clone, Resume, DataOK
<1>3. CASE CheckOut
  <2>1. Repository \in Project
    BY <1>0, <1>3, AtStep DEF CheckOut, Checking, Repository, Project
  <2>2. lock[Repository] \in Revision
    BY <1>0, <2>1 DEF DataOK
  <2>. QED BY <1>0, <1>3, <2>2 DEF CheckOut, Resume, DataOK
<1>4. CASE ApplyPatch
  <2>1. /\ \E p : \/ patched' = [patched EXCEPT ![p] = "applied"]
                  \/ patched' = [patched EXCEPT ![p] = "broken"]
                  \/ patched' = patched
        /\ \/ stops' = stops
           \/ stops < MaxStops /\ stops' = stops + 1
        /\ UNCHANGED <<lock, head, edited, design, config, installed, force, edits, moved>>
    BY <1>4, Zenon DEF ApplyPatch
  <2>2. patched' \in [Patch -> {"none", "applied", "broken"}]
    BY <1>0, <2>1 DEF DataOK
  <2>3. stops' \in 0..MaxStops
    BY <1>0, <2>1, Bounds DEF DataOK
  <2>. QED BY <1>0, <2>1, <2>2, <2>3 DEF DataOK
<1>5. CASE ReviewChanges \/ CheckVersion \/ CheckRequired \/ LlvmInstalled \/ LlvmReady
           \/ RequireTools \/ CheckEnvironment \/ BuildFails
  BY <1>0, <1>5 DEF ReviewChanges, CheckVersion, CheckRequired, LlvmInstalled, LlvmReady,
     RequireTools, CheckEnvironment, BuildFails, Resume, checkout, DataOK
<1>6. \A p \in Project : head[p] \in Revision \cup {Absent}
  BY <1>0 DEF DataOK
<1>7. CASE InstallVerilator \/ InstallVerilatorData \/ MakeKernelLibrary \/ InstallBuiltins
           \/ InstallLlvm
  <2>1. \E f \in File : Install(f)
    BY <1>7, Owners DEF InstallVerilator, InstallVerilatorData, MakeKernelLibrary,
       InstallBuiltins, InstallLlvm
  <2>2. installed' \in [File -> Revision \cup {Absent}]
    BY <1>0, <1>6, <2>1, Owners DEF Install, DataOK
  <2>. QED BY <1>0, <1>7, <2>2 DEF InstallVerilator, InstallVerilatorData,
       MakeKernelLibrary, InstallBuiltins, InstallLlvm, Resume, checkout, DataOK
<1>8. CASE BuildVortex
  <2>1. head["vortex"] \in Revision \cup {Absent}
    BY <1>6 DEF Project
  <2>2. installed' \in [File -> Revision \cup {Absent}]
    BY <1>0, <1>8, <2>1 DEF BuildVortex, DataOK
  <2>. QED BY <1>0, <1>8, <2>2 DEF BuildVortex, Resume, checkout, DataOK
<1>9. CASE Stop
  <2>1. stops' \in 0..MaxStops
    BY <1>0, <1>9, Bounds DEF Stop
  <2>2. config' = config \/ config' = Absent
    BY <1>9 DEF Stop
  <2>. QED BY <1>0, <1>9, <2>1, <2>2 DEF Stop, checkout, DataOK
<1>m. CASE Materialize
  <2>1. head["vortex"] \in Revision \cup {Absent} /\ design \in Design
    BY <1>0, <1>6 DEF Project, DataOK
  <2>2. config' = Rendering \/ config' = config
    BY <1>m DEF Materialize
  <2>3. Rendering \in [design : Design, source : Revision \cup {Absent}]
    BY <2>1 DEF Rendering
  <2>4. config \in [design : Design, source : Revision \cup {Absent}] \cup {Absent}
    BY <1>0 DEF DataOK
  <2>5. config' \in [design : Design, source : Revision \cup {Absent}] \cup {Absent}
    BY <2>2, <2>3, <2>4
  <2>. QED BY <1>0, <1>m, <2>5 DEF Materialize, checkout, DataOK
<1>c. CASE StopInCheckout
  <2>1. Repository \in Project
    BY <1>0, <1>c, AtStep DEF StopInCheckout, Checking, Repository, Project
  <2>2. stops' \in 0..MaxStops
    BY <1>0, <1>c, Bounds DEF StopInCheckout
  <2>3. head' \in [Project -> Revision \cup {Absent}]
    BY <1>0, <1>c DEF StopInCheckout, DataOK
  <2>4. ChangeTracked(Repository)
    BY <1>c DEF StopInCheckout
  <2>. QED BY <1>0, <1>c, <2>1, <2>2, <2>3, <2>4, ChangeOK DEF StopInCheckout, DataOK
<1>u. ASSUME UserActs PROVE edits' \in 0..MaxEdits
  BY <1>0, <1>u, Bounds DEF UserActs
<1>10. ASSUME NEW p \in Project, MovePin(p) PROVE DataOK'
  <2>1. lock' \in [Project -> Revision] /\ moved' \subseteq Project
    BY <1>0, <1>10 DEF MovePin, DataOK
  <2>. QED BY <1>0, <1>10, <1>u, <2>1 DEF MovePin, UserActs, checkout, DataOK
<1>11. ASSUME NEW p \in Project, EditCheckout(p) \/ CleanCheckout(p) PROVE DataOK'
  <2>1. /\ patched' \in [Patch -> {"none", "applied", "broken"}]
        /\ edited' \in [Project -> {"none", "patched files", "VX_config.toml", "other files"}]
    <3>1. CASE EditCheckout(p)
      BY <1>0, <3>1, ChangeOK DEF EditCheckout
    <3>2. CASE CleanCheckout(p)
      BY <1>0, <3>2 DEF CleanCheckout, DataOK
    <3>. QED BY <1>11, <3>1, <3>2
  <2>2. /\ UNCHANGED <<lock, head, design, config, installed, force, stops, moved>>
        /\ edits' \in 0..MaxEdits
    BY <1>11, <1>u DEF EditCheckout, CleanCheckout, UserActs
  <2>. QED BY <1>0, <2>1, <2>2 DEF DataOK
<1>e. CASE EditDesign
  <2>1. design' \in Design
    BY <1>e DEF EditDesign
  <2>. QED BY <1>0, <1>e, <1>u, <2>1 DEF EditDesign, UserActs, checkout, DataOK
<1>12. CASE UNCHANGED vars
  BY <1>0, <1>12 DEF vars, checkout, DataOK
<1>. QED BY <1>1, <1>2, <1>3, <1>4, <1>5, <1>7, <1>8, <1>9, <1>m, <1>c, <1>10, <1>11,
            <1>e, <1>12 DEF PinNext, ScriptStep

LEMMA PinTypeInit == PinInit => PinTypeOK
<1>. SUFFICES ASSUME PinInit PROVE PinTypeOK
  OBVIOUS
<1>1. stops \in 0..MaxStops /\ edits \in 0..MaxEdits
  BY PinAssumption DEF PinInit
<1>2. plan \in Seq(Script) /\ (IF plan = <<>> THEN pc = "idle" ELSE pc \in StepsOf[Head(plan)])
  BY DEF PinInit
<1>3. lock \in [Project -> Revision]
  BY PinAssumption DEF PinInit
<1>. QED BY <1>1, <1>2, <1>3 DEF PinInit, PinTypeOK

LEMMA PinTypeStep == PinTypeOK /\ [PinNext]_vars => PinTypeOK'
<1>1. PinTypeOK' <=> StepOK' /\ DataOK'
  BY DEF PinTypeOK, StepOK, DataOK
<1>. QED BY <1>1, StepOKStep, DataOKStep

(* The scripts keep to their own steps, and every file is of some revision *)
(* or absent, however often they are stopped and restarted.                *)
THEOREM PinTypeCorrect == PinSpec => []PinTypeOK
BY PinTypeInit, PinTypeStep, PTL DEF PinSpec

-----------------------------------------------------------------------------
(* Sources and files.  A checkout is at its pin from the checkout step to  *)
(* the end of the script, so what a step installs is of the pinned         *)
(* revision, and it stays so until the pin is moved.                       *)
VerilatorBuild == {"version", "install verilator", "install data"}
LlvmBuild == {"required", "install llvm", "kernel library", "builtins"}

AtPins ==
  /\ pc = "patch" => head["vortex"] = lock["vortex"]
  /\ pc \in VerilatorBuild => head["verilator"] = lock["verilator"]
  /\ pc \in LlvmBuild => head["llvm"] = lock["llvm"]

InstalledSoFar ==
  /\ pc \in {"kernel library", "builtins", "ready"} =>
       \A f \in LlvmFile : installed[f] # Absent
  /\ pc \in {"builtins", "ready"} => installed["libvortex2"] # Absent
  /\ pc = "ready" => installed["builtins"] # Absent

FromUnmovedPins ==
  \A f \in File :
    installed[f] # Absent /\ Owner(f) \notin moved => installed[f] = lock[Owner(f)]

PinIInv ==
  PinTypeOK /\ AtPins /\ OnlyReviewedSources /\ InstalledSoFar /\ FromUnmovedPins

(* Steps at which nothing is built.                                        *)
Quiet == {"idle", "needs", "checkout", "check"}

LEMMA QuietStep ==
  ASSUME PinIInv, PinTypeOK', pc' \in Quiet,
         FromUnmovedPins'
  PROVE  PinIInv'
BY DEF PinIInv, AtPins, OnlyReviewedSources, InstalledSoFar, Quiet, VerilatorBuild, LlvmBuild

LEMMA SameFiles ==
  ASSUME FromUnmovedPins, UNCHANGED <<installed, lock, moved>> PROVE FromUnmovedPins'
BY DEF FromUnmovedPins

(* A file installed from a checkout that is at its pin.                    *)
LEMMA InstallFromPin ==
  ASSUME DataOK, FromUnmovedPins, NEW f \in File, Install(f),
         head[Owner(f)] = lock[Owner(f)], UNCHANGED <<lock, moved>>
  PROVE  /\ FromUnmovedPins' /\ installed'[f] # Absent
         /\ \A g \in File : installed[g] # Absent => installed'[g] # Absent
<1>0. Absent \notin Revision
  BY PinAssumption
<1>1. lock[Owner(f)] \in Revision /\ lock[Owner(f)] # Absent
  BY <1>0, Owners DEF DataOK
<1>2. installed' = [installed EXCEPT ![f] = lock[Owner(f)]]
  BY DEF Install
<1>. QED BY <1>1, <1>2 DEF FromUnmovedPins, DataOK

LEMMA PinIInvInit == PinInit => PinIInv
<1>. SUFFICES ASSUME PinInit PROVE PinIInv
  OBVIOUS
<1>1. PinTypeOK
  BY PinTypeInit
<1>. QED BY <1>1 DEF PinInit, PinIInv, AtPins, OnlyReviewedSources, InstalledSoFar,
     FromUnmovedPins, VerilatorBuild, LlvmBuild

LEMMA PinIInvStep == PinIInv /\ [PinNext]_vars => PinIInv'
<1>. SUFFICES ASSUME PinIInv, [PinNext]_vars PROVE PinIInv'
  OBVIOUS
<1>0. PinTypeOK /\ PinTypeOK' /\ StepOK /\ DataOK /\ FromUnmovedPins
  BY PinTypeStep, TypeParts DEF PinIInv
<1>s. /\ pc # "idle" <=> plan # <<>>
      /\ plan # <<>> => Head(plan) \in Script /\ pc \in StepsOf[Head(plan)]
      /\ pc \in {"version", "install verilator", "install data"} => Head(plan) = "verilator"
      /\ pc \in {"checkout llvm", "required", "install llvm", "kernel library",
                 "builtins", "ready"} => Head(plan) = "llvm"
      /\ pc = "patch" => Head(plan) \in {"llvm", "vortex"}
      /\ pc \in {"needs", "materialize", "build"} => Head(plan) = "vortex"
  BY <1>0, AtStep
<1>q. ASSUME Finish, pc # "idle" PROVE pc' \in Quiet
  BY <1>0, <1>s, <1>q, FinishOK DEF Quiet
<1>d. ASSUME Die PROVE pc' \in Quiet
  BY <1>d DEF Die, Quiet
<1>r. ASSUME Resume, installed' = installed PROVE FromUnmovedPins'
  BY <1>0, <1>r, SameFiles DEF Resume
<1>1. ASSUME NEW scripts \in Seq(Script), scripts # <<>>, StartScripts(scripts) PROVE PinIInv'
  <2>1. pc' \in Quiet
    BY <1>1, StartOK DEF Quiet
  <2>2. FromUnmovedPins'
    BY <1>0, <1>1, SameFiles DEF StartScripts
  <2>. QED BY <1>0, <2>1, <2>2, QuietStep
<1>2. CASE Clone
  <2>1. /\ pc' = pc /\ pc \in {"checkout", "checkout llvm"} /\ installed' = installed
        /\ UNCHANGED <<lock, patched, edited, moved>>
    BY <1>2 DEF Clone, Checking, Resume
  <2>2. pc = "checkout llvm" => head'["vortex"] = head["vortex"]
    <3>. SUFFICES ASSUME pc = "checkout llvm" PROVE head'["vortex"] = head["vortex"]
      OBVIOUS
    <3>1. Repository = "llvm"
      BY <1>s DEF Repository
    <3>. QED BY <1>0, <1>2, <3>1 DEF Clone, DataOK, Project
  <2>3. FromUnmovedPins'
    BY <1>0, <2>1, SameFiles
  <2>. QED BY <1>0, <2>1, <2>2, <2>3 DEF PinIInv, AtPins, OnlyReviewedSources,
       InstalledSoFar, VerilatorBuild, LlvmBuild
<1>3. CASE CheckOut
  <2>1. /\ pc \in {"checkout", "checkout llvm"}
        /\ UNCHANGED <<installed, lock, patched, edited, moved>>
    BY <1>3 DEF CheckOut, Checking, Resume
  <2>2. FromUnmovedPins'
    BY <1>0, <2>1, SameFiles
  <2>3. CASE Die
    BY <1>0, <1>d, <2>2, <2>3, QuietStep
  <2>4. CASE /\ head' = [head EXCEPT ![Repository] = lock[Repository]]
             /\ pc' = AfterCheckout
    <3>1. Head(plan) = "verilator" => Repository = "verilator" /\ pc' = "version"
      BY <2>4 DEF Repository, AfterCheckout
    <3>2. pc = "checkout llvm" => Repository = "llvm" /\ pc' = "required"
      BY <1>s, <2>4 DEF Repository, AfterCheckout
    <3>3. Head(plan) # "verilator" /\ pc = "checkout" => Repository = "vortex" /\ pc' = "patch"
      BY <2>4 DEF Repository, AfterCheckout
    <3>4. Repository \in Project
      BY DEF Repository, Project
    <3>5. head'[Repository] = lock'[Repository]
      BY <1>0, <2>1, <2>4, <3>4 DEF DataOK
    <3>6. pc = "checkout llvm" => head'["vortex"] = lock'["vortex"]
      BY <1>0, <2>1, <2>4, <3>2 DEF DataOK, Project, PinIInv, OnlyReviewedSources
    <3>. QED BY <1>0, <2>1, <2>2, <3>1, <3>2, <3>3, <3>5, <3>6 DEF PinIInv, AtPins,
         OnlyReviewedSources, InstalledSoFar, VerilatorBuild, LlvmBuild
  <2>. QED BY <1>3, <2>3, <2>4 DEF CheckOut, Goto
<1>4. CASE ApplyPatch
  <2>1. /\ pc = "patch" /\ UNCHANGED <<installed, lock, head, edited, moved>>
        /\ (UNCHANGED <<plan, pc>> \/ Die)
    BY <1>4 DEF ApplyPatch
  <2>2. FromUnmovedPins'
    BY <1>0, <2>1, SameFiles
  <2>3. CASE Die
    BY <1>0, <1>d, <2>2, <2>3, QuietStep
  <2>. QED BY <1>0, <2>1, <2>2, <2>3 DEF PinIInv, AtPins,
         OnlyReviewedSources, InstalledSoFar, VerilatorBuild, LlvmBuild
<1>5. CASE ReviewChanges
  <2>1. /\ pc = "patch" /\ UNCHANGED <<installed, lock, head, patched, edited, moved>>
        /\ \A p \in Patch : patched[p] = "applied"
        /\ \/ Die
           \/ edited["vortex"] \notin Unreviewed /\ pc' \in {"checkout llvm", "materialize"}
    BY <1>5 DEF ReviewChanges, Resume, checkout, Goto, Outstanding, Reverses
  <2>2. FromUnmovedPins'
    BY <1>0, <2>1, SameFiles
  <2>3. CASE Die
    BY <1>0, <1>d, <2>2, <2>3, QuietStep
  <2>4. head["vortex"] = lock["vortex"]
    BY <2>1 DEF PinIInv, AtPins
  <2>. QED BY <1>0, <2>1, <2>2, <2>3, <2>4 DEF PinIInv, AtPins,
         OnlyReviewedSources, InstalledSoFar, VerilatorBuild, LlvmBuild
<1>6. CASE CheckVersion \/ InstallVerilator \/ InstallVerilatorData
  <2>1. pc \in VerilatorBuild /\ UNCHANGED <<lock, head, moved>>
    BY <1>6 DEF CheckVersion, InstallVerilator, InstallVerilatorData, VerilatorBuild,
       Resume, checkout
  <2>2. head["verilator"] = lock["verilator"]
    BY <2>1 DEF PinIInv, AtPins
  <2>3. FromUnmovedPins'
    <3>1. CASE CheckVersion
      BY <1>0, <2>1, <3>1, SameFiles DEF CheckVersion
    <3>2. CASE InstallVerilator
      BY <1>0, <2>1, <2>2, <3>2, Owners, InstallFromPin DEF InstallVerilator
    <3>3. CASE InstallVerilatorData
      BY <1>0, <2>1, <2>2, <3>3, Owners, InstallFromPin DEF InstallVerilatorData
    <3>. QED BY <1>6, <3>1, <3>2, <3>3
  <2>4. pc' \in Quiet \/ pc' \in VerilatorBuild
    BY <1>6, <1>q DEF CheckVersion, InstallVerilator, InstallVerilatorData, Goto,
       VerilatorBuild
  <2>5. CASE pc' \in VerilatorBuild
    BY <1>0, <2>1, <2>2, <2>3, <2>5 DEF PinIInv, AtPins,
       OnlyReviewedSources, InstalledSoFar, VerilatorBuild, LlvmBuild
  <2>. QED BY <1>0, <2>3, <2>4, <2>5, QuietStep
<1>7. CASE RequireTools \/ CheckEnvironment \/ BuildFails \/ LlvmReady
  <2>1. pc' \in Quiet
    BY <1>7, <1>q, <1>d DEF RequireTools, CheckEnvironment, BuildFails, LlvmReady, Goto, Quiet
  <2>2. FromUnmovedPins'
    BY <1>7, <1>r DEF RequireTools, CheckEnvironment, BuildFails, LlvmReady
  <2>. QED BY <1>0, <2>1, <2>2, QuietStep
<1>m. CASE Materialize
  <2>1. /\ pc = "materialize" /\ UNCHANGED <<lock, head, patched, edited, installed, moved>>
        /\ Die \/ pc' = "build"
    BY <1>m DEF Materialize, Goto, checkout
  <2>2. FromUnmovedPins'
    BY <1>0, <2>1, SameFiles
  <2>3. CASE Die
    BY <1>0, <1>d, <2>2, <2>3, QuietStep
  <2>. QED BY <1>0, <2>1, <2>2, <2>3 DEF PinIInv, AtPins,
       OnlyReviewedSources, InstalledSoFar, VerilatorBuild, LlvmBuild
<1>8. CASE CheckRequired \/ InstallLlvm \/ LlvmInstalled \/ MakeKernelLibrary \/ InstallBuiltins
  <2>1. /\ pc \in LlvmBuild /\ pc' \in LlvmBuild \cup {"ready"}
        /\ UNCHANGED <<lock, head, patched, edited, moved>>
    BY <1>8 DEF CheckRequired, InstallLlvm, LlvmInstalled, MakeKernelLibrary,
       InstallBuiltins, LlvmBuild, Goto, Resume, checkout
  <2>2. /\ head["llvm"] = lock["llvm"] /\ head["vortex"] = lock["vortex"]
        /\ OnlyReviewedSources'
    BY <2>1 DEF PinIInv, AtPins, OnlyReviewedSources, LlvmBuild
  <2>3. AtPins'
    BY <2>1, <2>2 DEF AtPins, LlvmBuild, VerilatorBuild
  <2>4. FromUnmovedPins' /\ InstalledSoFar'
    <3>1. CASE CheckRequired
      <4>1. /\ installed' = installed
            /\ \/ pc' = "install llvm"
               \/ pc' = "ready" /\ \A f \in ToolchainFile : installed[f] # Absent
        BY <3>1 DEF CheckRequired, Goto, Required
      <4>2. FromUnmovedPins'
        BY <1>0, <2>1, <4>1, SameFiles
      <4>. QED BY <4>1, <4>2 DEF InstalledSoFar, ToolchainFile
    <3>2. CASE InstallLlvm
      <4>1. PICK f \in LlvmFile : Install(f)
        BY <3>2 DEF InstallLlvm
      <4>2. FromUnmovedPins'
        BY <1>0, <2>1, <2>2, <4>1, Owners, InstallFromPin
      <4>. QED BY <3>2, <4>2 DEF InstallLlvm, InstalledSoFar
    <3>3. CASE LlvmInstalled
      <4>1. /\ installed' = installed /\ pc' = "kernel library"
            /\ \A f \in LlvmFile : installed[f] = lock["llvm"]
        BY <2>2, <3>3 DEF LlvmInstalled, Goto
      <4>2. lock["llvm"] # Absent
        BY <1>0, PinAssumption DEF DataOK, Project
      <4>3. FromUnmovedPins'
        BY <1>0, <2>1, <4>1, SameFiles
      <4>. QED BY <4>1, <4>2, <4>3 DEF InstalledSoFar
    <3>4. CASE MakeKernelLibrary
      <4>1. Install("libvortex2") /\ pc = "kernel library" /\ pc' = "builtins"
        BY <3>4 DEF MakeKernelLibrary, Goto
      <4>2. /\ FromUnmovedPins' /\ installed'["libvortex2"] # Absent
            /\ \A g \in File : installed[g] # Absent => installed'[g] # Absent
        BY <1>0, <2>1, <2>2, <4>1, Owners, InstallFromPin
      <4>. QED BY <4>1, <4>2, Owners DEF PinIInv, InstalledSoFar
    <3>5. CASE InstallBuiltins
      <4>1. Install("builtins") /\ pc = "builtins" /\ pc' = "ready"
        BY <3>5 DEF InstallBuiltins, Goto
      <4>2. /\ FromUnmovedPins' /\ installed'["builtins"] # Absent
            /\ \A g \in File : installed[g] # Absent => installed'[g] # Absent
        BY <1>0, <2>1, <2>2, <4>1, Owners, InstallFromPin
      <4>. QED BY <4>1, <4>2, Owners DEF PinIInv, InstalledSoFar
    <3>. QED BY <1>8, <3>1, <3>2, <3>3, <3>4, <3>5
  <2>. QED BY <1>0, <2>2, <2>3, <2>4 DEF PinIInv
<1>9. CASE BuildVortex
  <2>1. /\ pc = "build" /\ UNCHANGED <<lock, head, moved>>
        /\ Die \/ Finish
        /\ \/ installed' = installed
           \/ installed' = [installed EXCEPT !["libvortex2"] = head["vortex"],
                                             !["runtime"] = head["vortex"]]
    BY <1>9 DEF BuildVortex, Resume, checkout
  <2>2. head["vortex"] = lock["vortex"]
    BY <2>1 DEF PinIInv, OnlyReviewedSources
  <2>3. FromUnmovedPins'
    <3>1. \A f \in File : \/ installed'[f] = installed[f]
                          \/ Owner(f) = "vortex" /\ installed'[f] = head["vortex"]
      BY <1>0, <2>1, Owners DEF DataOK
    <3>. QED BY <1>0, <2>1, <2>2, <3>1 DEF FromUnmovedPins
  <2>4. pc' \in Quiet
    BY <1>q, <1>d, <2>1
  <2>. QED BY <1>0, <2>3, <2>4, QuietStep
<1>10. CASE Stop \/ StopInCheckout
  <2>1. pc' \in Quiet
    BY <1>10, <1>d DEF Stop, StopInCheckout
  <2>2. FromUnmovedPins'
    BY <1>0, <1>10, SameFiles DEF Stop, StopInCheckout
  <2>. QED BY <1>0, <2>1, <2>2, QuietStep
<1>11. ASSUME NEW p \in Project, MovePin(p) PROVE PinIInv'
  <2>1. /\ pc' \in Quiet /\ installed' = installed /\ moved' = moved \cup {p}
        /\ \E r : lock' = [lock EXCEPT ![p] = r]
    BY <1>11 DEF MovePin, UserActs, Quiet
  <2>2. FromUnmovedPins'
    BY <1>0, <2>1, Owners DEF FromUnmovedPins, DataOK
  <2>. QED BY <1>0, <2>1, <2>2, QuietStep
<1>12. CASE EditDesign \/ \E p \in Project : EditCheckout(p) \/ CleanCheckout(p)
  <2>1. pc' \in Quiet /\ UNCHANGED <<installed, lock, moved>>
    BY <1>12 DEF EditDesign, EditCheckout, CleanCheckout, UserActs, Quiet
  <2>. QED BY <1>0, <2>1, SameFiles, QuietStep
<1>13. CASE UNCHANGED vars
  BY <1>0, <1>13 DEF vars, checkout, PinIInv, AtPins, OnlyReviewedSources, InstalledSoFar,
     FromUnmovedPins
<1>. QED BY <1>1, <1>2, <1>3, <1>4, <1>5, <1>6, <1>7, <1>m, <1>8, <1>9, <1>10, <1>11,
            <1>12, <1>13, Scripts DEF PinNext, ScriptStep

(* The invariant holds in every state, whatever is stopped, moved or      *)
(* edited.                                                                 *)
THEOREM PinInvariant == PinSpec => []PinIInv
BY PinIInvInit, PinIInvStep, PTL DEF PinSpec

(* Whatever is killed, moved or edited in between, nothing is built from a *)
(* Vortex checkout off its pin, half patched or changed in other files.    *)
THEOREM SourcesAreReviewed == PinSpec => []OnlyReviewedSources
<1>1. PinIInv => OnlyReviewedSources
  BY DEF PinIInv
<1>. QED BY <1>1, PinInvariant, PTL

(* An interrupted install is never announced as ready, and what is         *)
(* announced is of the pinned revision unless its pin was moved.           *)
THEOREM AnnouncedIsBuilt == PinSpec => []UnmovedPinsAreBuilt
<1>1. ASSUME PinIInv PROVE UnmovedPinsAreBuilt
  <2>. SUFFICES ASSUME pc = "ready", NEW f \in ToolchainFile
                PROVE  /\ installed[f] # Absent
                       /\ Owner(f) \notin moved => installed[f] = lock[Owner(f)]
    BY DEF UnmovedPinsAreBuilt
  <2>1. installed[f] # Absent
    BY <1>1 DEF PinIInv, InstalledSoFar, ToolchainFile
  <2>. QED BY <1>1, <2>1, Owners DEF PinIInv, FromUnmovedPins
<1>. QED BY <1>1, PinInvariant, PTL
=============================================================================
