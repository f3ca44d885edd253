---------------------------- MODULE AttentionRun ----------------------------
(***************************************************************************)
(* `cargo vortex-run-attention`, on its own or behind `make run`, in any   *)
(* number of terminals on one working tree.  A run turns attention on the  *)
(* RTL simulator into an evidence record: it reads and validates the       *)
(* configuration identity, builds the identity probe and the attention     *)
(* kernel, reads the tag the RTL reports, runs attention in a child        *)
(* process that loads the library again, and writes the JSON and the CSV.  *)
(*                                                                         *)
(* Artifacts and reports are at fixed paths under target/, which all runs  *)
(* share, and no run locks them.  The published config files, the design   *)
(* and the simulator library belong to the environment: this module reads  *)
(* them when the code does and never constrains their next value.          *)
(*                                                                         *)
(* Every Err of the code, every failing tool and a kill end the run at the *)
(* step where it is: that is Stop.  The guards of the other actions are    *)
(* the conditions under which the code goes on.                            *)
(***************************************************************************)
EXTENDS VortexConfigFiles

CONSTANTS
  Terminal,       \* where runs are started, one at a time in each
  ElfRunsOn,      \* configurations whose ISA covers what the ELF requires
  TargetMatches,  \* configurations whose capabilities equal spec.target
  Torn,           \* the content of a file whose writer was cut off
  MaxRuns         \* bound: runs started

VARIABLES
  disk, design, rtl,  \* the environment: published files, design, RTL library
  runs,       \* runs started in any terminal
  overlapped, \* history: the runs during which another run was active
  object, elf, vxbin, \* artifacts under target/, kept across runs
  json, csv,  \* the report files
  \* of each terminal:
  number,     \* the number of its latest run
  outcome,    \* how that run ended
  \* and of the run that is active there:
  rpc,        \* what it does next
  checked,    \* the design env-check compared with, if this run did it
  seen,       \* contents read so far of the published files, in order
  identity,   \* the configuration identity the run accepted
  kernel,     \* the kernel being built
  observed,   \* the tag the probe read from the RTL
  loaded,     \* the library the child process loaded
  executed    \* the kernel image the child process launched

started == <<runs, overlapped, number, checked>>
artifacts == <<object, elf, vxbin>>
reports == <<json, csv>>
found == <<identity, observed, loaded, executed>>

Kernel == {"probe", "attention"}
Active(t) == rpc[t] # "idle"
Others(t) == {u \in Terminal \ {t} : Active(u)}

(* A kernel image is known by the run that compiled it and by the config   *)
(* defines its startup object was compiled with.                           *)
Image == [run : 1..MaxRuns, config : Identity]
Intact(file) == file \notin {Absent, Torn}

-----------------------------------------------------------------------------
RunInit ==
  /\ runs = 0 /\ overlapped = {}
  /\ object = [k \in Kernel |-> Absent]
  /\ elf = [k \in Kernel |-> Absent] /\ vxbin = [k \in Kernel |-> Absent]
  /\ json = Absent /\ csv = Absent
  /\ number = [t \in Terminal |-> 0] /\ rpc = [t \in Terminal |-> "idle"]
  /\ checked = [t \in Terminal |-> Absent] /\ seen = [t \in Terminal |-> <<>>]
  /\ identity = [t \in Terminal |-> Absent]
  /\ kernel = [t \in Terminal |-> "probe"]
  /\ observed = [t \in Terminal |-> Absent] /\ loaded = [t \in Terminal |-> Absent]
  /\ executed = [t \in Terminal |-> Absent] /\ outcome = [t \in Terminal |-> "none"]

Goto(t, step) == rpc' = [rpc EXCEPT ![t] = step]
ReadAgain(t) == seen' = [seen EXCEPT ![t] = <<>>]

(* A new run starts with nothing but the files earlier runs left.          *)
Fresh(t) ==
  /\ ~Active(t) /\ runs < MaxRuns
  /\ runs' = runs + 1 /\ number' = [number EXCEPT ![t] = runs + 1]
  /\ overlapped' = overlapped \cup {number[u] : u \in Others(t)}
                              \cup (IF Others(t) = {} THEN {} ELSE {runs + 1})
  /\ outcome' = [outcome EXCEPT ![t] = "none"]
  /\ UNCHANGED <<seen, kernel, found, artifacts, reports>>

(* What only its process knew is gone with a run.                          *)
Ends(t, result) ==
  /\ Goto(t, "idle") /\ outcome' = [outcome EXCEPT ![t] = result]
  /\ checked' = [checked EXCEPT ![t] = Absent] /\ ReadAgain(t)
  /\ identity' = [identity EXCEPT ![t] = Absent]
  /\ kernel' = [kernel EXCEPT ![t] = "probe"]
  /\ observed' = [observed EXCEPT ![t] = Absent]
  /\ loaded' = [loaded EXCEPT ![t] = Absent]
  /\ executed' = [executed EXCEPT ![t] = Absent]
  /\ UNCHANGED <<runs, overlapped, number>>

(* make run: env-check resolves the design first and then compares.        *)
StartChecked(t) ==
  /\ Fresh(t) /\ Resolve[design] # Rejected
  /\ Goto(t, "check") /\ checked' = [checked EXCEPT ![t] = design]

(* cargo vortex-run-attention, which make e2e runs after setup.            *)
StartDirect(t) ==
  /\ Fresh(t)
  /\ Goto(t, "identity") /\ checked' = [checked EXCEPT ![t] = Absent]

(* Mutant: a missing file reads as empty.                                  *)
AnyFile(file) == file \in OutputFile
Readable(file) == disk[file] # Absent

(* The published files are read one by one, in the order in which the      *)
(* materializer replaces them; another process may act in between.         *)
Needed(t) == CASE rpc[t] = "check" -> 5
               [] rpc[t] \in {"identity", "startup", "isa"} -> 3
               [] OTHER -> 0

ReadPublished(t) ==
  /\ Len(seen[t]) < Needed(t)
  /\ LET file == OutputOrder[Len(seen[t]) + 1]
     IN /\ Readable(file)
        /\ seen' = [seen EXCEPT ![t] = Append(seen[t], disk[file])]
  /\ UNCHANGED <<started, rpc, kernel, found, artifacts, reports, outcome>>

(* parse_materialized_config: the digest recomputed from the manifest and  *)
(* both sidecars must agree.                                               *)
Accepts(s) == Resolve[s[1]] = s[2] /\ s[2] = s[3]
ConfigRead(s) == Resolve[s[1]]
AllRead(t) == Len(seen[t]) = 3 /\ Accepts(seen[t])

(* Mutant: env-check is content with files that agree with one another.    *)
SelfConsistent(s, d) == d \in Design /\ Accepts(s)
SameAsRendered(s, d) == \A i \in 1..5 : s[i] = Rendering(OutputOrder[i], d)

(* check.sh: byte equality with a fresh rendering, and the libraries exist.*)
EnvCheckPasses(t) ==
  /\ rpc[t] = "check" /\ Len(seen[t]) = 5
  /\ SameAsRendered(seen[t], checked[t])
  /\ rtl # Absent
  /\ Goto(t, "identity") /\ ReadAgain(t)
  /\ UNCHANGED <<started, kernel, found, artifacts, reports, outcome>>

AcceptIdentity(t) ==
  /\ rpc[t] = "identity" /\ AllRead(t)
  /\ identity' = [identity EXCEPT ![t] = ConfigRead(seen[t])]
  /\ Goto(t, "build") /\ ReadAgain(t)
  /\ UNCHANGED <<started, kernel, observed, loaded, executed, artifacts, reports,
                 outcome>>

(* MLIR text, LLVM IR and the object, each replaced.                       *)
CompileKernel(t) ==
  /\ rpc[t] = "build"
  /\ object' = [object EXCEPT ![kernel[t]] = number[t]]
  /\ Goto(t, "startup")
  /\ UNCHANGED <<started, seen, kernel, found, elf, vxbin, reports, outcome>>

(* The startup object takes its defines from the config as it is now; the  *)
(* object at its path is linked, whoever compiled it.                      *)
LinkElf(t) ==
  /\ rpc[t] = "startup" /\ AllRead(t) /\ Intact(object[kernel[t]])
  /\ elf' = [elf EXCEPT ![kernel[t]] = [run |-> object[kernel[t]],
                                        config |-> ConfigRead(seen[t])]]
  /\ Goto(t, "isa") /\ ReadAgain(t)
  /\ UNCHANGED <<started, kernel, found, object, vxbin, reports, outcome>>

(* Mutant: no membership test of the required extensions.                  *)
AnyIsa(config) == config \in Identity
IsaCovers(config) == config \in ElfRunsOn

(* The RTL ISA comes from the config as it is now, not from the identity.  *)
VerifyIsa(t) ==
  /\ rpc[t] = "isa" /\ AllRead(t) /\ Intact(elf[kernel[t]])
  /\ IsaCovers(ConfigRead(seen[t]))
  /\ Goto(t, "package") /\ ReadAgain(t)
  /\ UNCHANGED <<started, kernel, found, artifacts, reports, outcome>>

(* Mutant: an image that is there already is not packaged again.           *)
PackagedOnce(k) == IF vxbin[k] = Absent THEN elf[k] ELSE vxbin[k]
Packaged(k) == elf[k]

PackageVxbin(t) ==
  /\ rpc[t] = "package" /\ Intact(elf[kernel[t]])
  /\ vxbin' = [vxbin EXCEPT ![kernel[t]] = Packaged(kernel[t])]
  /\ Goto(t, "verify")
  /\ UNCHANGED <<started, seen, kernel, found, object, elf, reports, outcome>>

VerifyVxbin(t) ==
  /\ rpc[t] = "verify" /\ Intact(vxbin[kernel[t]])
  /\ IF kernel[t] = "probe"
     THEN kernel' = [kernel EXCEPT ![t] = "attention"] /\ Goto(t, "build")
     ELSE UNCHANGED kernel /\ Goto(t, "associate")
  /\ UNCHANGED <<started, seen, found, artifacts, reports, outcome>>

(* Mutant: the observed tag is recorded but not compared.                  *)
AnyTag(tag, t) == tag \in Identity /\ t \in Terminal
TagExpected(tag, t) == tag = identity[t]

(* verify_hardware_identity, on a backend of its own: without a library or *)
(* with another tag the run refuses performance evidence.                  *)
Associate(t) ==
  /\ rpc[t] = "associate" /\ Intact(vxbin["probe"])
  /\ rtl # Absent /\ TagExpected(rtl.tag, t)
  /\ observed' = [observed EXCEPT ![t] = rtl.tag]
  /\ Goto(t, "open")
  /\ UNCHANGED <<started, seen, kernel, identity, loaded, executed, artifacts,
                 reports, outcome>>

(* The child loads the library again and requires the exact target.        *)
OpenBackend(t) ==
  /\ rpc[t] = "open"
  /\ rtl # Absent /\ rtl.config \in TargetMatches
  /\ loaded' = [loaded EXCEPT ![t] = rtl]
  /\ Goto(t, "execute")
  /\ UNCHANGED <<started, seen, kernel, identity, observed, executed, artifacts,
                 reports, outcome>>

(* The child launches the image at the vxbin path; it goes on only with an *)
(* output equal to the host reference, prints its trace line and exits 0.  *)
ExecuteExact(t) ==
  /\ rpc[t] = "execute" /\ Intact(vxbin["attention"])
  /\ executed' = [executed EXCEPT ![t] = vxbin["attention"]]
  /\ Goto(t, "json")
  /\ UNCHANGED <<started, seen, kernel, identity, observed, loaded, artifacts,
                 reports, outcome>>

(* What the run writes, with the library and the image that were really    *)
(* used recorded beside it (the code's report names only the identity).    *)
Evidence(t) == [run |-> number[t], checked |-> checked[t], identity |-> identity[t],
                observed |-> observed[t], rtl |-> loaded[t], image |-> executed[t]]

WriteJson(t) ==
  /\ rpc[t] = "json"
  /\ json' = Evidence(t)
  /\ Goto(t, "csv")
  /\ UNCHANGED <<started, seen, kernel, found, artifacts, csv, outcome>>

(* Mutant: a CSV that is there already is kept.                            *)
OldCsvRow(t) == IF Intact(csv) THEN csv ELSE Evidence(t)
CsvRow(t) == Evidence(t)

WriteCsv(t) ==
  /\ rpc[t] = "csv"
  /\ csv' = CsvRow(t)
  /\ Ends(t, "ok")
  /\ UNCHANGED <<artifacts, json>>

(* An error, a failing tool or a kill.  A file that was being written may  *)
(* be left torn; everything else stays at the paths of the next run.       *)
MayTear(t, step, file) ==
  {file} \cup (IF rpc[t] = step THEN {[file EXCEPT ![kernel[t]] = Torn]} ELSE {})

Stop(t) ==
  /\ Active(t)
  /\ Ends(t, "failed")
  /\ object' \in MayTear(t, "build", object)
  /\ elf' \in MayTear(t, "startup", elf)
  /\ vxbin' \in MayTear(t, "package", vxbin)
  /\ json' \in {json} \cup (IF rpc[t] = "json" THEN {Torn} ELSE {})
  /\ csv' \in {csv} \cup (IF rpc[t] = "csv" THEN {Torn} ELSE {})

RunStep(t) ==
  \/ StartChecked(t) \/ StartDirect(t) \/ ReadPublished(t) \/ EnvCheckPasses(t)
  \/ AcceptIdentity(t) \/ CompileKernel(t) \/ LinkElf(t) \/ VerifyIsa(t)
  \/ PackageVxbin(t) \/ VerifyVxbin(t) \/ Associate(t) \/ OpenBackend(t)
  \/ ExecuteExact(t) \/ WriteJson(t) \/ WriteCsv(t) \/ Stop(t)

RunNext == \E t \in Terminal : RunStep(t)

-----------------------------------------------------------------------------
Report == [run : 1..MaxRuns, checked : Design \cup {Absent}, identity : Identity,
           observed : Identity, rtl : BuildId, image : Image]

Step == {"idle", "check", "identity", "build", "startup", "isa", "package",
         "verify", "associate", "open", "execute", "json", "csv"}

RunTypeOK ==
  /\ runs \in 0..MaxRuns /\ overlapped \subseteq 1..MaxRuns
  /\ object \in [Kernel -> 1..MaxRuns \cup {Absent, Torn}]
  /\ elf \in [Kernel -> Image \cup {Absent, Torn}]
  /\ vxbin \in [Kernel -> Image \cup {Absent, Torn}]
  /\ json \in Report \cup {Absent, Torn} /\ csv \in Report \cup {Absent, Torn}
  /\ number \in [Terminal -> 0..MaxRuns] /\ rpc \in [Terminal -> Step]
  /\ checked \in [Terminal -> Design \cup {Absent}]
  /\ seen \in [Terminal -> Seq(Design \cup Identity)]
  /\ \A t \in Terminal : Len(seen[t]) <= 5
  /\ identity \in [Terminal -> Identity \cup {Absent}]
  /\ kernel \in [Terminal -> Kernel]
  /\ observed \in [Terminal -> Identity \cup {Absent}]
  /\ loaded \in [Terminal -> BuildId \cup {Absent}]
  /\ executed \in [Terminal -> Image \cup {Absent}]
  /\ outcome \in [Terminal -> {"none", "ok", "failed"}]

Reported == {json, csv} \ {Absent, Torn}

(* The RTL that produced a reported result is the RTL of the configuration *)
(* the report names: its tag is the reported one and it was built with the *)
(* configuration that tag stands for.                                      *)
NamesExecutedRtl(r) == r.rtl.tag = r.identity /\ r.rtl.config = r.identity
                         /\ r.observed = r.identity

(* The startup code of the image was compiled for the RTL that ran it, and *)
(* that RTL implements every extension the ELF requires and is the target. *)
ImageFitsRtl(r) == r.image.config = r.rtl.config
                     /\ r.rtl.config \in ElfRunsOn \cap TargetMatches

(* Evidence of `make run` is about the design that is checked in.          *)
OfCheckedDesign(r) == r.checked # Absent => r.identity = Resolve[r.checked]

(* A run that no other run overlapped reports on the kernel image it has   *)
(* compiled itself: whatever earlier, interrupted or overlapping runs left *)
(* at the fixed paths is replaced before it is launched.                   *)
ReportFromOwnImage ==
  \A r \in Reported : r.run \notin overlapped => r.image.run = r.run

(* When the latest run has succeeded and no other run overlapped it, both  *)
(* reports are that run's, whatever was at their paths before.             *)
ReportsAgreeAfterSuccess ==
  \A t \in Terminal :
    outcome[t] = "ok" /\ number[t] = runs /\ runs \notin overlapped
      => json = csv /\ Intact(json) /\ json.run = runs
=============================================================================
