----------------------------- MODULE VortexSetup -----------------------------
(***************************************************************************)
(* `make setup-vortex`: scripts/env/setup-vortex.sh with the materializer  *)
(* scripts/env/materialize-vortex-config.py that it calls.                 *)
(*                                                                         *)
(* One run resolves the checked-in design, publishes its identity in five  *)
(* files, decides by a stamp whether the RTLSim objects of an earlier run  *)
(* may be kept, cleans them if not, and builds and links the simulator.    *)
(* A run may stop between any two steps (kill, power, or a failing command *)
(* under `set -e`), and the user may then edit the design or the tools and *)
(* run it again.  make itself is external: it may keep an object that is   *)
(* there or rebuild it, and must build one that is missing.                *)
(***************************************************************************)
EXTENDS VortexConfigFiles

CONSTANTS
  Unit,        \* the object files of the RTLSim build
  MaxStops,    \* bound: interrupted runs
  MaxEdits     \* bound: edits of the design or of the tools

StampId == [tag : Identity, tool : Tool]

ASSUME SetupAssumption ==
  /\ Unit # {}
  /\ Absent \notin BuildId \cup StampId
  /\ MaxStops \in Nat /\ MaxEdits \in Nat

VARIABLES
  design,      \* the checked-in input files
  tool,        \* the installed tools
  disk,        \* the five published files
  stamp,       \* mandrel-rtlsim-toolchain.stamp
  stampTmp,    \* mandrel-rtlsim-toolchain.stamp.tmp
  objects,     \* the RTLSim objects in the build directory
  lib,         \* the simulator library: the objects it was linked from
  pc,          \* what the setup run does next
  loaded,      \* the design this run has resolved
  published,   \* how many files this run has replaced
  visited,     \* the objects make has dealt with in this run
  stops, edits

files == <<disk, stamp, stampTmp>>
build == <<objects, lib>>
inputs == <<design, tool, edits>>
vars == <<design, tool, disk, stamp, stampTmp, objects, lib, pc, loaded,
          published, visited, stops, edits>>

Resting == pc \in {"idle", "done"}

(* validate_requested_values.  Mutant: the request is not validated.       *)
AnyRequest(d) == d \in Design
RequestHonoured(d) == Resolve[d] # Rejected

(* Mutant: the replace loop ends one file early.                           *)
AllButLastPublished(n) == n = Len(OutputOrder) - 1
AllPublished(n) == n = Len(OutputOrder)

(* cmp -s of the two stamps.  Mutant: only the tool lines are compared.    *)
SameToolStamp == stamp # Absent /\ stampTmp.tool = stamp.tool
SameStamp == stampTmp = stamp

-----------------------------------------------------------------------------
SetupInit ==
  /\ design \in Design /\ tool \in Tool
  /\ disk = [f \in OutputFile |-> Absent]
  /\ stamp = Absent /\ stampTmp = Absent
  /\ objects = [u \in Unit |-> Absent] /\ lib = Absent
  /\ pc = "idle" /\ loaded = Absent /\ published = 0 /\ visited = {}
  /\ stops = 0 /\ edits = 0

(* Required tools are there, the checkout is at its pin and configured.    *)
StartSetup ==
  /\ Resting
  /\ pc' = "resolve"
  /\ loaded' = Absent /\ published' = 0 /\ visited' = {}
  /\ UNCHANGED <<inputs, files, build, stops>>

(* load_design_config, run_generator and resolve_config; a design whose    *)
(* request is not what upstream resolves ends the run with nothing written.*)
ResolveDesign ==
  /\ pc = "resolve"
  /\ loaded' = design
  /\ pc' = IF RequestHonoured(design) THEN "publish" ELSE "idle"
  /\ UNCHANGED <<inputs, files, build, published, visited, stops>>

(* atomic_write_outputs, once all temporaries are staged and synced: one   *)
(* os.replace per file.  A file with the same content is left alone, which *)
(* is the same state here.                                                 *)
PublishOutput ==
  /\ pc = "publish"
  /\ LET file == OutputOrder[published + 1]
     IN disk' = [disk EXCEPT ![file] = Rendering(file, loaded)]
  /\ published' = published + 1
  /\ pc' = IF AllPublished(published + 1) THEN "stamp" ELSE "publish"
  /\ UNCHANGED <<inputs, stamp, stampTmp, build, loaded, visited, stops>>

(* config_tag=$(<tag file), then the identity lines written to stamp.tmp.  *)
WriteStampTmp ==
  /\ pc = "stamp"
  /\ stampTmp' = [tag |-> disk["tag"], tool |-> tool]
  /\ pc' = "compare"
  /\ UNCHANGED <<inputs, disk, stamp, build, loaded, published, visited, stops>>

(* Mutant: the new stamp is moved in place before make clean has run.      *)
CompareStampMovedFirst ==
  /\ pc = "compare"
  /\ pc' = (IF SameStamp THEN "make" ELSE "clean")
  /\ stamp' = stampTmp
  /\ UNCHANGED <<inputs, disk, stampTmp, build, loaded, published, visited, stops>>

(* An equal stamp keeps the objects, any other has them cleaned first.     *)
CompareStamp ==
  /\ pc = "compare"
  /\ IF SameStamp
     THEN pc' = "make" /\ stampTmp' = Absent
     ELSE pc' = "clean" /\ UNCHANGED stampTmp
  /\ UNCHANGED <<inputs, disk, stamp, build, loaded, published, visited, stops>>

(* make clean removes the objects and the library, one file at a time.     *)
CleanFile ==
  /\ pc = "clean"
  /\ \/ /\ lib # Absent /\ lib' = Absent
        /\ UNCHANGED objects
     \/ \E u \in Unit : /\ objects[u] # Absent
                        /\ objects' = [objects EXCEPT ![u] = Absent]
                        /\ UNCHANGED lib
  /\ UNCHANGED <<inputs, files, pc, loaded, published, visited, stops>>

CleanDone ==
  /\ pc = "clean"
  /\ lib = Absent /\ \A u \in Unit : objects[u] = Absent
  /\ pc' = "restamp"
  /\ UNCHANGED <<inputs, files, build, loaded, published, visited, stops>>

(* Mutant: the temporary is dropped and the old stamp stays.               *)
ReplaceStampDropped ==
  /\ pc = "restamp"
  /\ stampTmp' = Absent
  /\ pc' = "make"
  /\ UNCHANGED <<inputs, disk, stamp, build, loaded, published, visited, stops>>

(* mv stamp.tmp stamp: only now does the stamp vouch for the new identity. *)
ReplaceStamp ==
  /\ pc = "restamp"
  /\ stamp' = stampTmp /\ stampTmp' = Absent
  /\ pc' = "make"
  /\ UNCHANGED <<inputs, disk, build, loaded, published, visited, stops>>

(* What compiling an object now would embed and be configured by.          *)
CurrentBuild == [tag |-> disk["vh"], config |-> Resolve[design], tool |-> tool]

MakeObject(u) ==
  /\ pc = "make" /\ u \notin visited
  /\ \/ objects' = [objects EXCEPT ![u] = CurrentBuild]
     \/ objects[u] # Absent /\ UNCHANGED objects
  /\ visited' = visited \cup {u}
  /\ UNCHANGED <<inputs, files, lib, pc, loaded, published, stops>>

LinkLibrary ==
  /\ pc = "make" /\ visited = Unit
  /\ lib' = objects
  /\ pc' = "require"
  /\ UNCHANGED <<inputs, files, objects, loaded, published, visited, stops>>

(* mandrel_require_file for the three libraries, then "runtime ready".     *)
RequireLibraries ==
  /\ pc = "require" /\ lib # Absent
  /\ pc' = "done"
  /\ UNCHANGED <<inputs, files, build, loaded, published, visited, stops>>

SetupStep ==
  \/ ResolveDesign \/ PublishOutput \/ WriteStampTmp \/ CompareStamp
  \/ CleanFile \/ CleanDone \/ ReplaceStamp
  \/ \E u \in Unit : MakeObject(u)
  \/ LinkLibrary \/ RequireLibraries

(* The run dies between two steps; the files stay as they are.             *)
Interrupt ==
  /\ ~Resting /\ stops < MaxStops
  /\ pc' = "idle" /\ stops' = stops + 1
  /\ UNCHANGED <<inputs, files, build, loaded, published, visited>>

(* Between runs the user checks out or edits another design, or changes    *)
(* Verilator, Python or g++.                                               *)
EditInputs ==
  /\ Resting /\ edits < MaxEdits
  /\ design' \in Design /\ tool' \in Tool
  /\ <<design', tool'>> # <<design, tool>>
  /\ pc' = "idle" /\ edits' = edits + 1
  /\ UNCHANGED <<files, build, loaded, published, visited, stops>>

SetupNext == StartSetup \/ SetupStep \/ Interrupt \/ EditInputs

SetupSpec == SetupInit /\ [][SetupNext]_vars

(* Commands of a running script finish, and the user who sees a setup that *)
(* did not complete runs it again.                                         *)
Rerun == pc # "done" /\ StartSetup
FairSetup == SetupSpec /\ WF_vars(SetupStep) /\ WF_vars(Rerun)

-----------------------------------------------------------------------------
(* Properties.                                                             *)

Vouched(s) == [tag |-> s.tag, config |-> s.tag, tool |-> s.tool]

SetupTypeOK ==
  /\ design \in Design /\ tool \in Tool
  /\ disk \in [OutputFile -> Design \cup Identity \cup {Absent}]
  /\ stamp \in StampId \cup {Absent} /\ stampTmp \in StampId \cup {Absent}
  /\ objects \in [Unit -> BuildId \cup {Absent}]
  /\ lib \in [Unit -> BuildId] \cup {Absent}
  /\ pc \in {"idle", "resolve", "publish", "stamp", "compare", "clean",
             "restamp", "make", "require", "done"}
  /\ loaded \in Design \cup {Absent}
  /\ published \in 0..5 /\ visited \subseteq Unit
  /\ stops \in 0..MaxStops /\ edits \in 0..MaxEdits

(* Whatever was interrupted and however the inputs changed since, an       *)
(* object that is still in the build directory was compiled with exactly   *)
(* the tag, configuration and tools the stamp names: the next run that     *)
(* finds an equal stamp keeps no stale object.                             *)
StampVouchesForObjects ==
  \A u \in Unit :
    objects[u] # Absent => stamp # Absent /\ objects[u] = Vouched(stamp)

(* A library on disk is never a mix of two builds, and the tag its RTL     *)
(* reports through CSR 0xFC5 names the configuration it was built with.    *)
LibraryIsOneBuild ==
  lib # Absent =>
    /\ stamp # Absent
    /\ \A u \in Unit : lib[u] = Vouched(stamp)

(* "Vortex RTLSim runtime ready": the five files are those of the design   *)
(* checked in, and the library was built from it by the installed tools.   *)
ReadyMeansCurrent ==
  pc = "done" =>
    /\ \A f \in OutputFile : disk[f] = Rendering(f, design)
    /\ lib = [u \in Unit |-> CurrentBuild]

(* What makes the three above hold in every state: once a run has resolved *)
(* the design, what it has written so far is of that design and of the     *)
(* installed tools, and the stamp is only replaced over an empty build     *)
(* directory.                                                              *)
PublishedIsOfDesign ==
  /\ pc = "resolve" => published = 0
  /\ pc \notin {"idle", "resolve"} => loaded = design /\ RequestHonoured(design)
  /\ pc = "publish" =>
       /\ published < 5
       /\ \A i \in 1..published :
            disk[OutputOrder[i]] = Rendering(OutputOrder[i], design)
  /\ pc \notin {"idle", "resolve", "publish"} =>
       \A f \in OutputFile : disk[f] = Rendering(f, design)

CurrentStamp == [tag |-> Resolve[design], tool |-> tool]

StampIsOfDesign ==
  /\ pc \in {"compare", "clean", "restamp"} => stampTmp = CurrentStamp
  /\ pc \in {"make", "require", "done"} => stamp = CurrentStamp

BuildFollowsRun ==
  /\ pc \notin {"idle", "make", "require", "done"} => visited = {}
  /\ pc = "restamp" => lib = Absent /\ \A u \in Unit : objects[u] = Absent
  /\ pc = "make" => \A u \in visited : objects[u] # Absent
  /\ pc = "done" => lib # Absent

SetupIInv ==
  /\ SetupTypeOK
  /\ StampVouchesForObjects
  /\ LibraryIsOneBuild
  /\ PublishedIsOfDesign
  /\ StampIsOfDesign
  /\ BuildFollowsRun

(* The set of the five files is replaced as one: hardware/vortex/README.md *)
(* says the materializer "atomically writes" them.  The code replaces each *)
(* file atomically and the set in five steps, so a run that stops between  *)
(* two of them leaves the files of two designs side by side.               *)
OutputsReplacedAtomically ==
  Resting =>
    \/ \A f \in OutputFile : disk[f] = Absent
    \/ \E d \in Design : \A f \in OutputFile : disk[f] = Rendering(f, d)

(* However many runs were interrupted, a user who goes on running setup    *)
(* ends with the library of the current design, and no later run of setup  *)
(* takes it away again.                                                    *)
SetupConverges ==
  <>[](Resolve[design] # Rejected => lib = [u \in Unit |-> CurrentBuild])

(* The library as a whole: none, one coherent build, or a mix.             *)
LibraryBuild ==
  IF lib = Absent THEN Absent
  ELSE IF \E b \in BuildId : lib = [u \in Unit |-> b]
       THEN lib[CHOOSE u \in Unit : TRUE]
       ELSE [tag |-> Absent, config |-> Absent, tool |-> Absent]

Library == INSTANCE RtlLibrary WITH
             Identity <- {b \in BuildId : b.tag = b.config},
             library <- LibraryBuild

(* Setup keeps the library's promise: only whole libraries, and never one  *)
(* linked over another build's.                                            *)
ImplementsLibrary == Library!LibrarySpec
=============================================================================
