----------------------- MODULE EvidenceWorkflowProofs -----------------------
(***************************************************************************)
(* Setup by itself, for any designs, tools, object files and number of     *)
(* interrupted runs: the stamp vouches for every object, the library is    *)
(* one build, "runtime ready" means current, and setup implements          *)
(* RtlLibrary.  Then the workflow, for any identities and any number of    *)
(* terminals, runs, edits and interruptions: what a run keeps whatever     *)
(* setup does, what it keeps when no other run overlaps it, and what it    *)
(* keeps when setup takes no step meanwhile.                               *)
(***************************************************************************)
EXTENDS EvidenceWorkflow, TLAPS

-----------------------------------------------------------------------------
(* Setup.                                                                  *)
(* The five outputs, as facts the provers can use.                         *)
LEMMA OutputFacts ==
  /\ Len(OutputOrder) = 5
  /\ OutputFile = {"manifest", "sha256", "tag", "vh", "h"}
  /\ \A i \in 1..5 : OutputOrder[i] \in OutputFile
  /\ \A f \in OutputFile : \E i \in 1..5 : f = OutputOrder[i]
  /\ \A i, j \in 1..5 : OutputOrder[i] = OutputOrder[j] => i = j
<1>1. /\ OutputOrder[1] = "manifest" /\ OutputOrder[2] = "sha256"
      /\ OutputOrder[3] = "tag" /\ OutputOrder[4] = "vh" /\ OutputOrder[5] = "h"
      /\ Len(OutputOrder) = 5
  BY DEF OutputOrder
<1>2. 1..5 = {1, 2, 3, 4, 5}
  OBVIOUS
<1>3. OutputFile = {"manifest", "sha256", "tag", "vh", "h"}
  BY <1>1, <1>2 DEF OutputFile
<1>. QED BY <1>1, <1>2, <1>3

(* What is published of a design whose request upstream honours.           *)
LEMMA RenderingFacts ==
  ASSUME NEW d \in Design, RequestHonoured(d)
  PROVE  /\ Resolve[d] \in Identity
         /\ \A f \in OutputFile : Rendering(f, d) \in Design \cup Identity
         /\ Rendering("tag", d) = Resolve[d]
         /\ Rendering("vh", d) = Resolve[d]
BY ConfigAssumption, OutputFacts DEF RequestHonoured, Rendering

LEMMA InitEstablishes == SetupInit => SetupIInv
BY SetupAssumption DEF SetupInit, SetupIInv, SetupTypeOK, StampVouchesForObjects,
   LibraryIsOneBuild, PublishedIsOfDesign, StampIsOfDesign, BuildFollowsRun

-----------------------------------------------------------------------------
(* One lemma per action that writes a file; the others share one.          *)

LEMMA QuietSteps ==
  ASSUME SetupIInv,
         \/ StartSetup \/ ResolveDesign \/ RequireLibraries \/ Interrupt
         \/ EditInputs \/ CompareStamp \/ CleanDone \/ UNCHANGED vars
  PROVE  SetupIInv'
<1>. USE DEF SetupIInv, StampVouchesForObjects, LibraryIsOneBuild,
         PublishedIsOfDesign, StampIsOfDesign, BuildFollowsRun, Resting,
         inputs, files, build, CurrentStamp, Vouched
<1>1. CASE StartSetup
  BY <1>1 DEF StartSetup, SetupTypeOK
<1>2. CASE ResolveDesign
  BY <1>2 DEF ResolveDesign, SetupTypeOK, RequestHonoured
<1>3. CASE RequireLibraries
  BY <1>3 DEF RequireLibraries, SetupTypeOK
<1>4. CASE Interrupt
  BY <1>4, SetupAssumption DEF Interrupt, SetupTypeOK
<1>5. CASE EditInputs
  BY <1>5, SetupAssumption DEF EditInputs, SetupTypeOK
<1>6. CASE CompareStamp
  <2>. USE <1>6 DEF CompareStamp, SameStamp
  <2>1. SetupTypeOK'
    BY DEF SetupTypeOK
  <2>2. (StampVouchesForObjects /\ LibraryIsOneBuild /\ StampIsOfDesign)'
    OBVIOUS
  <2>3. (PublishedIsOfDesign /\ BuildFollowsRun)'
    BY DEF RequestHonoured
  <2>. QED BY <2>1, <2>2, <2>3
<1>7. CASE CleanDone
  BY <1>7 DEF CleanDone, SetupTypeOK
<1>8. CASE UNCHANGED vars
  BY <1>8 DEF vars, SetupTypeOK
<1>. QED BY <1>1, <1>2, <1>3, <1>4, <1>5, <1>6, <1>7, <1>8

LEMMA PublishStep == SetupIInv /\ PublishOutput => SetupIInv'
<1>. SUFFICES ASSUME SetupIInv, PublishOutput PROVE SetupIInv'
  OBVIOUS
<1>. USE DEF SetupIInv
<1>1. /\ pc = "publish" /\ loaded = design /\ RequestHonoured(design)
      /\ design \in Design /\ published \in 0..4
      /\ \A i \in 1..published :
           disk[OutputOrder[i]] = Rendering(OutputOrder[i], design)
  BY DEF PublishOutput, PublishedIsOfDesign, SetupTypeOK
<1>. DEFINE file == OutputOrder[published + 1]
<1>2. /\ file \in OutputFile
      /\ disk' = [disk EXCEPT ![file] = Rendering(file, design)]
      /\ disk' \in [OutputFile -> Design \cup Identity \cup {Absent}]
  BY <1>1, OutputFacts, RenderingFacts DEF PublishOutput, SetupTypeOK
<1>3. \A i \in 1..(published + 1) :
        disk'[OutputOrder[i]] = Rendering(OutputOrder[i], design)
  BY <1>1, <1>2, OutputFacts DEF SetupTypeOK
<1>4. SetupTypeOK'
  BY <1>1, <1>2, OutputFacts DEF PublishOutput, SetupTypeOK, inputs, build
<1>5. PublishedIsOfDesign'
  <2>1. CASE published + 1 = 5
    <3>1. \A f \in OutputFile : disk'[f] = Rendering(f, design)
      BY <1>3, <2>1, OutputFacts
    <3>. QED BY <1>1, <2>1, <3>1, OutputFacts
             DEF PublishOutput, AllPublished, PublishedIsOfDesign, RequestHonoured, inputs
  <2>2. CASE published + 1 # 5
    BY <1>1, <1>3, <2>2, OutputFacts
       DEF PublishOutput, AllPublished, PublishedIsOfDesign, RequestHonoured, inputs
  <2>. QED BY <2>1, <2>2
<1>6. (StampVouchesForObjects /\ LibraryIsOneBuild)'
  BY DEF PublishOutput, StampVouchesForObjects, LibraryIsOneBuild, Vouched, build
<1>7. (StampIsOfDesign /\ BuildFollowsRun)'
  BY DEF PublishOutput, StampIsOfDesign, BuildFollowsRun
<1>. QED BY <1>4, <1>5, <1>6, <1>7

LEMMA WriteStampStep == SetupIInv /\ WriteStampTmp => SetupIInv'
<1>. SUFFICES ASSUME SetupIInv, WriteStampTmp PROVE SetupIInv'
  OBVIOUS
<1>. USE DEF SetupIInv, WriteStampTmp, inputs, build
<1>1. disk["tag"] = Resolve[design] /\ Resolve[design] \in Identity
  BY OutputFacts, RenderingFacts DEF PublishedIsOfDesign, SetupTypeOK
<1>2. stampTmp' = CurrentStamp' /\ stampTmp' \in StampId
  BY <1>1 DEF CurrentStamp, StampId, SetupTypeOK
<1>3. SetupTypeOK'
  BY <1>2 DEF SetupTypeOK
<1>4. (StampVouchesForObjects /\ LibraryIsOneBuild)'
  BY DEF StampVouchesForObjects, LibraryIsOneBuild, Vouched
<1>5. (PublishedIsOfDesign /\ BuildFollowsRun)'
  BY DEF PublishedIsOfDesign, BuildFollowsRun, RequestHonoured
<1>6. StampIsOfDesign'
  BY <1>2 DEF StampIsOfDesign
<1>. QED BY <1>3, <1>4, <1>5, <1>6

LEMMA CleanFileStep == SetupIInv /\ CleanFile => SetupIInv'
<1>. SUFFICES ASSUME SetupIInv, CleanFile PROVE SetupIInv'
  OBVIOUS
<1>. USE DEF SetupIInv, CleanFile, inputs, files
<1>1. SetupTypeOK'
  BY DEF SetupTypeOK
<1>2. StampVouchesForObjects'
  BY DEF StampVouchesForObjects, SetupTypeOK, Vouched
<1>3. LibraryIsOneBuild'
  BY DEF LibraryIsOneBuild, Vouched
<1>4. (PublishedIsOfDesign /\ StampIsOfDesign /\ BuildFollowsRun)'
  BY DEF PublishedIsOfDesign, StampIsOfDesign, BuildFollowsRun, RequestHonoured, CurrentStamp
<1>. QED BY <1>1, <1>2, <1>3, <1>4

(* The stamp changes only over an empty build directory.                   *)
LEMMA ReplaceStampStep == SetupIInv /\ ReplaceStamp => SetupIInv'
<1>. SUFFICES ASSUME SetupIInv, ReplaceStamp PROVE SetupIInv'
  OBVIOUS
<1>. USE DEF SetupIInv, ReplaceStamp, inputs, build
<1>1. /\ lib = Absent /\ \A u \in Unit : objects[u] = Absent
      /\ stamp' = CurrentStamp
  BY DEF BuildFollowsRun, StampIsOfDesign
<1>2. SetupTypeOK'
  BY DEF SetupTypeOK
<1>3. (StampVouchesForObjects /\ LibraryIsOneBuild)'
  BY <1>1 DEF StampVouchesForObjects, LibraryIsOneBuild
<1>4. (PublishedIsOfDesign /\ BuildFollowsRun)'
  BY <1>1 DEF PublishedIsOfDesign, BuildFollowsRun, RequestHonoured, SetupTypeOK
<1>5. StampIsOfDesign'
  BY <1>1 DEF StampIsOfDesign, CurrentStamp
<1>. QED BY <1>2, <1>3, <1>4, <1>5

(* In make, the build that is current is the one the stamp vouches for.    *)
LEMMA CurrentIsVouched ==
  ASSUME SetupIInv, pc \in {"make", "require", "done"}
  PROVE  /\ stamp = CurrentStamp /\ stamp # Absent
         /\ CurrentBuild = Vouched(stamp) /\ CurrentBuild \in BuildId
         /\ CurrentBuild # Absent
<1>1. design \in Design /\ tool \in Tool /\ RequestHonoured(design)
  BY DEF SetupIInv, SetupTypeOK, PublishedIsOfDesign
<1>2. disk["vh"] = Resolve[design] /\ Resolve[design] \in Identity
  BY <1>1, OutputFacts, RenderingFacts DEF SetupIInv, PublishedIsOfDesign
<1>3. stamp = CurrentStamp
  BY DEF SetupIInv, StampIsOfDesign
<1>4. CurrentStamp \in StampId /\ CurrentBuild \in BuildId
  BY <1>1, <1>2 DEF CurrentStamp, StampId, CurrentBuild, BuildId
<1>. QED BY <1>2, <1>3, <1>4, SetupAssumption DEF CurrentStamp, CurrentBuild, Vouched

LEMMA MakeStep ==
  ASSUME NEW u \in Unit, SetupIInv, MakeObject(u)
  PROVE  SetupIInv'
<1>. USE DEF MakeObject, inputs, files
<1>1. pc = "make"
  OBVIOUS
<1>2. /\ objects' \in [Unit -> BuildId \cup {Absent}]
      /\ objects'[u] # Absent
      /\ \A w \in Unit : objects'[w] \in {objects[w], CurrentBuild}
  BY <1>1, CurrentIsVouched DEF SetupIInv, SetupTypeOK
<1>3. SetupTypeOK'
  BY <1>2 DEF SetupIInv, SetupTypeOK
<1>4. StampVouchesForObjects'
  BY <1>1, <1>2, CurrentIsVouched DEF SetupIInv, StampVouchesForObjects, Vouched
<1>5. LibraryIsOneBuild'
  BY DEF SetupIInv, LibraryIsOneBuild, Vouched
<1>6. (PublishedIsOfDesign /\ StampIsOfDesign)'
  BY DEF SetupIInv, PublishedIsOfDesign, StampIsOfDesign, RequestHonoured, CurrentStamp
<1>7. BuildFollowsRun'
  <2>1. \A w \in visited' : objects'[w] # Absent
    BY <1>1, <1>2, CurrentIsVouched DEF SetupIInv, BuildFollowsRun, SetupTypeOK
  <2>. QED BY <1>1, <2>1 DEF BuildFollowsRun
<1>. QED BY <1>3, <1>4, <1>5, <1>6, <1>7 DEF SetupIInv

LEMMA LinkStep == SetupIInv /\ LinkLibrary => SetupIInv'
<1>. SUFFICES ASSUME SetupIInv, LinkLibrary PROVE SetupIInv'
  OBVIOUS
<1>. USE DEF LinkLibrary, inputs, files
<1>1. \A u \in Unit : objects[u] # Absent
  BY DEF SetupIInv, BuildFollowsRun
<1>2. objects \in [Unit -> BuildId]
  BY <1>1 DEF SetupIInv, SetupTypeOK
<1>3. SetupTypeOK'
  BY <1>2 DEF SetupIInv, SetupTypeOK
<1>4. (StampVouchesForObjects /\ LibraryIsOneBuild)'
  BY <1>1, CurrentIsVouched
     DEF SetupIInv, StampVouchesForObjects, LibraryIsOneBuild, Vouched
<1>5. (PublishedIsOfDesign /\ StampIsOfDesign /\ BuildFollowsRun)'
  BY DEF SetupIInv, PublishedIsOfDesign, StampIsOfDesign, BuildFollowsRun,
         RequestHonoured, CurrentStamp
<1>. QED BY <1>3, <1>4, <1>5 DEF SetupIInv

LEMMA StepPreserves == SetupIInv /\ [SetupNext]_vars => SetupIInv'
BY QuietSteps, PublishStep, WriteStampStep, CleanFileStep, ReplaceStampStep,
   MakeStep, LinkStep
   DEF SetupNext, SetupStep

(* The invariant holds in every state of every sequence of runs.           *)
THEOREM SetupInvariant == SetupSpec => []SetupIInv
BY InitEstablishes, StepPreserves, PTL DEF SetupSpec

-----------------------------------------------------------------------------
(* Every variable stays in its set.                                        *)
THEOREM SetupTypeCorrect == SetupSpec => []SetupTypeOK
<1>1. SetupIInv => SetupTypeOK
  BY DEF SetupIInv
<1>. QED BY <1>1, SetupInvariant, PTL

(* The equal stamp that lets a run keep the objects of an earlier one      *)
(* vouches for every object that is there.                                 *)
THEOREM StampVouches == SetupSpec => []StampVouchesForObjects
<1>1. SetupIInv => StampVouchesForObjects
  BY DEF SetupIInv
<1>. QED BY <1>1, SetupInvariant, PTL

(* A library is never a mix, and its tag names its configuration.          *)
THEOREM LibraryCoherent == SetupSpec => []LibraryIsOneBuild
<1>1. SetupIInv => LibraryIsOneBuild
  BY DEF SetupIInv
<1>. QED BY <1>1, SetupInvariant, PTL

(* "Runtime ready" is only said of the design that is checked in.          *)
THEOREM ReadyIsCurrent == SetupSpec => []ReadyMeansCurrent
<1>1. SetupIInv => ReadyMeansCurrent
  <2>. SUFFICES ASSUME SetupIInv, pc = "done" PROVE ReadyMeansCurrent
    BY DEF ReadyMeansCurrent
  <2>1. lib # Absent /\ lib \in [Unit -> BuildId]
    BY DEF SetupIInv, SetupTypeOK, BuildFollowsRun
  <2>2. \A u \in Unit : lib[u] = CurrentBuild
    BY <2>1, CurrentIsVouched DEF SetupIInv, LibraryIsOneBuild
  <2>3. lib = [u \in Unit |-> CurrentBuild]
    BY <2>1, <2>2
  <2>. QED BY <2>3 DEF SetupIInv, ReadyMeansCurrent, PublishedIsOfDesign
<1>. QED BY <1>1, SetupInvariant, PTL

-----------------------------------------------------------------------------
(* Under the invariant the library is seen as the build its stamp names.   *)
LEMMA LibrarySeen ==
  ASSUME SetupIInv
  PROVE  /\ lib = Absent => LibraryBuild = Absent
         /\ lib # Absent => /\ LibraryBuild = Vouched(stamp)
                            /\ LibraryBuild \in {b \in BuildId : b.tag = b.config}
<1>1. CASE lib = Absent
  BY <1>1 DEF LibraryBuild
<1>2. CASE lib # Absent
  <2>. DEFINE b == Vouched(stamp)
  <2>1. stamp \in StampId /\ b \in BuildId /\ b.tag = b.config
    BY <1>2 DEF SetupIInv, SetupTypeOK, LibraryIsOneBuild, StampId, BuildId, Vouched
  <2>2. lib \in [Unit -> BuildId] /\ \A u \in Unit : lib[u] = b
    BY <1>2 DEF SetupIInv, SetupTypeOK, LibraryIsOneBuild
  <2>3. lib = [u \in Unit |-> b]
    BY <2>2
  <2>4. (CHOOSE u \in Unit : TRUE) \in Unit
    BY SetupAssumption
  <2>5. LibraryBuild = b
    BY <1>2, <2>1, <2>2, <2>3, <2>4 DEF LibraryBuild
  <2>. QED BY <1>2, <2>1, <2>5
<1>. QED BY <1>1, <1>2

LEMMA LibraryStep ==
  ASSUME SetupIInv, SetupIInv', [SetupNext]_vars
  PROVE  [Library!Clean \/ Library!Link]_LibraryBuild
<1>1. CASE UNCHANGED lib
  BY <1>1 DEF LibraryBuild
<1>2. CASE CleanFile
  <2>1. UNCHANGED lib \/ lib' = Absent
    BY <1>2 DEF CleanFile
  <2>2. CASE lib' = Absent
    BY <2>2 DEF LibraryBuild, Library!Clean
  <2>. QED BY <1>1, <2>1, <2>2
<1>3. CASE LinkLibrary
  <2>1. UNCHANGED stamp
    BY <1>3 DEF LinkLibrary, files
  <2>2. LibraryBuild' = Absent \/
          /\ LibraryBuild' = Vouched(stamp)
          /\ LibraryBuild' \in {b \in BuildId : b.tag = b.config}
    <3>1. CASE lib' = Absent
      BY <3>1 DEF LibraryBuild
    <3>2. CASE lib' # Absent
      <4>. HIDE DEF SetupIInv
      <4>1. (lib # Absent => /\ LibraryBuild = Vouched(stamp)
                             /\ LibraryBuild \in {b \in BuildId : b.tag = b.config})'
        BY LibrarySeen, PTL
      <4>. QED BY <2>1, <3>2, <4>1 DEF Vouched
    <3>. QED BY <3>1, <3>2
  <2>3. LibraryBuild = Absent \/ LibraryBuild = Vouched(stamp)
    BY LibrarySeen
  <2>. QED BY <2>2, <2>3 DEF Library!Clean, Library!Link
<1>4. UNCHANGED lib \/ CleanFile \/ LinkLibrary
  BY DEF SetupNext, SetupStep, vars, build, StartSetup, ResolveDesign, PublishOutput,
         WriteStampTmp, CompareStamp, CleanDone, ReplaceStamp, MakeObject,
         RequireLibraries, Interrupt, EditInputs
<1>. QED BY <1>1, <1>2, <1>3, <1>4

(* Setup refines RtlLibrary: only whole libraries, and a new one only      *)
(* where the one of another build has been cleaned away.                   *)
THEOREM SetupImplementsLibrary == SetupSpec => ImplementsLibrary
<1>1. SetupInit => Library!LibraryInit
  BY DEF SetupInit, LibraryBuild, Library!LibraryInit
<1>2. SetupIInv /\ SetupIInv' /\ [SetupNext]_vars
        => [Library!Clean \/ Library!Link]_LibraryBuild
  BY LibraryStep
<1>. QED BY <1>1, <1>2, SetupInvariant, PTL
         DEF SetupSpec, ImplementsLibrary, Library!LibrarySpec

-----------------------------------------------------------------------------
(* The workflow.                                                           *)

(* Files: the manifest is of a design, the other four of an identity; so is*)
(* what has been read of them.                                             *)
Sort(i) == IF i = 1 THEN Design ELSE Identity

FilesSorted ==
  /\ \A i \in 1..5 : disk[OutputOrder[i]] \in Sort(i) \cup {Absent}
  /\ \A t \in Terminal : \A i \in 1..Len(seen[t]) : seen[t][i] \in Sort(i)

(* What a run has established when it gets to a step.                      *)
Linked == {b \in BuildId : b.tag = b.config /\ b.config \in TargetMatches}

Knows(t) ==
  /\ rpc[t] \notin {"check", "identity", "startup", "isa"} => seen[t] = <<>>
  /\ rpc[t] \notin {"idle", "check", "identity"} => identity[t] \in Identity
  /\ rpc[t] \in {"open", "execute", "json", "csv"} => observed[t] = identity[t]
  /\ rpc[t] \in {"execute", "json", "csv"} => loadedRtl[t] \in Linked
  /\ rpc[t] \in {"json", "csv"} => executed[t] \in Run!Image
  /\ outcome[t] = "ok" => ~Run!Active(t)
RunsKnow == \A t \in Terminal : Knows(t)

(* Numbers: a run is in the history as soon as another is active with it.  *)
Numbered(t) == number[t] <= runs /\ (Run!Active(t) => number[t] >= 1)
Ordered(t, u) ==
  t # u => /\ number[t] = number[u] => number[t] = 0
           /\ Run!Active(u) /\ number[u] < number[t]
                => number[t] \in overlapped /\ number[u] \in overlapped
OverlapKnown ==
  /\ \A t \in Terminal : Numbered(t)
  /\ \A t, u \in Terminal : Ordered(t, u)

(* Artifacts: from the compilation to the launch, what is at the fixed path*)
(* is of the run that is alone.                                            *)
Of(image, t) == image \in Run!Image /\ image.run = number[t]

Mine(t) ==
  number[t] \notin overlapped =>
    /\ rpc[t] = "startup" => object[kernel[t]] = number[t]
    /\ rpc[t] \in {"isa", "package"} => Of(elf[kernel[t]], t)
    /\ rpc[t] = "verify" => Of(vxbin[kernel[t]], t)
    /\ rpc[t] \in {"associate", "open", "execute"} => Of(vxbin["attention"], t)
    /\ rpc[t] \in {"json", "csv"} => Of(executed[t], t)
    /\ rpc[t] = "csv" => json = Run!Evidence(t)
ArtifactsOwn == \A t \in Terminal : Mine(t)

(* Reports.                                                                *)
SoundReport(r) ==
  /\ r.observed = r.identity /\ r.rtl \in Linked
  /\ r.run \notin overlapped => r.image.run = r.run
BothReported(t) ==
  outcome[t] = "ok" /\ number[t] = runs /\ runs \notin overlapped
    => json = csv /\ json \in Run!Report /\ json.run = runs
ReportsSound ==
  /\ \A r \in Run!Reported : SoundReport(r)
  /\ \A t \in Terminal : BothReported(t)

RunIInv ==
  /\ RunTypeOK /\ FilesSorted /\ RunsKnow /\ OverlapKnown /\ ArtifactsOwn
  /\ ReportsSound

(* Without a step of setup or an edit the files, the design and the library*)
(* stand still, so what a run read once is what it would read now.         *)
Now == Resolve[disk["manifest"]]

StandsStill(t) ==
  Run!Active(t) /\ number[t] \notin disturbed =>
    /\ \A i \in 1..Len(seen[t]) : seen[t][i] = disk[OutputOrder[i]]
    /\ rpc[t] \notin {"check", "identity"} => identity[t] = Now
    /\ checked[t] # Absent /\ rpc[t] # "check" => disk["manifest"] = checked[t]
    /\ rpc[t] = "open" => LibraryBuild.tag = identity[t]
    /\ rpc[t] \in {"execute", "json", "csv"} => loadedRtl[t].tag = identity[t]

(* ... and without another run the image fits what was read.               *)
Fits(image, t) == image.config = identity[t] /\ identity[t] \in ElfRunsOn
ImageFits(t) ==
  number[t] \notin disturbed \cup overlapped =>
    /\ rpc[t] \in {"isa", "package"} => elf[kernel[t]].config = identity[t]
    /\ rpc[t] = "package" => identity[t] \in ElfRunsOn
    /\ rpc[t] = "verify" => Fits(vxbin[kernel[t]], t)
    /\ rpc[t] \in {"associate", "open", "execute"} => Fits(vxbin["attention"], t)
    /\ rpc[t] \in {"json", "csv"} => Fits(executed[t], t)

FaithfulReport(r) ==
  /\ r.run \notin disturbed => r.rtl.tag = r.identity /\ Run!OfCheckedDesign(r)
  /\ r.run \notin disturbed \cup overlapped =>
       r.image.config = r.identity /\ r.identity \in ElfRunsOn

QuietIInv ==
  /\ \A t \in Terminal : StandsStill(t) /\ ImageFits(t)
  /\ \A r \in Run!Reported : FaithfulReport(r)

WorkflowIInv == SetupIInv /\ RunIInv /\ QuietIInv

-----------------------------------------------------------------------------
(* A step is setup's or one run's, and leaves everything else alone.       *)
LEMMA TurnTaken ==
  ASSUME [WorkflowNext]_workflowVars
  PROVE  \/ UNCHANGED workflowVars
         \/ SetupTurn
         \/ \E v \in Terminal : Run!RunStep(v) /\ UNCHANGED <<vars, disturbed>>
BY DEF WorkflowNext, RunTurn, Run!RunNext

LEMMA SetupInvariantStep ==
  ASSUME SetupIInv, [WorkflowNext]_workflowVars
  PROVE  SetupIInv'
<1>1. [SetupNext]_vars
  BY DEF WorkflowNext, workflowVars, SetupTurn, RunTurn
<1>. QED BY <1>1, StepPreserves

LEMMA Vocabulary ==
  /\ Run!OutputOrder = OutputOrder /\ Run!BuildId = BuildId
  /\ \A f, d : Run!Rendering(f, d) = Rendering(f, d)
  /\ "probe" \in Run!Kernel /\ "attention" \in Run!Kernel
BY DEF Run!OutputOrder, OutputOrder, Run!BuildId, BuildId, Run!Rendering, Rendering,
       Run!Kernel

(* A configuration a run accepts is one that was resolved.                 *)
LEMMA AcceptedResolved ==
  ASSUME FilesSorted, NEW t \in Terminal, Run!AllRead(t)
  PROVE  /\ Run!ConfigRead(seen[t]) \in Identity
         /\ Run!ConfigRead(seen[t]) = Resolve[seen[t][1]]
<1>1. Len(seen[t]) = 3 /\ Run!Accepts(seen[t])
  BY DEF Run!AllRead
<1>2. 2 \in 1..Len(seen[t])
  BY <1>1
<1>3. seen[t][2] \in Identity
  BY <1>2 DEF FilesSorted, Sort
<1>4. Run!ConfigRead(seen[t]) = Resolve[seen[t][1]] /\ Resolve[seen[t][1]] = seen[t][2]
  BY <1>1 DEF Run!ConfigRead, Run!Accepts
<1>. QED BY <1>3, <1>4

(* The library a run finds is one build, and its tag names its config.     *)
LEMMA LibraryFound ==
  ASSUME SetupIInv, LibraryBuild # Absent
  PROVE  LibraryBuild \in BuildId /\ LibraryBuild.tag = LibraryBuild.config
         /\ LibraryBuild.tag \in Identity
<1>1. LibraryBuild \in BuildId /\ LibraryBuild.tag = LibraryBuild.config
  BY LibrarySeen
<1>. QED BY <1>1 DEF BuildId

LEMMA WorkflowInitially ==
  ASSUME WorkflowInit
  PROVE  WorkflowIInv
<1>. USE DEF WorkflowInit, Run!RunInit, Run!Active
<1>1. SetupIInv
  BY InitEstablishes
<1>2. FilesSorted
  BY OutputFacts DEF SetupInit, FilesSorted
<1>3. RunTypeOK
  BY WorkflowAssumption, Vocabulary DEF RunTypeOK, Run!RunTypeOK, Run!Step
<1>4. RunsKnow
  BY DEF RunsKnow, Knows
<1>5. OverlapKnown
  BY DEF OverlapKnown, Ordered, Numbered
<1>6. ArtifactsOwn
  BY DEF ArtifactsOwn, Mine
<1>7. ReportsSound
  BY DEF ReportsSound, Run!Reported, BothReported
<1>8. QuietIInv
  BY DEF QuietIInv, StandsStill, ImageFits, Run!Reported
<1>. QED BY <1>1, <1>2, <1>3, <1>4, <1>5, <1>6, <1>7, <1>8 DEF WorkflowIInv, RunIInv

(* What a step of one run leaves to the others.                            *)
LEMMA OthersKept ==
  ASSUME RunTypeOK, NEW v \in Terminal, Run!RunStep(v), NEW t \in Terminal, t # v
  PROVE  /\ number'[t] = number[t] /\ rpc'[t] = rpc[t] /\ checked'[t] = checked[t]
         /\ seen'[t] = seen[t] /\ identity'[t] = identity[t] /\ kernel'[t] = kernel[t]
         /\ observed'[t] = observed[t] /\ loadedRtl'[t] = loadedRtl[t]
         /\ executed'[t] = executed[t] /\ outcome'[t] = outcome[t]
<1>. USE DEF RunTypeOK, Run!RunTypeOK, Run!started, Run!found, Run!Goto, Run!ReadAgain
<1>1. CASE Run!StartChecked(v) \/ Run!StartDirect(v)
  BY <1>1 DEF Run!StartChecked, Run!StartDirect, Run!Fresh
<1>2. CASE Run!ReadPublished(v) \/ Run!EnvCheckPasses(v) \/ Run!AcceptIdentity(v)
  BY <1>2 DEF Run!ReadPublished, Run!EnvCheckPasses, Run!AcceptIdentity
<1>3. CASE Run!CompileKernel(v) \/ Run!LinkElf(v) \/ Run!VerifyIsa(v)
  BY <1>3 DEF Run!CompileKernel, Run!LinkElf, Run!VerifyIsa
<1>4. CASE Run!PackageVxbin(v) \/ Run!VerifyVxbin(v) \/ Run!Associate(v)
  BY <1>4 DEF Run!PackageVxbin, Run!VerifyVxbin, Run!Associate
<1>5. CASE Run!OpenBackend(v) \/ Run!ExecuteExact(v) \/ Run!WriteJson(v)
  BY <1>5 DEF Run!OpenBackend, Run!ExecuteExact, Run!WriteJson
<1>6. CASE Run!WriteCsv(v) \/ Run!Stop(v)
  BY <1>6 DEF Run!WriteCsv, Run!Stop, Run!Ends
<1>. QED BY <1>1, <1>2, <1>3, <1>4, <1>5, <1>6 DEF Run!RunStep

(* The history and the numbers change only when a run starts.              *)
LEMMA StartOrGoOn ==
  ASSUME RunTypeOK, NEW v \in Terminal, Run!RunStep(v)
  PROVE  \/ Run!Fresh(v) /\ rpc'[v] \in {"check", "identity"}
            /\ (Run!StartChecked(v) \/ Run!StartDirect(v))
         \/ Run!Active(v) /\ UNCHANGED <<runs, overlapped, number>>
<1>. USE DEF Run!started, Run!Active
<1>1. CASE Run!StartChecked(v) \/ Run!StartDirect(v)
  BY <1>1 DEF Run!StartChecked, Run!StartDirect, Run!Goto, RunTypeOK, Run!RunTypeOK
<1>2. CASE Run!ReadPublished(v)
  <2>1. Len(seen[v]) \in Nat /\ Len(seen[v]) < Run!Needed(v)
    BY <1>2 DEF Run!ReadPublished, RunTypeOK, Run!RunTypeOK
  <2>2. rpc[v] # "idle"
    BY <2>1 DEF Run!Needed
  <2>. QED BY <1>2, <2>2 DEF Run!ReadPublished
<1>3. CASE Run!EnvCheckPasses(v) \/ Run!AcceptIdentity(v) \/ Run!CompileKernel(v)
             \/ Run!LinkElf(v) \/ Run!VerifyIsa(v) \/ Run!PackageVxbin(v)
  BY <1>3 DEF Run!EnvCheckPasses, Run!AcceptIdentity, Run!CompileKernel, Run!LinkElf,
              Run!VerifyIsa, Run!PackageVxbin
<1>4. CASE Run!VerifyVxbin(v) \/ Run!Associate(v) \/ Run!OpenBackend(v)
             \/ Run!ExecuteExact(v) \/ Run!WriteJson(v)
  BY <1>4 DEF Run!VerifyVxbin, Run!Associate, Run!OpenBackend, Run!ExecuteExact,
              Run!WriteJson
<1>5. CASE Run!WriteCsv(v) \/ Run!Stop(v)
  BY <1>5 DEF Run!WriteCsv, Run!Stop, Run!Ends
<1>. QED BY <1>1, <1>2, <1>3, <1>4, <1>5 DEF Run!RunStep

(* Who is active beside a run puts it into the history.                    *)
LEMMA Interference ==
  ASSUME RunTypeOK, OverlapKnown, NEW v \in Terminal, Run!RunStep(v),
         NEW t \in Terminal, t # v, Run!Active(t)
  PROVE  number'[t] = number[t] /\ number[t] \in overlapped'
<1>1. number'[t] = number[t]
  BY OthersKept
<1>2. CASE Run!Active(v) /\ UNCHANGED <<runs, overlapped, number>>
  <2>1. number[t] \in Nat /\ number[v] \in Nat /\ number[v] # number[t]
    BY <1>2 DEF OverlapKnown, Ordered, Numbered, RunTypeOK, Run!RunTypeOK
  <2>2. number[v] < number[t] \/ number[t] < number[v]
    BY <2>1
  <2>. QED BY <1>1, <1>2, <2>2 DEF OverlapKnown, Ordered
<1>3. CASE Run!Fresh(v)
  <2>1. t \in Run!Others(v)
    BY DEF Run!Others
  <2>. QED BY <1>1, <1>3, <2>1 DEF Run!Fresh
<1>. QED BY <1>2, <1>3, StartOrGoOn

LEMMA OverlapStep ==
  ASSUME RunTypeOK, OverlapKnown, [WorkflowNext]_workflowVars
  PROVE  OverlapKnown'
<1>1. CASE UNCHANGED runVars
  BY <1>1 DEF runVars, OverlapKnown, Ordered, Numbered, Run!Active
<1>2. ASSUME NEW v \in Terminal, Run!RunStep(v)
      PROVE  OverlapKnown'
  <2>. USE DEF RunTypeOK, Run!RunTypeOK
  <2>1. CASE Run!Fresh(v) /\ rpc'[v] \in {"check", "identity"}
    <3>1. /\ runs' = runs + 1 /\ number' = [number EXCEPT ![v] = runs + 1]
          /\ runs \in Nat /\ \A t \in Terminal : number[t] \in Nat
          /\ ~Run!Active(v) /\ overlapped \subseteq overlapped'
          /\ \A t \in Run!Others(v) : number[t] \in overlapped'
          /\ Run!Others(v) # {} => runs + 1 \in overlapped'
      BY <2>1 DEF Run!Fresh
    <3>2. \A t \in Terminal : Numbered(t)'
      <4>. TAKE t \in Terminal
      <4>1. CASE t = v
        BY <3>1, <4>1 DEF Numbered
      <4>2. CASE t # v
        <5>1. number'[t] = number[t] /\ (Run!Active(t)' <=> Run!Active(t))
          BY <1>2, <4>2, OthersKept DEF Run!Active
        <5>. QED BY <3>1, <5>1 DEF Numbered, OverlapKnown
      <4>. QED BY <4>1, <4>2
    <3>3. ASSUME NEW t \in Terminal, NEW u \in Terminal, t # u
          PROVE  Ordered(t, u)'
      <4>1. CASE t = v
        <5>1. number'[u] = number[u] /\ (Run!Active(u)' <=> Run!Active(u)) /\ number[u] <= runs
          BY <1>2, <3>3, <4>1, OthersKept DEF Run!Active, OverlapKnown, Numbered
        <5>2. Run!Active(u) => u \in Run!Others(v)
          BY <3>3, <4>1 DEF Run!Others
        <5>. QED BY <3>1, <4>1, <5>1, <5>2 DEF Ordered
      <4>2. CASE u = v
        <5>1. number'[t] = number[t] /\ number[t] <= runs
          BY <1>2, <3>3, <4>2, OthersKept DEF OverlapKnown, Numbered
        <5>. QED BY <3>1, <4>2, <5>1 DEF Ordered
      <4>3. CASE t # v /\ u # v
        <5>1. /\ number'[t] = number[t] /\ number'[u] = number[u]
              /\ (Run!Active(u)' <=> Run!Active(u))
          BY <1>2, <4>3, OthersKept DEF Run!Active
        <5>. QED BY <3>1, <3>3, <5>1 DEF Ordered, OverlapKnown
      <4>. QED BY <4>1, <4>2, <4>3
    <3>. QED BY <3>2, <3>3 DEF OverlapKnown, Ordered
  <2>2. CASE Run!Active(v) /\ UNCHANGED <<runs, overlapped, number>>
    <3>1. \A t \in Terminal : Run!Active(t)' => Run!Active(t)
      BY <1>2, <2>2, OthersKept DEF Run!Active
    <3>. QED BY <2>2, <3>1 DEF OverlapKnown, Ordered, Numbered
  <2>. QED BY <1>2, <2>1, <2>2, StartOrGoOn
<1>. QED BY <1>1, <1>2, TurnTaken DEF workflowVars, SetupTurn

(* Setup replaces a published file by one of the same sort.                *)
LEMMA PublishSorted ==
  ASSUME SetupIInv, FilesSorted, [SetupNext]_vars, NEW i \in 1..5
  PROVE  disk'[OutputOrder[i]] \in Sort(i) \cup {Absent}
<1>1. CASE UNCHANGED disk
  BY <1>1 DEF FilesSorted
<1>2. CASE PublishOutput
  <2>. DEFINE file == OutputOrder[published + 1]
  <2>1. /\ disk' = [disk EXCEPT ![file] = Rendering(file, loaded)]
        /\ loaded = design /\ design \in Design /\ RequestHonoured(design)
        /\ published + 1 \in 1..5
        /\ disk \in [OutputFile -> Design \cup Identity \cup {Absent}]
    BY <1>2 DEF PublishOutput, SetupIInv, SetupTypeOK, PublishedIsOfDesign
  <2>2. OutputOrder[i] \in OutputFile
    BY OutputFacts
  <2>3. CASE OutputOrder[i] = file
    <3>1. Rendering(OutputOrder[i], design) \in Sort(i)
      <4>1. OutputOrder[i] = "manifest" <=> i = 1
        BY OutputFacts, 1 \in 1..5 DEF OutputOrder
      <4>. QED BY <4>1, <2>1, RenderingFacts DEF Rendering, Sort
    <3>. QED BY <2>1, <2>2, <2>3, <3>1
  <2>4. CASE OutputOrder[i] # file
    <3>1. disk'[OutputOrder[i]] = disk[OutputOrder[i]]
      BY <2>1, <2>2, <2>4
    <3>. QED BY <3>1 DEF FilesSorted
  <2>. QED BY <2>3, <2>4
<1>3. UNCHANGED disk \/ PublishOutput
  BY DEF SetupNext, SetupStep, vars, build, files, inputs, StartSetup, ResolveDesign,
         WriteStampTmp, CompareStamp, CleanFile, CleanDone, ReplaceStamp, MakeObject,
         LinkLibrary, RequireLibraries, Interrupt, EditInputs
<1>. QED BY <1>1, <1>2, <1>3

LEMMA FilesStep ==
  ASSUME SetupIInv, RunTypeOK, FilesSorted, [WorkflowNext]_workflowVars
  PROVE  FilesSorted'
<1>1. CASE SetupTurn \/ UNCHANGED workflowVars
  <2>1. [SetupNext]_vars /\ UNCHANGED seen
    BY <1>1 DEF SetupTurn, workflowVars, runVars
  <2>2. \A i \in 1..5 : disk'[OutputOrder[i]] \in Sort(i) \cup {Absent}
    BY <2>1, PublishSorted
  <2>. QED BY <2>1, <2>2 DEF FilesSorted
<1>2. ASSUME NEW v \in Terminal, Run!RunStep(v), UNCHANGED vars
      PROVE  FilesSorted'
  <2>1. UNCHANGED disk
    BY <1>2 DEF vars
  <2>2. ASSUME NEW t \in Terminal, t # v
        PROVE  seen'[t] = seen[t]
    BY <1>2, <2>2, OthersKept
  <2>3. CASE seen'[v] = seen[v]
    BY <2>1, <2>2, <2>3 DEF FilesSorted
  <2>4. CASE seen'[v] = <<>>
    BY <2>1, <2>2, <2>4 DEF FilesSorted
  <2>5. CASE Run!ReadPublished(v)
    <3>. DEFINE n == Len(seen[v]) + 1
                c == disk[OutputOrder[n]]
    <3>1. /\ Len(seen[v]) < Run!Needed(v) /\ c # Absent
          /\ seen' = [seen EXCEPT ![v] = Append(seen[v], c)]
      BY <2>5, Vocabulary DEF Run!ReadPublished, Run!Readable
    <3>2. seen[v] \in Seq(Design \cup Identity) /\ n \in 1..5
      BY <3>1 DEF Run!Needed, RunTypeOK, Run!RunTypeOK
    <3>3. c \in Sort(n) /\ c \in Design \cup Identity
      BY <3>1, <3>2 DEF FilesSorted, Sort
    <3>. HIDE DEF c
    <3>4. seen'[v] = Append(seen[v], c)
      BY <3>1 DEF RunTypeOK, Run!RunTypeOK
    <3>5. /\ Len(seen'[v]) = n /\ seen'[v][n] = c
          /\ \A i \in 1..Len(seen[v]) : seen'[v][i] = seen[v][i]
      BY <3>2, <3>3, <3>4
    <3>6. \A i \in 1..Len(seen'[v]) : seen'[v][i] \in Sort(i)
      BY <3>2, <3>3, <3>5 DEF FilesSorted
    <3>. QED BY <2>1, <2>2, <3>6 DEF FilesSorted
  <2>6. seen'[v] = seen[v] \/ seen'[v] = <<>> \/ Run!ReadPublished(v)
    BY <1>2
       DEF Run!RunStep, Run!StartChecked, Run!StartDirect, Run!Fresh, Run!EnvCheckPasses,
           Run!AcceptIdentity, Run!CompileKernel, Run!LinkElf, Run!VerifyIsa,
           Run!PackageVxbin, Run!VerifyVxbin, Run!Associate, Run!OpenBackend,
           Run!ExecuteExact, Run!WriteJson, Run!WriteCsv, Run!Stop, Run!Ends,
           Run!ReadAgain, RunTypeOK, Run!RunTypeOK
  <2>. QED BY <2>3, <2>4, <2>5, <2>6
<1>. QED BY <1>1, <1>2, TurnTaken

(* What a run is about to write is a report.                               *)
LEMMA EvidenceIsReport ==
  ASSUME RunTypeOK, RunsKnow, OverlapKnown, NEW t \in Terminal, rpc[t] \in {"json", "csv"}
  PROVE  Run!Evidence(t) \in Run!Report
<1>1. number[t] \in 1..MaxRuns
  BY WorkflowAssumption DEF RunTypeOK, Run!RunTypeOK, OverlapKnown, Numbered, Run!Active
<1>2. /\ identity[t] \in Identity /\ observed[t] = identity[t]
      /\ loadedRtl[t] \in Run!BuildId /\ executed[t] \in Run!Image
      /\ checked[t] \in Design \cup {Absent}
  BY Vocabulary DEF RunTypeOK, Run!RunTypeOK, RunsKnow, Knows, Linked
<1>. QED BY <1>1, <1>2 DEF Run!Evidence, Run!Report

LEMMA TypeStep ==
  ASSUME SetupIInv, RunTypeOK, FilesSorted, RunsKnow, OverlapKnown,
         [WorkflowNext]_workflowVars
  PROVE  RunTypeOK'
<1>1. CASE UNCHANGED workflowVars
  BY <1>1 DEF workflowVars, runVars, RunTypeOK, Run!RunTypeOK
<1>2. CASE SetupTurn
  <2>1. \A t \in Terminal : Run!Active(t) => number[t] \in 1..MaxRuns
    BY WorkflowAssumption DEF OverlapKnown, Numbered, RunTypeOK, Run!RunTypeOK
  <2>. QED BY <1>2, <2>1 DEF SetupTurn, runVars, RunTypeOK, Run!RunTypeOK
<1>3. ASSUME NEW v \in Terminal, Run!RunStep(v), UNCHANGED <<vars, disturbed>>
      PROVE  RunTypeOK'
  <2>. USE DEF RunTypeOK, Run!RunTypeOK, Run!started, Run!artifacts, Run!reports,
               Run!found, Run!Goto, Run!ReadAgain, Run!Step
  <2>1. CASE Run!Fresh(v) /\ (Run!StartChecked(v) \/ Run!StartDirect(v))
    <3>1. runs + 1 \in 1..MaxRuns /\ \A t \in Run!Others(v) : number[t] \in 1..MaxRuns
      BY <2>1, WorkflowAssumption DEF Run!Fresh, Run!Others, OverlapKnown, Numbered
    <3>2. runs' \in 0..MaxRuns /\ number' \in [Terminal -> 0..MaxRuns]
      <4>1. runs' = runs + 1 /\ number' = [number EXCEPT ![v] = runs + 1]
        BY <2>1 DEF Run!Fresh
      <4>2. runs + 1 \in 0..MaxRuns
        BY <3>1
      <4>. QED BY <4>1, <4>2
    <3>3. overlapped' \subseteq 1..MaxRuns
      <4>1. overlapped' = overlapped \cup {number[u] : u \in Run!Others(v)}
                                     \cup (IF Run!Others(v) = {} THEN {} ELSE {runs + 1})
        BY <2>1 DEF Run!Fresh
      <4>2. {number[u] : u \in Run!Others(v)} \subseteq 1..MaxRuns
        BY <3>1
      <4>. QED BY <3>1, <4>1, <4>2
    <3>4. rpc' \in [Terminal -> Run!Step]
      <4>1. \E s \in {"check", "identity"} : rpc' = [rpc EXCEPT ![v] = s]
        BY <2>1 DEF Run!StartChecked, Run!StartDirect
      <4>. QED BY <4>1
    <3>5. checked' \in [Terminal -> Design \cup {Absent}]
      <4>1. \E d \in Design \cup {Absent} : checked' = [checked EXCEPT ![v] = d]
        BY <2>1 DEF Run!StartChecked, Run!StartDirect, SetupIInv, SetupTypeOK
      <4>. QED BY <4>1
    <3>6. outcome' \in [Terminal -> {"none", "ok", "failed"}]
          /\ UNCHANGED <<seen, kernel, identity, observed, loadedRtl, executed,
                         object, elf, vxbin, json, csv>>
      BY <2>1 DEF Run!Fresh
    <3>. QED BY <1>3, <3>2, <3>3, <3>4, <3>5, <3>6
  <2>2. CASE Run!ReadPublished(v)
    <3>. DEFINE c == disk[OutputOrder[Len(seen[v]) + 1]]
    <3>1. /\ Len(seen[v]) < Run!Needed(v) /\ c # Absent
          /\ seen' = [seen EXCEPT ![v] = Append(seen[v], c)]
      BY <2>2, Vocabulary DEF Run!ReadPublished, Run!Readable
    <3>2. seen[v] \in Seq(Design \cup Identity) /\ Len(seen[v]) + 1 \in 1..5
      BY <3>1 DEF Run!Needed
    <3>3. c \in Design \cup Identity
      BY <3>1, <3>2 DEF FilesSorted, Sort
    <3>. HIDE DEF c
    <3>4. Append(seen[v], c) \in Seq(Design \cup Identity)
          /\ Len(Append(seen[v], c)) <= 5
      BY <3>2, <3>3
    <3>5. /\ seen' \in [Terminal -> Seq(Design \cup Identity)]
          /\ \A t \in Terminal : Len(seen'[t]) <= 5
      BY <3>1, <3>4
    <3>. QED BY <1>3, <2>2, <3>5 DEF Run!ReadPublished
  <2>3. CASE Run!EnvCheckPasses(v) \/ Run!VerifyIsa(v)
    <3>1. /\ \E s \in {"identity", "package"} : rpc' = [rpc EXCEPT ![v] = s]
          /\ seen' = [seen EXCEPT ![v] = <<>>]
          /\ UNCHANGED <<runs, overlapped, number, checked, kernel, identity, observed,
                         loadedRtl, executed, object, elf, vxbin, json, csv, outcome>>
      BY <2>3 DEF Run!EnvCheckPasses, Run!VerifyIsa
    <3>. QED BY <1>3, <3>1
  <2>4. CASE Run!AcceptIdentity(v)
    <3>. DEFINE i == Run!ConfigRead(seen[v])
    <3>1. i \in Identity
      BY <2>4, AcceptedResolved DEF Run!AcceptIdentity
    <3>2. /\ identity' = [identity EXCEPT ![v] = i]
          /\ rpc' = [rpc EXCEPT ![v] = "build"] /\ seen' = [seen EXCEPT ![v] = <<>>]
          /\ UNCHANGED <<runs, overlapped, number, checked, kernel, observed, loadedRtl,
                         executed, object, elf, vxbin, json, csv, outcome>>
      BY <2>4 DEF Run!AcceptIdentity
    <3>. HIDE DEF i
    <3>. QED BY <1>3, <3>1, <3>2
  <2>5. CASE Run!CompileKernel(v)
    <3>1. number[v] \in 1..MaxRuns
      BY <2>5, WorkflowAssumption DEF Run!CompileKernel, OverlapKnown, Numbered, Run!Active
    <3>. QED BY <1>3, <2>5, <3>1 DEF Run!CompileKernel
  <2>6. CASE Run!LinkElf(v)
    <3>1. object[kernel[v]] \in 1..MaxRuns
      BY <2>6 DEF Run!LinkElf, Run!Intact
    <3>2. [run |-> object[kernel[v]], config |-> Run!ConfigRead(seen[v])] \in Run!Image
      BY <2>6, <3>1, AcceptedResolved DEF Run!LinkElf, Run!Image
    <3>3. elf' \in [Run!Kernel -> Run!Image \cup {Absent, Torn}]
      BY <2>6, <3>2 DEF Run!LinkElf
    <3>. QED BY <1>3, <2>6, <3>3 DEF Run!LinkElf
  <2>7. CASE Run!PackageVxbin(v)
    BY <1>3, <2>7 DEF Run!PackageVxbin, Run!Packaged
  <2>8. CASE Run!VerifyVxbin(v)
    BY <1>3, <2>8, Vocabulary DEF Run!VerifyVxbin
  <2>9. CASE Run!Associate(v)
    BY <1>3, <2>9, LibraryFound DEF Run!Associate
  <2>10. CASE Run!OpenBackend(v)
    BY <1>3, <2>10, LibraryFound, Vocabulary DEF Run!OpenBackend
  <2>11. CASE Run!ExecuteExact(v)
    <3>1. vxbin["attention"] \in Run!Image
      BY <2>11, Vocabulary DEF Run!ExecuteExact, Run!Intact
    <3>. QED BY <1>3, <2>11, <3>1 DEF Run!ExecuteExact
  <2>12. CASE Run!WriteJson(v)
    <3>1. json' \in Run!Report
      BY <2>12, EvidenceIsReport DEF Run!WriteJson
    <3>. QED BY <1>3, <2>12, <3>1 DEF Run!WriteJson
  <2>13. CASE Run!WriteCsv(v)
    <3>1. csv' \in Run!Report
      BY <2>13, EvidenceIsReport DEF Run!WriteCsv, Run!CsvRow
    <3>. QED BY <1>3, <2>13, <3>1, Vocabulary DEF Run!WriteCsv, Run!Ends
  <2>14. CASE Run!Stop(v)
    <3>1. /\ object' \in [Run!Kernel -> 1..MaxRuns \cup {Absent, Torn}]
          /\ elf' \in [Run!Kernel -> Run!Image \cup {Absent, Torn}]
          /\ vxbin' \in [Run!Kernel -> Run!Image \cup {Absent, Torn}]
      BY <2>14 DEF Run!Stop, Run!MayTear
    <3>2. json' \in Run!Report \cup {Absent, Torn} /\ csv' \in Run!Report \cup {Absent, Torn}
      BY <2>14 DEF Run!Stop
    <3>3. /\ kernel' \in [Terminal -> Run!Kernel] /\ rpc' \in [Terminal -> Run!Step]
          /\ outcome' \in [Terminal -> {"none", "ok", "failed"}]
          /\ seen' \in [Terminal -> Seq(Design \cup Identity)]
          /\ \A t \in Terminal : Len(seen'[t]) <= 5
      BY <2>14, Vocabulary DEF Run!Stop, Run!Ends
    <3>4. /\ checked' \in [Terminal -> Design \cup {Absent}]
          /\ identity' \in [Terminal -> Identity \cup {Absent}]
          /\ observed' \in [Terminal -> Identity \cup {Absent}]
          /\ loadedRtl' \in [Terminal -> Run!BuildId \cup {Absent}]
          /\ executed' \in [Terminal -> Run!Image \cup {Absent}]
          /\ UNCHANGED <<runs, overlapped, number>>
      BY <2>14 DEF Run!Stop, Run!Ends
    <3>. QED BY <1>3, <3>1, <3>2, <3>3, <3>4
  <2>. QED BY <1>3, <2>1, <2>2, <2>3, <2>4, <2>5, <2>6, <2>7, <2>8, <2>9, <2>10, <2>11,
              <2>12, <2>13, <2>14, StartOrGoOn DEF Run!RunStep, Run!StartChecked,
              Run!StartDirect
<1>. QED BY <1>1, <1>2, <1>3, TurnTaken

(* A run goes on only with what it has established.                        *)
LEMMA KnowsStep ==
  ASSUME SetupIInv, RunTypeOK, FilesSorted, RunsKnow, [WorkflowNext]_workflowVars
  PROVE  RunsKnow'
<1>1. CASE UNCHANGED runVars
  BY <1>1 DEF runVars, RunsKnow, Knows, Run!Active
<1>2. ASSUME NEW v \in Terminal, Run!RunStep(v)
      PROVE  RunsKnow'
  <2>. USE DEF Knows, Run!Active, Run!started, Run!artifacts, Run!reports, Run!found,
               Run!Goto, Run!ReadAgain
  <2>1. ASSUME NEW t \in Terminal, t # v
        PROVE  Knows(t)'
    BY <1>2, <2>1, OthersKept DEF RunsKnow
  <2>2. Knows(v)
    BY DEF RunsKnow
  <2>3. Knows(v)'
    <3>. USE DEF RunTypeOK, Run!RunTypeOK
    <3>1. CASE Run!StartChecked(v) \/ Run!StartDirect(v)
      BY <3>1 DEF Run!StartChecked, Run!StartDirect, Run!Fresh
    <3>2. CASE Run!ReadPublished(v)
      <4>1. rpc[v] \in {"check", "identity", "startup", "isa"}
        BY <3>2 DEF Run!ReadPublished, Run!Needed
      <4>2. UNCHANGED <<rpc, identity, observed, loadedRtl, executed, outcome>>
        BY <3>2 DEF Run!ReadPublished
      <4>. QED BY <2>2, <4>1, <4>2
    <3>3. CASE Run!EnvCheckPasses(v) \/ Run!VerifyIsa(v)
      BY <2>2, <3>3 DEF Run!EnvCheckPasses, Run!VerifyIsa
    <3>4. CASE Run!AcceptIdentity(v)
      <4>1. Run!ConfigRead(seen[v]) \in Identity
        BY <3>4, AcceptedResolved DEF Run!AcceptIdentity
      <4>. QED BY <2>2, <3>4, <4>1 DEF Run!AcceptIdentity
    <3>5. CASE Run!CompileKernel(v) \/ Run!LinkElf(v)
      BY <2>2, <3>5 DEF Run!CompileKernel, Run!LinkElf
    <3>6. CASE Run!PackageVxbin(v) \/ Run!VerifyVxbin(v)
      BY <2>2, <3>6 DEF Run!PackageVxbin, Run!VerifyVxbin
    <3>7. CASE Run!Associate(v)
      BY <2>2, <3>7 DEF Run!Associate, Run!TagExpected
    <3>8. CASE Run!OpenBackend(v)
      <4>1. LibraryBuild \in Linked
        BY <3>8, LibraryFound DEF Run!OpenBackend, Linked
      <4>. QED BY <2>2, <3>8, <4>1 DEF Run!OpenBackend
    <3>9. CASE Run!ExecuteExact(v)
      <4>1. vxbin["attention"] \in Run!Image
        BY <3>9, Vocabulary DEF Run!ExecuteExact, Run!Intact
      <4>. QED BY <2>2, <3>9, <4>1 DEF Run!ExecuteExact
    <3>10. CASE Run!WriteJson(v)
      BY <2>2, <3>10 DEF Run!WriteJson
    <3>11. CASE Run!WriteCsv(v) \/ Run!Stop(v)
      BY <3>11 DEF Run!WriteCsv, Run!Stop, Run!Ends
    <3>. QED BY <1>2, <3>1, <3>2, <3>3, <3>4, <3>5, <3>6, <3>7, <3>8, <3>9, <3>10, <3>11
             DEF Run!RunStep
  <2>. QED BY <2>1, <2>3 DEF RunsKnow
<1>. QED BY <1>1, <1>2, TurnTaken DEF workflowVars, SetupTurn

(* A run nobody overlaps finds its own artifacts at the fixed paths.       *)
LEMMA ArtifactsStep ==
  ASSUME SetupIInv, RunTypeOK, FilesSorted, OverlapKnown, ArtifactsOwn,
         [WorkflowNext]_workflowVars
  PROVE  ArtifactsOwn'
<1>1. CASE UNCHANGED runVars
  BY <1>1 DEF runVars, ArtifactsOwn, Mine, Of, Run!Evidence
<1>2. ASSUME NEW v \in Terminal, Run!RunStep(v)
      PROVE  ArtifactsOwn'
  <2>. USE DEF Run!started, Run!artifacts, Run!reports, Run!found, Run!Goto,
               Run!ReadAgain, Mine
  <2>1. ASSUME NEW t \in Terminal, t # v
        PROVE  Mine(t)'
    <3>1. CASE Run!Active(t)
      BY <1>2, <2>1, <3>1, Interference
    <3>2. CASE ~Run!Active(t)
      <4>1. rpc'[t] = "idle"
        BY <1>2, <2>1, <3>2, OthersKept DEF Run!Active
      <4>. QED BY <4>1
    <3>. QED BY <3>1, <3>2
  <2>2. Mine(v)'
    <3>. USE DEF Of
    <3>1. CASE Run!Fresh(v) /\ rpc'[v] \in {"check", "identity"}
      BY <3>1
    <3>2. CASE Run!Active(v) /\ UNCHANGED <<runs, overlapped, number>>
      <4>. SUFFICES ASSUME number[v] \notin overlapped PROVE Mine(v)'
        BY <3>2
      <4>. USE DEF RunTypeOK, Run!RunTypeOK
      <4>0. Mine(v)
        BY DEF ArtifactsOwn
      <4>1. CASE Run!StartChecked(v) \/ Run!StartDirect(v)
        BY <4>1 DEF Run!StartChecked, Run!StartDirect
      <4>2. CASE Run!ReadPublished(v)
        BY <3>2, <4>0, <4>2 DEF Run!ReadPublished, Run!Evidence
      <4>3. CASE Run!EnvCheckPasses(v) \/ Run!AcceptIdentity(v)
        BY <4>3 DEF Run!EnvCheckPasses, Run!AcceptIdentity
      <4>4. CASE Run!CompileKernel(v)
        BY <3>2, <4>4 DEF Run!CompileKernel
      <4>5. CASE Run!LinkElf(v)
        <5>. DEFINE e == [run |-> object[kernel[v]], config |-> Run!ConfigRead(seen[v])]
        <5>1. /\ elf' = [elf EXCEPT ![kernel[v]] = e] /\ rpc'[v] = "isa"
              /\ UNCHANGED kernel /\ rpc[v] = "startup"
          BY <4>5 DEF Run!LinkElf
        <5>2. object[kernel[v]] = number[v] /\ number[v] \in 1..MaxRuns
          BY <3>2, <4>0, <5>1, WorkflowAssumption DEF OverlapKnown, Numbered
        <5>3. Of(e, v)
          BY <4>5, <5>2, AcceptedResolved DEF Run!LinkElf, Run!Image
        <5>. HIDE DEF e
        <5>4. elf'[kernel[v]] = e
          BY <5>1
        <5>. QED BY <3>2, <5>1, <5>3, <5>4
      <4>6. CASE Run!VerifyIsa(v)
        BY <3>2, <4>0, <4>6 DEF Run!VerifyIsa
      <4>7. CASE Run!PackageVxbin(v)
        BY <3>2, <4>0, <4>7 DEF Run!PackageVxbin, Run!Packaged
      <4>8. CASE Run!VerifyVxbin(v)
        <5>1. /\ rpc[v] = "verify" /\ UNCHANGED vxbin
              /\ \/ rpc'[v] = "build"
                 \/ rpc'[v] = "associate" /\ kernel[v] = "attention"
          BY <4>8 DEF Run!VerifyVxbin, Run!Kernel
        <5>. QED BY <3>2, <4>0, <5>1
      <4>9. CASE Run!Associate(v) \/ Run!OpenBackend(v)
        BY <3>2, <4>0, <4>9 DEF Run!Associate, Run!OpenBackend
      <4>10. CASE Run!ExecuteExact(v)
        BY <3>2, <4>0, <4>10 DEF Run!ExecuteExact
      <4>11. CASE Run!WriteJson(v)
        <5>1. /\ rpc[v] = "json" /\ rpc'[v] = "csv" /\ json' = Run!Evidence(v)
              /\ UNCHANGED <<number, checked, identity, observed, loadedRtl, executed>>
          BY <4>11 DEF Run!WriteJson
        <5>2. Run!Evidence(v)' = Run!Evidence(v)
          BY <5>1 DEF Run!Evidence
        <5>. QED BY <3>2, <4>0, <5>1, <5>2
      <4>12. CASE Run!WriteCsv(v) \/ Run!Stop(v)
        BY <4>12 DEF Run!WriteCsv, Run!Stop, Run!Ends
      <4>. QED BY <1>2, <4>1, <4>2, <4>3, <4>4, <4>5, <4>6, <4>7, <4>8, <4>9, <4>10,
                  <4>11, <4>12 DEF Run!RunStep
    <3>. QED BY <1>2, <3>1, <3>2, StartOrGoOn
  <2>. QED BY <2>1, <2>2 DEF ArtifactsOwn
<1>. QED BY <1>1, <1>2, TurnTaken DEF workflowVars, SetupTurn

(* Reports are written by WriteJson and WriteCsv, torn by Stop, and else   *)
(* left alone.                                                             *)
LEMMA ReportsKept ==
  ASSUME NEW v \in Terminal, Run!RunStep(v), ~Run!WriteJson(v), ~Run!WriteCsv(v)
  PROVE  json' \in {json, Torn} /\ csv' \in {csv, Torn}
<1>. USE DEF Run!reports
<1>1. CASE Run!StartChecked(v) \/ Run!StartDirect(v) \/ Run!ReadPublished(v)
             \/ Run!EnvCheckPasses(v) \/ Run!AcceptIdentity(v)
  BY <1>1 DEF Run!StartChecked, Run!StartDirect, Run!Fresh, Run!ReadPublished,
              Run!EnvCheckPasses, Run!AcceptIdentity
<1>2. CASE Run!CompileKernel(v) \/ Run!LinkElf(v) \/ Run!VerifyIsa(v)
             \/ Run!PackageVxbin(v) \/ Run!VerifyVxbin(v)
  BY <1>2 DEF Run!CompileKernel, Run!LinkElf, Run!VerifyIsa, Run!PackageVxbin,
              Run!VerifyVxbin
<1>3. CASE Run!Associate(v) \/ Run!OpenBackend(v) \/ Run!ExecuteExact(v) \/ Run!Stop(v)
  BY <1>3 DEF Run!Associate, Run!OpenBackend, Run!ExecuteExact, Run!Stop
<1>. QED BY <1>1, <1>2, <1>3 DEF Run!RunStep

LEMMA ReportWritten ==
  ASSUME NEW v \in Terminal, Run!RunStep(v), NEW r \in Run!Reported'
  PROVE  \/ r \in Run!Reported
         \/ r = Run!Evidence(v) /\ rpc[v] \in {"json", "csv"}
<1>1. CASE Run!WriteJson(v)
  BY <1>1 DEF Run!WriteJson, Run!Reported
<1>2. CASE Run!WriteCsv(v)
  BY <1>2 DEF Run!WriteCsv, Run!CsvRow, Run!Reported
<1>3. CASE ~Run!WriteJson(v) /\ ~Run!WriteCsv(v)
  BY <1>3, ReportsKept DEF Run!Reported
<1>. QED BY <1>1, <1>2, <1>3

LEMMA HistoryGrows ==
  ASSUME RunTypeOK, [WorkflowNext]_workflowVars
  PROVE  overlapped \subseteq overlapped' /\ disturbed \subseteq disturbed'
<1>1. ASSUME NEW v \in Terminal, Run!RunStep(v)
      PROVE  overlapped \subseteq overlapped'
  BY <1>1, StartOrGoOn DEF Run!Fresh
<1>. QED BY <1>1, TurnTaken DEF workflowVars, SetupTurn, runVars

(* A run ends well by writing the CSV, and in no other way.                *)
LEMMA EndsWell ==
  ASSUME RunTypeOK, RunsKnow, NEW v \in Terminal, Run!RunStep(v), outcome'[v] = "ok"
  PROVE  Run!WriteCsv(v)
<1>. USE DEF RunTypeOK, Run!RunTypeOK
<1>1. CASE Run!StartChecked(v) \/ Run!StartDirect(v)
  BY <1>1 DEF Run!StartChecked, Run!StartDirect, Run!Fresh
<1>2. CASE Run!Stop(v)
  BY <1>2 DEF Run!Stop, Run!Ends
<1>3. CASE UNCHANGED outcome /\ Run!Active(v)
  BY <1>3 DEF RunsKnow, Knows
<1>4. CASE Run!ReadPublished(v) \/ Run!EnvCheckPasses(v) \/ Run!AcceptIdentity(v)
             \/ Run!CompileKernel(v) \/ Run!LinkElf(v) \/ Run!VerifyIsa(v)
  BY <1>3, <1>4, StartOrGoOn
     DEF Run!ReadPublished, Run!EnvCheckPasses, Run!AcceptIdentity, Run!CompileKernel,
         Run!LinkElf, Run!VerifyIsa, Run!Fresh
<1>5. CASE Run!PackageVxbin(v) \/ Run!VerifyVxbin(v) \/ Run!Associate(v)
             \/ Run!OpenBackend(v) \/ Run!ExecuteExact(v) \/ Run!WriteJson(v)
  BY <1>3, <1>5, StartOrGoOn
     DEF Run!PackageVxbin, Run!VerifyVxbin, Run!Associate, Run!OpenBackend,
         Run!ExecuteExact, Run!WriteJson, Run!Fresh
<1>. QED BY <1>1, <1>2, <1>4, <1>5 DEF Run!RunStep

LEMMA ReportsStep ==
  ASSUME RunTypeOK, RunsKnow, OverlapKnown, ArtifactsOwn, ReportsSound,
         [WorkflowNext]_workflowVars
  PROVE  ReportsSound'
<1>1. CASE UNCHANGED runVars
  BY <1>1 DEF runVars, ReportsSound, SoundReport, BothReported, Run!Reported
<1>2. ASSUME NEW v \in Terminal, Run!RunStep(v)
      PROVE  ReportsSound'
  <2>. USE DEF RunTypeOK, Run!RunTypeOK
  <2>1. ASSUME NEW r \in Run!Reported'
        PROVE  SoundReport(r)'
    <3>1. CASE r \in Run!Reported
      BY <3>1, HistoryGrows DEF ReportsSound, SoundReport
    <3>2. CASE r = Run!Evidence(v) /\ rpc[v] \in {"json", "csv"}
      <4>1. Knows(v) /\ Mine(v)
        BY DEF RunsKnow, ArtifactsOwn
      <4>. QED BY <3>2, <4>1, HistoryGrows
               DEF SoundReport, Knows, Mine, Of, Run!Evidence
    <3>. QED BY <1>2, <2>1, <3>1, <3>2, ReportWritten
  <2>2. ASSUME NEW t \in Terminal, outcome'[t] = "ok", number'[t] = runs',
               runs' \notin overlapped'
        PROVE  json' = csv' /\ json' \in Run!Report /\ json'.run = runs'
    <3>1. CASE t = v
      <4>1. Run!WriteCsv(v)
        BY <1>2, <2>2, <3>1, EndsWell
      <4>2. /\ rpc[v] = "csv" /\ csv' = Run!Evidence(v)
            /\ UNCHANGED <<json, runs, overlapped, number>>
        BY <4>1 DEF Run!WriteCsv, Run!CsvRow, Run!Ends
      <4>3. json = Run!Evidence(v) /\ Run!Evidence(v) \in Run!Report
        BY <2>2, <3>1, <4>2, EvidenceIsReport DEF ArtifactsOwn, Mine
      <4>. QED BY <2>2, <3>1, <4>2, <4>3 DEF Run!Evidence
    <3>2. CASE t # v /\ Run!Fresh(v)
      <4>1. number[t] <= runs /\ number'[t] = number[t] /\ runs' = runs + 1
        BY <1>2, <3>2, OthersKept DEF Run!Fresh, OverlapKnown, Numbered
      <4>2. number[t] \in Nat /\ runs \in Nat /\ number[t] # runs'
        BY <4>1
      <4>. QED BY <2>2, <4>1, <4>2
    <3>3. CASE t # v /\ Run!Active(v) /\ UNCHANGED <<runs, overlapped, number>>
      <4>1. /\ number[v] <= runs /\ number[v] >= 1 /\ number[t] = runs
            /\ number[t] \notin overlapped
        BY <2>2, <3>3 DEF OverlapKnown, Numbered
      <4>2. number[v] # number[t] /\ ~(number[v] < number[t])
        BY <3>3, <4>1 DEF OverlapKnown, Ordered
      <4>. QED BY <4>1, <4>2
    <3>. QED BY <1>2, <3>1, <3>2, <3>3, StartOrGoOn
  <2>. QED BY <2>1, <2>2 DEF ReportsSound, BothReported
<1>. QED BY <1>1, <1>2, TurnTaken DEF workflowVars, SetupTurn

-----------------------------------------------------------------------------
(* What setup does not disturb.                                            *)

(* An accepted configuration is the one published now.                     *)
LEMMA ReadsNow ==
  ASSUME FilesSorted, NEW t \in Terminal, StandsStill(t), Run!Active(t),
         number[t] \notin disturbed, Run!AllRead(t)
  PROVE  Run!ConfigRead(seen[t]) = Now
<1>1. 1 \in 1..Len(seen[t])
  BY DEF Run!AllRead
<1>2. seen[t][1] = disk[OutputOrder[1]] /\ OutputOrder[1] = "manifest"
  BY <1>1 DEF StandsStill, OutputOrder
<1>. QED BY <1>2, AcceptedResolved DEF Now

LEMMA StillStep ==
  ASSUME SetupIInv, RunTypeOK, FilesSorted, RunsKnow, QuietIInv,
         [WorkflowNext]_workflowVars
  PROVE  \A t \in Terminal : StandsStill(t)'
<1>. USE DEF Run!Active, Run!started, Run!artifacts, Run!reports, Run!found, Run!Goto,
             Run!ReadAgain
<1>1. CASE UNCHANGED workflowVars
  <2>1. Now' = Now /\ LibraryBuild' = LibraryBuild
    BY <1>1 DEF workflowVars, vars, Now, LibraryBuild
  <2>. QED BY <1>1, <2>1 DEF workflowVars, vars, runVars, QuietIInv, StandsStill
<1>2. CASE SetupTurn
  BY <1>2 DEF SetupTurn, runVars, StandsStill
<1>3. ASSUME NEW v \in Terminal, Run!RunStep(v), UNCHANGED <<vars, disturbed>>
      PROVE  \A t \in Terminal : StandsStill(t)'
  <2>0. Now' = Now /\ LibraryBuild' = LibraryBuild /\ disk' = disk /\ disturbed' = disturbed
    BY <1>3 DEF vars, Now, LibraryBuild
  <2>1. ASSUME NEW t \in Terminal, t # v
        PROVE  StandsStill(t)'
    BY <1>3, <2>0, <2>1, OthersKept DEF QuietIInv, StandsStill
  <2>2. StandsStill(v)'
    <3>. SUFFICES ASSUME number'[v] \notin disturbed, rpc'[v] # "idle"
                  PROVE  StandsStill(v)'
      BY <2>0 DEF StandsStill
    <3>. USE DEF RunTypeOK, Run!RunTypeOK
    <3>0. StandsStill(v) /\ Knows(v)
      BY DEF QuietIInv, RunsKnow
    <3>1. CASE Run!StartChecked(v) \/ Run!StartDirect(v)
      BY <2>0, <3>0, <3>1
         DEF Run!StartChecked, Run!StartDirect, Run!Fresh, StandsStill, Knows
    <3>2. CASE Run!ReadPublished(v)
      <4>. DEFINE c == disk[OutputOrder[Len(seen[v]) + 1]]
      <4>1. /\ seen'[v] = Append(seen[v], c)
            /\ UNCHANGED <<rpc, checked, identity, loadedRtl, number>>
        BY <3>2, Vocabulary DEF Run!ReadPublished
      <4>2. \A i \in 1..Len(seen[v]) : seen[v][i] = disk[OutputOrder[i]]
        BY <3>0, <4>1 DEF StandsStill
      <4>3. \A i \in 1..Len(seen'[v]) : seen'[v][i] = disk[OutputOrder[i]]
        <5>1. seen[v] \in Seq(Design \cup Identity)
          OBVIOUS
        <5>. HIDE DEF c
        <5>2. /\ Len(seen'[v]) = Len(seen[v]) + 1 /\ seen'[v][Len(seen[v]) + 1] = c
              /\ \A i \in 1..Len(seen[v]) : seen'[v][i] = seen[v][i]
          BY <4>1, <5>1
        <5>3. \A i \in 1..Len(seen'[v]) : i \in 1..Len(seen[v]) \/ i = Len(seen[v]) + 1
          BY <5>1, <5>2
        <5>. QED BY <4>2, <5>2, <5>3 DEF c
      <4>. QED BY <2>0, <3>0, <4>1, <4>3 DEF StandsStill
    <3>3. CASE Run!EnvCheckPasses(v)
      <4>1. /\ rpc[v] = "check" /\ Len(seen[v]) = 5
            /\ Run!SameAsRendered(seen[v], checked[v])
            /\ rpc'[v] = "identity" /\ seen'[v] = <<>>
            /\ UNCHANGED <<checked, number>>
        BY <3>3 DEF Run!EnvCheckPasses
      <4>2. seen[v][1] = checked[v]
        <5>1. Run!OutputOrder[1] = "manifest" /\ 1 \in 1..5
          BY DEF Run!OutputOrder
        <5>2. seen[v][1] = Run!Rendering("manifest", checked[v])
          BY <4>1, <5>1 DEF Run!SameAsRendered
        <5>. QED BY <5>2 DEF Run!Rendering
      <4>3. seen[v][1] = disk["manifest"]
        <5>1. 1 \in 1..Len(seen[v]) /\ OutputOrder[1] = "manifest"
          BY <4>1 DEF OutputOrder
        <5>. QED BY <3>0, <4>1, <5>1 DEF StandsStill
      <4>. QED BY <2>0, <4>1, <4>2, <4>3 DEF StandsStill
    <3>4. CASE Run!AcceptIdentity(v)
      <4>1. /\ rpc[v] = "identity" /\ Run!AllRead(v)
            /\ identity'[v] = Run!ConfigRead(seen[v])
            /\ rpc'[v] = "build" /\ seen'[v] = <<>> /\ UNCHANGED <<checked, number>>
        BY <3>4 DEF Run!AcceptIdentity
      <4>2. identity'[v] = Now
        BY <3>0, <4>1, ReadsNow
      <4>. QED BY <2>0, <3>0, <4>1, <4>2 DEF StandsStill
    <3>5. CASE Run!CompileKernel(v) \/ Run!LinkElf(v) \/ Run!VerifyIsa(v)
      BY <2>0, <3>0, <3>5
         DEF Run!CompileKernel, Run!LinkElf, Run!VerifyIsa, StandsStill, Knows
    <3>6. CASE Run!PackageVxbin(v) \/ Run!VerifyVxbin(v)
      BY <2>0, <3>0, <3>6 DEF Run!PackageVxbin, Run!VerifyVxbin, StandsStill
    <3>7. CASE Run!Associate(v)
      BY <2>0, <3>0, <3>7 DEF Run!Associate, Run!TagExpected, StandsStill
    <3>8. CASE Run!OpenBackend(v)
      BY <2>0, <3>0, <3>8 DEF Run!OpenBackend, StandsStill
    <3>9. CASE Run!ExecuteExact(v) \/ Run!WriteJson(v)
      BY <2>0, <3>0, <3>9 DEF Run!ExecuteExact, Run!WriteJson, StandsStill
    <3>10. CASE Run!WriteCsv(v) \/ Run!Stop(v)
      BY <3>10 DEF Run!WriteCsv, Run!Stop, Run!Ends
    <3>. QED BY <1>3, <3>1, <3>2, <3>3, <3>4, <3>5, <3>6, <3>7, <3>8, <3>9, <3>10
             DEF Run!RunStep
  <2>. QED BY <2>1, <2>2
<1>. QED BY <1>1, <1>2, <1>3, TurnTaken

LEMMA FitStep ==
  ASSUME SetupIInv, RunTypeOK, FilesSorted, RunsKnow, OverlapKnown, QuietIInv,
         [WorkflowNext]_workflowVars
  PROVE  \A t \in Terminal : ImageFits(t)'
<1>. USE DEF Run!Active, Run!started, Run!artifacts, Run!reports, Run!found, Run!Goto,
             Run!ReadAgain, ImageFits, Fits
<1>1. CASE UNCHANGED workflowVars
  BY <1>1 DEF workflowVars, runVars, QuietIInv
<1>2. CASE SetupTurn
  BY <1>2 DEF SetupTurn, runVars
<1>3. ASSUME NEW v \in Terminal, Run!RunStep(v), UNCHANGED <<vars, disturbed>>
      PROVE  \A t \in Terminal : ImageFits(t)'
  <2>1. ASSUME NEW t \in Terminal, t # v
        PROVE  ImageFits(t)'
    <3>1. CASE Run!Active(t)
      BY <1>3, <2>1, <3>1, Interference
    <3>2. CASE ~Run!Active(t)
      BY <1>3, <2>1, <3>2, OthersKept
    <3>. QED BY <3>1, <3>2
  <2>2. ImageFits(v)'
    <3>1. CASE Run!Fresh(v) /\ rpc'[v] \in {"check", "identity"}
      BY <3>1
    <3>2. CASE Run!Active(v) /\ UNCHANGED <<runs, overlapped, number>>
      <4>. SUFFICES ASSUME number[v] \notin disturbed \cup overlapped PROVE ImageFits(v)'
        BY <1>3, <3>2
      <4>. USE DEF RunTypeOK, Run!RunTypeOK
      <4>0. ImageFits(v) /\ StandsStill(v)
        BY DEF QuietIInv
      <4>1. CASE Run!StartChecked(v) \/ Run!StartDirect(v)
        BY <4>1 DEF Run!StartChecked, Run!StartDirect
      <4>2. CASE Run!ReadPublished(v)
        BY <3>2, <4>0, <4>2 DEF Run!ReadPublished
      <4>3. CASE Run!EnvCheckPasses(v) \/ Run!AcceptIdentity(v) \/ Run!CompileKernel(v)
        BY <4>3 DEF Run!EnvCheckPasses, Run!AcceptIdentity, Run!CompileKernel
      <4>4. CASE Run!LinkElf(v)
        <5>. DEFINE e == [run |-> object[kernel[v]], config |-> Run!ConfigRead(seen[v])]
        <5>1. /\ elf' = [elf EXCEPT ![kernel[v]] = e] /\ rpc'[v] = "isa"
              /\ UNCHANGED <<kernel, identity>>
          BY <4>4 DEF Run!LinkElf
        <5>2. e.config = identity[v]
          <6>1. identity[v] = Now
            BY <3>2, <4>0, <4>4 DEF Run!LinkElf, StandsStill
          <6>. QED BY <3>2, <4>0, <4>4, <6>1, ReadsNow DEF Run!LinkElf
        <5>. HIDE DEF e
        <5>3. elf'[kernel[v]] = e
          BY <5>1
        <5>. QED BY <5>1, <5>2, <5>3
      <4>5. CASE Run!VerifyIsa(v)
        <5>1. /\ rpc[v] = "isa" /\ rpc'[v] = "package" /\ UNCHANGED <<elf, kernel, identity>>
              /\ Run!AllRead(v) /\ Run!ConfigRead(seen[v]) \in ElfRunsOn
          BY <4>5 DEF Run!VerifyIsa, Run!IsaCovers
        <5>2. identity[v] \in ElfRunsOn
          <6>1. identity[v] = Now
            BY <3>2, <4>0, <5>1 DEF StandsStill
          <6>. QED BY <3>2, <4>0, <5>1, <6>1, ReadsNow
        <5>. QED BY <3>2, <4>0, <5>1, <5>2
      <4>6. CASE Run!PackageVxbin(v)
        BY <3>2, <4>0, <4>6 DEF Run!PackageVxbin, Run!Packaged
      <4>7. CASE Run!VerifyVxbin(v)
        <5>1. /\ rpc[v] = "verify" /\ UNCHANGED <<vxbin, identity>>
              /\ \/ rpc'[v] = "build"
                 \/ rpc'[v] = "associate" /\ kernel[v] = "attention"
          BY <4>7 DEF Run!VerifyVxbin, Run!Kernel
        <5>. QED BY <3>2, <4>0, <5>1
      <4>8. CASE Run!Associate(v) \/ Run!OpenBackend(v)
        BY <3>2, <4>0, <4>8 DEF Run!Associate, Run!OpenBackend
      <4>9. CASE Run!ExecuteExact(v) \/ Run!WriteJson(v)
        BY <3>2, <4>0, <4>9 DEF Run!ExecuteExact, Run!WriteJson
      <4>10. CASE Run!WriteCsv(v) \/ Run!Stop(v)
        BY <4>10 DEF Run!WriteCsv, Run!Stop, Run!Ends
      <4>. QED BY <1>3, <4>1, <4>2, <4>3, <4>4, <4>5, <4>6, <4>7, <4>8, <4>9, <4>10
               DEF Run!RunStep
    <3>. QED BY <1>3, <3>1, <3>2, StartOrGoOn
  <2>. QED BY <2>1, <2>2
<1>. QED BY <1>1, <1>2, <1>3, TurnTaken

(* What a run writes is faithful when nothing came between.                *)
LEMMA FaithfulStep ==
  ASSUME RunTypeOK, QuietIInv, [WorkflowNext]_workflowVars
  PROVE  \A r \in Run!Reported' : FaithfulReport(r)'
<1>1. ASSUME NEW r \in Run!Reported
      PROVE  FaithfulReport(r)'
  BY <1>1, HistoryGrows DEF QuietIInv, FaithfulReport, Run!OfCheckedDesign
<1>2. CASE UNCHANGED <<json, csv>>
  BY <1>1, <1>2 DEF Run!Reported
<1>3. ASSUME NEW v \in Terminal, Run!RunStep(v), UNCHANGED <<vars, disturbed>>,
             NEW r \in Run!Reported'
      PROVE  FaithfulReport(r)'
  <2>1. CASE r = Run!Evidence(v) /\ rpc[v] \in {"json", "csv"}
    <3>1. /\ r.run = number[v] /\ r.identity = identity[v] /\ r.rtl = loadedRtl[v]
          /\ r.checked = checked[v] /\ r.image = executed[v]
      BY <2>1 DEF Run!Evidence
    <3>2. StandsStill(v) /\ ImageFits(v)
      BY DEF QuietIInv
    <3>3. ASSUME number[v] \notin disturbed
          PROVE  r.rtl.tag = r.identity /\ Run!OfCheckedDesign(r)
      BY <2>1, <3>1, <3>2, <3>3 DEF StandsStill, Now, Run!OfCheckedDesign, Run!Active
    <3>4. ASSUME number[v] \notin disturbed \cup overlapped
          PROVE  r.image.config = r.identity /\ r.identity \in ElfRunsOn
      BY <2>1, <3>1, <3>2, <3>4 DEF ImageFits, Fits
    <3>. QED BY <3>1, <3>3, <3>4, HistoryGrows DEF FaithfulReport, Run!OfCheckedDesign
  <2>. QED BY <1>1, <1>3, <2>1, ReportWritten
<1>. QED BY <1>2, <1>3, TurnTaken DEF workflowVars, SetupTurn, runVars

LEMMA QuietStep ==
  ASSUME SetupIInv, RunIInv, QuietIInv, [WorkflowNext]_workflowVars
  PROVE  QuietIInv'
BY StillStep, FitStep, FaithfulStep DEF RunIInv, QuietIInv

LEMMA WorkflowInductive == WorkflowSpec => []WorkflowIInv
<1>1. WorkflowInit => WorkflowIInv
  BY WorkflowInitially
<1>2. WorkflowIInv /\ [WorkflowNext]_workflowVars => WorkflowIInv'
  <2>. SUFFICES ASSUME WorkflowIInv, [WorkflowNext]_workflowVars PROVE WorkflowIInv'
    OBVIOUS
  <2>1. SetupIInv' /\ RunTypeOK' /\ FilesSorted'
    BY SetupInvariantStep, TypeStep, FilesStep DEF WorkflowIInv, RunIInv
  <2>2. RunsKnow' /\ OverlapKnown' /\ ArtifactsOwn' /\ ReportsSound'
    BY KnowsStep, OverlapStep, ArtifactsStep, ReportsStep DEF WorkflowIInv, RunIInv
  <2>3. QuietIInv'
    BY QuietStep DEF WorkflowIInv
  <2>. QED BY <2>1, <2>2, <2>3 DEF WorkflowIInv, RunIInv
<1>. QED BY <1>1, <1>2, PTL DEF WorkflowSpec

-----------------------------------------------------------------------------
(* What the reports promise.                                               *)

(* Every variable of a run keeps to its values, whatever setup does to the *)
(* files it reads and other runs to the artifacts: what it takes for a     *)
(* design is one, and what it takes for a digest is that of a design that  *)
(* resolved.                                                               *)
THEOREM RunTypeCorrect == WorkflowSpec => []RunTypeOK
<1>1. WorkflowIInv => RunTypeOK
  BY DEF WorkflowIInv, RunIInv
<1>. QED BY <1>1, WorkflowInductive, PTL

(* In any number of terminals: however setup, edits and runs interleave and*)
(* wherever they are cut off, the report of a run no other run overlapped  *)
(* is of no image that another run left at the fixed path.                 *)
THEOREM ReportsOwnImage == WorkflowSpec => []ReportFromOwnImage
<1>1. WorkflowIInv => ReportFromOwnImage
  BY DEF WorkflowIInv, RunIInv, ReportsSound, SoundReport, ReportFromOwnImage,
         Run!ReportFromOwnImage
<1>. QED BY <1>1, WorkflowInductive, PTL

(* After a success that no other run overlapped, and until a run starts,   *)
(* the JSON and the CSV are those of that run.                             *)
THEOREM SuccessWritesBoth == WorkflowSpec => []ReportsAgreeAfterSuccess
<1>1. ASSUME WorkflowIInv
      PROVE  ReportsAgreeAfterSuccess
  <2>1. \A t \in Terminal : BothReported(t)
    BY <1>1 DEF WorkflowIInv, RunIInv, ReportsSound
  <2>2. \A r \in Run!Report : Run!Intact(r)
    BY WorkflowAssumption DEF Run!Intact
  <2>. QED BY <2>1, <2>2
           DEF BothReported, ReportsAgreeAfterSuccess, Run!ReportsAgreeAfterSuccess
<1>. QED BY <1>1, WorkflowInductive, PTL

(* In any number of terminals: the RTL that a report of a run names is the *)
(* RTL that ran, if setup took no step during that run, although the parent*)
(* probes one load of the library and the child uses another.              *)
THEOREM SequentialNamesRtl == WorkflowSpec => []SequentialReportNamesRtl
<1>1. WorkflowIInv => SequentialReportNamesRtl
  BY DEF WorkflowIInv, RunIInv, QuietIInv, ReportsSound, SoundReport, FaithfulReport,
         SequentialReportNamesRtl, Run!NamesExecutedRtl, Linked
<1>. QED BY <1>1, WorkflowInductive, PTL

(* The startup code of the image of a run by itself was compiled for the   *)
(* RTL that ran it, and that RTL has every extension the ELF requires.     *)
THEOREM SequentialImageFits == WorkflowSpec => []ReportedImageFitsRtl
<1>1. WorkflowIInv => ReportedImageFitsRtl
  BY DEF WorkflowIInv, RunIInv, QuietIInv, ReportsSound, SoundReport, FaithfulReport,
         ReportedImageFitsRtl, Run!ImageFitsRtl, Linked
<1>. QED BY <1>1, WorkflowInductive, PTL

(* The evidence of a `make run` during which nothing was edited or set up  *)
(* is about the design that env-check compared with.                       *)
THEOREM SequentialReportsDesign == WorkflowSpec => []CheckedRunReportsDesign
<1>1. WorkflowIInv => CheckedRunReportsDesign
  BY DEF WorkflowIInv, QuietIInv, FaithfulReport, CheckedRunReportsDesign
<1>. QED BY <1>1, WorkflowInductive, PTL
=============================================================================
