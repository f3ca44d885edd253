-------------------------- MODULE EvidenceWorkflow --------------------------
(***************************************************************************)
(* Setup and attention runs on one working tree: the files setup publishes *)
(* and the library it builds are what a run reads.  The Makefile runs its  *)
(* own targets one after the other (.NOTPARALLEL), and so does a user with *)
(* one terminal; nothing in the code keeps two terminals apart.  Here one  *)
(* terminal has setup and the edits, and runs come from any number of      *)
(* others; two histories tell which run was alone.                         *)
(***************************************************************************)
EXTENDS VortexSetup

CONSTANTS Terminal, ElfRunsOn, TargetMatches, Torn, MaxRuns

VARIABLES
  runs, overlapped, object, elf, vxbin, json, csv,
  number, rpc, checked, seen, identity, kernel, observed, loadedRtl, executed,
  outcome,
  disturbed    \* history: the runs during which setup or an edit took a step

Run == INSTANCE AttentionRun WITH rtl <- LibraryBuild, loaded <- loadedRtl

ASSUME WorkflowAssumption ==
  /\ ElfRunsOn \subseteq Identity /\ TargetMatches \subseteq Identity
  /\ MaxRuns \in Nat
  /\ Torn # Absent
  /\ {Absent, Torn} \cap (Run!Image \cup Run!Report \cup 1..MaxRuns) = {}

runVars == <<runs, overlapped, object, elf, vxbin, json, csv, number, rpc, checked,
             seen, identity, kernel, observed, loadedRtl, executed, outcome>>
workflowVars == <<vars, runVars, disturbed>>

WorkflowInit == SetupInit /\ Run!RunInit /\ disturbed = {}

SetupTurn ==
  /\ SetupNext /\ UNCHANGED runVars
  /\ disturbed' = disturbed \cup {number[t] : t \in {u \in Terminal : Run!Active(u)}}
RunTurn == Run!RunNext /\ UNCHANGED <<vars, disturbed>>

WorkflowNext == SetupTurn \/ RunTurn
WorkflowSpec == WorkflowInit /\ [][WorkflowNext]_workflowVars

-----------------------------------------------------------------------------
(* Properties: what a report promises, and of which runs.                  *)
RunTypeOK == Run!RunTypeOK /\ disturbed \subseteq 1..MaxRuns

(* Whatever setup and edits do meanwhile, a report of a run no other run   *)
(* overlapped is of that run's own kernel image: artifacts and reports are *)
(* at fixed paths without a lock.                                          *)
ReportFromOwnImage == Run!ReportFromOwnImage

(* Whatever setup and edits do meanwhile, both reports of a success that no*)
(* other run overlapped are that run's.                                    *)
ReportsAgreeAfterSuccess == Run!ReportsAgreeAfterSuccess

(* The design env-check found current is the design reported, though setup *)
(* may replace the files as soon as the run is over.                       *)
CheckedRunReportsDesign ==
  \A r \in Run!Reported : r.run \notin disturbed => Run!OfCheckedDesign(r)

(* The image that ran fits the RTL that ran it, if the run was by itself:  *)
(* setup replaces the RTL, another run the image.                          *)
ReportedImageFitsRtl ==
  \A r \in Run!Reported : r.run \notin disturbed \cup overlapped => Run!ImageFitsRtl(r)

(* Without a step of setup during the run the RTL named is the RTL that    *)
(* ran, even if other runs overlapped it: they share no backend.           *)
SequentialReportNamesRtl ==
  \A r \in Run!Reported : r.run \notin disturbed => Run!NamesExecutedRtl(r)

(* hardware/vortex/README.md: "performance evidence only when the realized *)
(* and observed tags match exactly", however the run was started.          *)
ReportNamesExecutedRtl == \A r \in Run!Reported : Run!NamesExecutedRtl(r)
=============================================================================
