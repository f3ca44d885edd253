------------------------- MODULE MCEvidenceWorkflow -------------------------
(* Two designs: one the toolchain and the target fit, and one that resolves *)
(* to a configuration without an extension the ELF requires.  Two terminals *)
(* for runs.                                                                *)
EXTENDS EvidenceWorkflow

CONSTANTS base, noF, idBase, idNoF, t1, t2

MCResolve == [d \in Design |-> IF d = base THEN idBase ELSE idNoF]

(* Bounds: one run with an interruption of setup and an edit, two runs one  *)
(* after the other with either of them, each step of setup before, between  *)
(* or during the runs; or three runs, some of which overlap, over what one  *)
(* setup left.  A run starts in the second terminal only beside one in the  *)
(* first: an idle terminal is like another.                                 *)
AfterSetup == pc = "done" /\ design = base /\ stops = 0 /\ edits = 0 /\ disturbed = {}
SecondBeside == number'[t2] # number[t2] => Run!Active(t1)
MCNext ==
  \/ SetupTurn /\ overlapped = {} /\ runs + stops' + edits' <= MaxRuns
  \/ RunTurn /\ SecondBeside
             /\ \/ overlapped' # {} /\ AfterSetup
                \/ overlapped' = {} /\ runs' < MaxRuns
                                   /\ runs' + stops + edits <= MaxRuns
MCSpec == WorkflowInit /\ [][MCNext]_workflowVars
=============================================================================
