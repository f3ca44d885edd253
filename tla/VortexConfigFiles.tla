-------------------------- MODULE VortexConfigFiles --------------------------
(***************************************************************************)
(* The five files that carry a resolved Vortex configuration from the      *)
(* materializer to the RTL build, to `make env-check` and to xtask.        *)
(***************************************************************************)
EXTENDS Naturals, Sequences

CONSTANTS
  Design,      \* contents of the design and upstream config files
  Identity,    \* digests of resolved define sets
  Resolve,     \* [Design -> Identity \cup {Rejected}]: gen_config.py + validation
  Rejected,    \* the requested subset differs from the resolved one
  Tool,        \* identities of Verilator, Python, g++ and the fixed flags
  Absent       \* no such file

ASSUME ConfigAssumption ==
  /\ Resolve \in [Design -> Identity \cup {Rejected}]
  /\ Rejected \notin Identity
  /\ Absent \notin Identity \cup Design

(* The five outputs in the order of the dictionary render_outputs returns. *)
OutputOrder == <<"manifest", "sha256", "tag", "vh", "h">>
OutputFile == {OutputOrder[i] : i \in 1..5}

(* The manifest records the inputs themselves, the other four only the     *)
(* digest of what they resolve to (or its first sixteen digits).           *)
Rendering(file, d) == IF file = "manifest" THEN d ELSE Resolve[d]

(* What an RTLSim object or library was compiled from: the tag behind CSR  *)
(* 0xFC5, the configuration of its RTL, and the tools.                     *)
BuildId == [tag : Identity, config : Identity, tool : Tool]
=============================================================================
