-------------------------- MODULE MCPinnedToolchain --------------------------
(* Two revisions of each project.  Moving the Verilator pin moves its      *)
(* version too.  Both Vortex revisions honour one design, the first alone  *)
(* another.  The two revisions of Verilator, and of LLVM, can trade names, *)
(* so a history that starts from the one stands for both.                  *)
EXTENDS PinnedToolchain

CONSTANTS r1, r2, d1, d2

MCVersion == [r \in {r1, r2} |-> IF r = r1 THEN "5.048" ELSE "5.050"]
MCFirstLock == {l \in [Project -> {r1, r2}] : l["verilator"] = r1 /\ l["llvm"] = r1}
MCHonoured == {<<d1, r1>>, <<d1, r2>>, <<d2, r1>>}
==============================================================================
