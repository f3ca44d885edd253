--------------------------- MODULE AttentionPlan ---------------------------
(***************************************************************************)
(* From an attention op and a target to a launch plan: the selection of    *)
(* the schedule (crates/schedule), the estimate of its work                *)
(* (crates/profiler), the plan (crates/compiler) and its validation before *)
(* a run (crates/vortex-codegen).  An op is [sequence, head_dim, type]; a  *)
(* target has the facts of DeviceCapabilities, see TargetFacts.            *)
(***************************************************************************)
EXTENDS LaunchLimits, Sequences, SequencesExt

CONSTANTS
  MaxU32,         \* bound: the largest u32
  ScheduleTile,   \* [query, key, head_dim] of the one candidate
  ScheduleBlock,  \* its thread block: <<x, y>>
  DefaultShape    \* runtime shape when none is asked for: <<8, 16>>

ASSUME PlanAssumption ==
  /\ MaxU32 \in Nat \ {0}
  /\ MaxU64 = (MaxU32 + 1) * (MaxU32 + 1) - 1
  /\ ScheduleTile \in [query : Nat \ {0}, key : Nat \ {0}, head_dim : Nat \ {0}]
  /\ ScheduleBlock \in (1..MaxU32) \X (1..MaxU32)
  /\ ScheduleTile.query <= MaxU32 /\ ScheduleTile.key <= MaxU32
  /\ DefaultShape \in (Nat \ {0}) \X (Nat \ {0})

(* TargetSpec without its name.                                             *)
TargetFacts == {"backend", "xlen", "threads", "width", "local",
                "int8", "float32", "tensor", "async"}

(* checked_mul and checked_add on usize, as 64-bit numbers, under `?`.      *)
WrappingMul(a, b) == (a * b) % (MaxU64 + 1)   \* mutant: * instead of checked_mul
Mul(a, b) == IF Overflow \in {a, b} THEN Overflow ELSE CheckedMul(a, b)
Add(a, b) == IF Overflow \in {a, b} \/ a + b > MaxU64 THEN Overflow ELSE a + b

-----------------------------------------------------------------------------
(* schedule: tiles of a shape, and the candidate if a target can hold it.   *)
BlockThreads == ScheduleBlock[1] * ScheduleBlock[2]
LocalMemoryBytes == 0   \* two passes over global memory stage nothing

TileCounts(sequence, headDim) ==
  [query |-> DivCeil(sequence, ScheduleTile.query),
   key |-> DivCeil(sequence, ScheduleTile.key),
   head_dim |-> DivCeil(headDim, ScheduleTile.head_dim)]
Workgroups(sequence, headDim) ==
  Mul(TileCounts(sequence, headDim).query, TileCounts(sequence, headDim).head_dim)

CandidateFits(target) ==
  BlockThreads <= target.threads /\ LocalMemoryBytes <= target.local

SelectionError(op, target) ==
  CASE op.sequence = 0 \/ op.head_dim = 0 -> "EmptyShape"
    [] op.type # "i8" -> "UnsupportedElementType"
    [] ~CandidateFits(target) -> "NoViableCandidate"
    [] OTHER -> "none"

-----------------------------------------------------------------------------
(* profiler: what one launch of the scalar two-pass lowering executes.  An  *)
(* element is one byte.                                                     *)
Score(s, d) == Mul(Mul(s, s), d)
(* Mutant: one pass over the keys.                                          *)
OnePassMacs(s, d) == Mul(Score(s, d), d)
LoweredQkMacs(s, d) == Mul(Mul(Score(s, d), d), 2)

Estimate(s, d) ==
  [logical_macs |-> Add(Score(s, d), Score(s, d)),
   lowered_macs |-> Add(LoweredQkMacs(s, d), Score(s, d)),
   workgroups |-> Workgroups(s, d),
   threads |-> Mul(Workgroups(s, d), BlockThreads),
   bytes_read |-> Add(Mul(LoweredQkMacs(s, d), 2), Score(s, d)),
   bytes_written |-> Mul(s, d)]
EstimateOverflows(s, d) == \E f \in DOMAIN Estimate(s, d) : Estimate(s, d)[f] = Overflow

-----------------------------------------------------------------------------
(* compiler: the launch packet and the metadata that describes it.          *)
Buffers == <<"query", "key", "value", "output">>
Smallest(a, b) == IF a < b THEN a ELSE b
(* Mutant: the default runtime extent does not look at the compiled one.    *)
FixedDefault(default, compiled) == default
RuntimeDefault(default, compiled) == Smallest(default, compiled)

Grid(op) == LET tiles == TileCounts(op.sequence, op.head_dim)
            IN <<tiles.query, 1, tiles.head_dim>>
LaunchArgs(op) ==
  [i \in 1..4 |-> <<"buffer", i - 1>>]
    \o <<<<"u32", op.sequence>>, <<"u32", op.head_dim>>,
         <<"u32", ScheduleTile.query>>, <<"u32", ScheduleTile.key>>>>

Plan(op) ==
  [op |-> op,
   launch |-> [grid |-> Grid(op), block |-> ScheduleBlock \o <<1>>,
               shared |-> LocalMemoryBytes, args |-> LaunchArgs(op)],
   buffers |-> [i \in 1..4 |->
     [role |-> Buffers[i], slot |-> i - 1, type |-> op.type,
      shape |-> <<op.sequence, op.head_dim>>, stride |-> <<op.head_dim, 1>>]],
   runtime |-> [compiled |-> <<op.sequence, op.head_dim>>,
                default |-> <<RuntimeDefault(DefaultShape[1], op.sequence),
                             RuntimeDefault(DefaultShape[2], op.head_dim)>>,
                tile |-> ScheduleTile],
   metrics |-> Estimate(op.sequence, op.head_dim)]

(* compile_vortex_attention_prefill_kernel_for_target: the first error.     *)
CompileErrors(op, target) == <<
  [kind |-> "UnsupportedElementType", holds |-> op.type # "i8"],
  [kind |-> "UnsupportedShape", holds |-> op.sequence = 0 \/ op.head_dim = 0],
  [kind |-> "ScheduleSelectionFailed", holds |-> SelectionError(op, target) # "none"],
  [kind |-> "MetricsOverflow", holds |-> EstimateOverflows(op.sequence, op.head_dim)],
  [kind |-> "LaunchShapeOverflow",
   holds |-> \E n \in {op.sequence, op.head_dim, Grid(op)[1], Grid(op)[3]} : n > MaxU32]>>
FirstError(errors) ==
  IF \E i \in DOMAIN errors : errors[i].holds
  THEN errors[CHOOSE i \in DOMAIN errors :
                errors[i].holds /\ \A j \in 1..(i - 1) : ~errors[j].holds].kind
  ELSE "none"
CompileError(op, target) == FirstError(CompileErrors(op, target))

-----------------------------------------------------------------------------
(* vortex-codegen: validate_attention_prefill_i8_plan_abi.                  *)
RowMajor(shape) == <<shape[2], 1>>

ValidBuffers(plan) ==
  \A i \in 1..4 :
    plan.buffers[i] = [role |-> Buffers[i], slot |-> i - 1, type |-> plan.op.type,
                       shape |-> <<plan.op.sequence, plan.op.head_dim>>,
                       stride |-> RowMajor(<<plan.op.sequence, plan.op.head_dim>>)]
ValidRuntimeShape(plan) ==
  /\ plan.runtime.compiled = <<plan.op.sequence, plan.op.head_dim>>
  /\ \A axis \in 1..2 : plan.runtime.default[axis] \in 1..plan.runtime.compiled[axis]
  /\ plan.runtime.tile = ScheduleTile
ValidLaunchArgs(plan) ==
  /\ \A n \in {plan.op.sequence, plan.op.head_dim} : n <= MaxU32
  /\ plan.launch.args = LaunchArgs(plan.op)
ValidAbi(plan) ==
  /\ Len(plan.launch.args) = 8
  /\ ValidBuffers(plan) /\ ValidRuntimeShape(plan) /\ ValidLaunchArgs(plan)

(* KernelLaunch::workgroup_count: a product of u32 that is not checked.     *)
WorkgroupCount(grid) == (grid[1] * grid[2] * grid[3]) % (MaxU32 + 1)
=============================================================================
