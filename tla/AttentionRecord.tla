-------------------------- MODULE AttentionRecord --------------------------
(***************************************************************************)
(* What one attention run does with its request, its plan and its device,  *)
(* up to the experiment result that the parent process makes of the        *)
(* child's output.  Building the kernel and the identity probe are in      *)
(* AttentionRun.  Both processes read the environment; nothing changes it  *)
(* in between, so each of its variables is read by one action here.        *)
(*                                                                         *)
(* xtask compiles one op for one target, both constants of the code; here  *)
(* they are any op and any target, as the libraries take them.             *)
(***************************************************************************)
EXTENDS AttentionPlan, FiniteSets

CONSTANTS
  Ops, Targets,   \* [sequence, head_dim, type]; facts of a TargetSpec
  Devices,        \* [threads, warps, local], u64 each, and [xlen] of the
                  \* Vortex configuration that is in force
  Settings,       \* contents of an extent variable: numbers, Unset, Garbage
  Unset, Garbage, Absent

(* VortexConfig::from_env refuses an XLEN that is neither 32 nor 64.       *)
ASSUME RecordAssumption ==
  /\ Ops \subseteq [sequence : Nat, head_dim : Nat, type : STRING]
  /\ Devices \subseteq [threads : Nat, warps : Nat, local : Nat, xlen : {32, 64}]

VARIABLES
  op, target, device,     \* as above
  asked,                  \* the two extent variables
  scalar,                 \* MANDREL_ATTENTION_RUNTIME_SCALAR_LAUNCH
  pc, failure,            \* the next step; what ended the run, if it failed
  spec, plan, input,      \* [sequence, head_dim]; Plan; [sequence, head_dim]
  contract,               \* TargetContract: the requested and observed facts
  launched,               \* the launch the device executed
  mismatches,             \* output elements that differ from the host's
  workload,               \* AttentionRuntimeWorkload
  stdout,                 \* what the child printed: perf, compare, trace
  result                  \* ExperimentResult

request == <<op, target, device, asked, scalar>>
recordVars == <<request, pc, failure, spec, plan, input, contract, launched,
                mismatches, workload, stdout, result>>

RecordInit ==
  /\ op \in Ops /\ target \in Targets /\ device \in Devices
  /\ asked \in Settings \X Settings /\ scalar \in BOOLEAN
  /\ pc = "spec" /\ failure = "none"
  /\ spec = Absent /\ plan = Absent /\ input = Absent /\ contract = Absent
  /\ launched = Absent /\ mismatches = Absent /\ workload = Absent
  /\ stdout = Absent /\ result = Absent

Goto(step) == pc' = step /\ UNCHANGED <<request, failure>>
Fail(reason) == pc' = "failed" /\ failure' = reason /\ UNCHANGED request

(* attention_runtime_extent_from_env.  A default is not checked.           *)
ExtentInRange(value, max) == value \in 1..max
Extents(default, max) ==
  [axis \in 1..2 |-> IF asked[axis] = Unset THEN default[axis] ELSE asked[axis]]
ExtentsAllowed(max) ==
  \A axis \in 1..2 : asked[axis] = Unset \/ ExtentInRange(asked[axis], max[axis])

ReadSpec ==
  /\ pc = "spec"
  /\ LET compiled == <<op.sequence, op.head_dim>>
     IN IF ExtentsAllowed(compiled)
        THEN Goto("compile") /\ spec' = Extents(DefaultShape, compiled)
        ELSE Fail("extent") /\ UNCHANGED spec
  /\ UNCHANGED <<plan, input, contract, launched, mismatches, workload, stdout, result>>

CompilePlan ==
  /\ pc = "compile"
  /\ IF CompileError(op, target) = "none"
     THEN Goto("abi") /\ plan' = Plan(op)
     ELSE Fail(CompileError(op, target)) /\ UNCHANGED plan
  /\ UNCHANGED <<spec, input, contract, launched, mismatches, workload, stdout, result>>

ValidatePlan ==
  /\ pc = "abi"
  /\ IF ValidAbi(plan) THEN Goto("input") ELSE Fail("abi")
  /\ UNCHANGED <<spec, plan, input, contract, launched, mismatches, workload, stdout, result>>

(* The input takes its extents from the environment again, with the plan's *)
(* defaults and limits, and must come out as the spec has it.              *)
BuildInput ==
  /\ pc = "input"
  /\ LET shape == Extents(plan.runtime.default, plan.runtime.compiled)
     IN IF /\ ExtentsAllowed(plan.runtime.compiled)
           /\ CheckedMul(shape[1], shape[2]) # Overflow
           /\ shape = spec
        THEN Goto("open") /\ input' = shape
        ELSE Fail("input") /\ UNCHANGED input
  /\ UNCHANGED <<spec, plan, contract, launched, mismatches, workload, stdout, result>>

-----------------------------------------------------------------------------
(* observed_vortex_rtl_target: three facts are the device's, xlen is the   *)
(* configuration's and the others are TargetSpec::vortex_rtl_default's.    *)
DefaultFacts == [backend |-> "vortex_rtl", int8 |-> TRUE, float32 |-> TRUE,
                 tensor |-> FALSE, async |-> FALSE]
ObservedFacts ==
  [fact \in TargetFacts |->
    CASE fact = "threads" -> CheckedMul(device.threads, device.warps)
      [] fact = "width" -> device.threads
      [] fact = "local" -> device.local
      [] fact = "xlen" -> device.xlen
      [] OTHER -> DefaultFacts[fact]]
Observable ==
  /\ CheckedMul(device.threads, device.warps) # Overflow
  /\ \A fact \in {"threads", "width", "local"} : ObservedFacts[fact] <= MaxU32

(* TargetCompatibility::exact, a bit for each fact.                        *)
NumbersMismatched(requested, observed) ==   \* mutant: the operations are not compared
  {fact \in {"backend", "xlen", "threads", "width", "local"} :
     requested[fact] # observed[fact]}
Mismatched(requested, observed) ==
  {fact \in TargetFacts : requested[fact] # observed[fact]}
Contract(requested, observed) ==
  [requested |-> requested, observed |-> observed,
   mismatched |-> Mismatched(requested, observed)]

OpenDevice ==
  /\ pc = "open"
  /\ \/ Fail("runtime") /\ UNCHANGED contract
     \/ /\ Observable
        /\ contract' = Contract(target, ObservedFacts)
        /\ IF Mismatched(target, ObservedFacts) = {}
           THEN Goto("launch") ELSE Fail("unsupported_target")
     \/ ~Observable /\ Fail("target_overflow") /\ UNCHANGED contract
  /\ UNCHANGED <<spec, plan, input, launched, mismatches, workload, stdout, result>>

(* KernelRequirements::scalar_attention_prefill_i8 for the plan's block,   *)
(* and RequirementCompatibility::evaluate.                                 *)
ScalarAttentionRequirements ==
  [xlen |-> 32, threads |-> BlockThreads, local |-> 0,
   operations |-> {"int8", "float32"}]
Unsatisfied(requirements, facts) ==
  {fact \in {"xlen", "threads", "local"} : facts[fact] < requirements[fact]}
    \cup {operation \in requirements.operations : ~facts[operation]}

(* MANDREL_ATTENTION_RUNTIME_SCALAR_LAUNCH keeps the kernel and its args.   *)
ScalarDims == [grid |-> <<1, 1, 1>>, block |-> <<1, 1, 1>>, shared |-> 0]
RuntimeDims ==
  IF scalar THEN ScalarDims
  ELSE [grid |-> plan.launch.grid, block |-> plan.launch.block,
        shared |-> plan.launch.shared]

Elements == input[1] * input[2]

(* run_attention_prefill_i8; which outputs come back is up to the device.  *)
Launch ==
  /\ pc = "launch"
  /\ \/ Fail("runtime") /\ UNCHANGED <<launched, mismatches>>
     \/ IF LaunchAccepted(RuntimeDims, device)
        THEN /\ launched' = RuntimeDims
             /\ mismatches' \in {0, 1, Elements}
             /\ Goto("describe")
        ELSE Fail("launch") /\ UNCHANGED <<launched, mismatches>>
  /\ UNCHANGED <<spec, plan, input, contract, workload, stdout, result>>

(* AttentionRuntimeWorkload::from_runtime, for the shape that ran.         *)
Threads(dims) == Mul(CheckedProduct(dims.grid), CheckedProduct(dims.block))
Workload ==
  [compiled |-> plan.runtime.compiled, shape |-> input,
   estimate |-> Estimate(input[1], input[2]),
   logical_macs |-> Mul(Score(input[1], input[2]), 2),
   threads |-> Threads(launched), elements |-> Elements,
   contract |-> contract]
WorkloadOverflows ==
  \/ Overflow \in {Workload.threads, Workload.logical_macs, Add(Elements, Elements)}
  \/ EstimateOverflows(input[1], input[2])

Describe ==
  /\ pc = "describe"
  /\ IF WorkloadOverflows THEN Fail("workload") /\ UNCHANGED workload
                          ELSE Goto("compare") /\ workload' = Workload
  /\ UNCHANGED <<spec, plan, input, contract, launched, mismatches, stdout, result>>

-----------------------------------------------------------------------------
(* The PERF lines the driver prints when the device closes: none, the      *)
(* totals, lines of single cores before the totals, or an unreadable       *)
(* number.  A core's line starts "core0: instrs=", which is no field.      *)
Totals == [instrs |-> "total", cycles |-> "total"]
OfOneCore == [instrs |-> Absent, cycles |-> "core"]
PerfOutput == {<<>>, <<Totals>>, <<OfOneCore, Totals>>,
               <<[instrs |-> "total", cycles |-> Garbage]>>}

ToleratesOne(n) == n > 1       \* mutant
Differs(n) == n > 0

(* compare_attention_outputs, the trace line, and the end of the process.  *)
CompareAndPrint ==
  /\ pc = "compare"
  /\ \/ Differs(mismatches) /\ Fail("mismatch") /\ UNCHANGED stdout
     \/ ~Differs(mismatches) /\ Fail("exit") /\ UNCHANGED stdout
     \/ /\ ~Differs(mismatches)
        /\ \E perf \in PerfOutput :
             stdout' = [perf |-> perf,
                        compare |-> [elements |-> Elements, mismatches |-> mismatches],
                        trace |-> [launch |-> launched, workload |-> workload,
                                   to_device |-> 3 * Elements, from_device |-> Elements]]
        /\ Goto("collect")
  /\ UNCHANGED <<spec, plan, input, contract, launched, mismatches, workload, result>>

(* The first PERF line counts; without both numbers there are no counters. *)
NoCounters == [instrs |-> Absent, cycles |-> Absent]
WhatIsThere(line) == line      \* mutant: a missing number is left out
ParsePerf(line) ==
  IF {line.instrs, line.cycles} \cap {Absent, Garbage} = {} THEN line ELSE NoCounters
CountersOf(perf) == IF perf = <<>> THEN NoCounters ELSE ParsePerf(Head(perf))

Status(contracted, correct) ==
  CASE contracted.mismatched # {} -> "Unsupported"
    [] correct.mismatches = 0 -> "Succeeded"
    [] OTHER -> "Failed"

(* events_from_runtime_trace_summary, and the check at the end.            *)
Events(trace, counters, correct) ==
  (IF trace.to_device # 0 THEN <<<<"to_device", trace.to_device>>>> ELSE <<>>)
    \o <<<<"launch", trace.launch>>, <<"sync", "kernel">>>>
    \o (IF trace.from_device # 0 THEN <<<<"from_device", trace.from_device>>>> ELSE <<>>)
    \o (IF counters # NoCounters THEN <<<<"counters", counters>>>> ELSE <<>>)
    \o <<<<"check", correct>>>>

(* The contract is judged again from the facts in the trace line.          *)
TracedContract(traced) == Contract(traced.contract.requested, traced.contract.observed)

MakeResult ==
  LET traced == stdout.trace.workload
      again == TracedContract(traced)
      counters == CountersOf(stdout.perf)
  IN [shape |-> traced.shape, contract |-> again,
      status |-> Status(again, stdout.compare), counters |-> counters,
      events |-> Events(stdout.trace, counters, stdout.compare),
      transferred |-> stdout.trace.to_device + stdout.trace.from_device]

Collect ==
  /\ pc = "collect"
  /\ LET traced == stdout.trace.workload
     IN IF /\ traced.shape = spec /\ traced.contract.requested = target
           /\ TracedContract(traced) = traced.contract
        THEN Goto("done") /\ result' = MakeResult
        ELSE Fail("record") /\ UNCHANGED result
  /\ UNCHANGED <<spec, plan, input, contract, launched, mismatches, workload, stdout>>

RecordNext ==
  \/ ReadSpec \/ CompilePlan \/ ValidatePlan \/ BuildInput \/ OpenDevice
  \/ Launch \/ Describe \/ CompareAndPrint \/ Collect

RecordSpec == RecordInit /\ [][RecordNext]_recordVars

-----------------------------------------------------------------------------
(* Properties.                                                             *)

(* KernelLaunch::workgroup_count multiplies u32 without a check: it is     *)
(* exact for every plan, because the estimate of the work did not overflow.*)
WorkgroupCountExact ==
  plan # Absent => WorkgroupCount(plan.launch.grid) = plan.metrics.workgroups

(* A plan the compiler makes is one the code generator takes; what fits    *)
(* the requested target fits the device, once the contract held: the       *)
(* backend never refuses the launch, and no count about the shape that ran *)
(* overflows after the device has done the work.                           *)
PlannedRunGoesThrough == failure \notin {"abi", "launch", "workload", "record"}

(* "A schedule is legal only if its KernelRequirements are satisfied by    *)
(* the selected target" (docs/codesign-architecture.md).  Nothing in the   *)
(* program evaluates them: the scheduler looks at threads and local memory *)
(* only, and the exact contract has to make up for the rest.               *)
LaunchMeetsRequirements ==
  launched # Absent => Unsatisfied(ScalarAttentionRequirements, target) = {}

(* A result says what this device did: its facts, the shape and dims that  *)
(* ran, the bytes moved, and an output that was equal to the host's.       *)
ResultDescribesRun ==
  result # Absent =>
    /\ result.status = "Succeeded" /\ mismatches = 0
    /\ result.contract.observed = ObservedFacts /\ result.contract.requested = target
    /\ result.shape = input /\ <<"launch", launched>> \in Range(result.events)
    /\ result.transferred = 4 * input[1] * input[2]

(* Counters are the whole device's or none: never one core's, never half.  *)
CountersOfWholeDevice == result # Absent => result.counters \in {NoCounters, Totals}
=============================================================================
