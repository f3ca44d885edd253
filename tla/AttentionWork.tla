--------------------------- MODULE AttentionWork ---------------------------
(***************************************************************************)
(* The attention kernel with its work counted, against the estimate that   *)
(* the profiler makes of the runtime shape and the run's record reports    *)
(* as lowered_macs and estimated_global_bytes_read and _written.           *)
(***************************************************************************)
EXTENDS AttentionKernel

CONSTANTS MaxU32, Overflow,
          MaxLoads   \* bound: bytes loaded; more than any launch loads

Plan == INSTANCE AttentionPlan WITH
          MaxU64 <- (MaxU32 + 1) * (MaxU32 + 1) - 1,
          ScheduleTile <- [query |-> QueryTile, key |-> 1, head_dim |-> HeadDimTile],
          ScheduleBlock <- <<BlockX, QueryTile>>,
          DefaultShape <- <<Sequence, HeadDim>>

VARIABLES
  macs,    \* multiply-adds executed: of QK dot products and of values
  loads,   \* bytes loaded from the q, k and v buffers
  stores   \* bytes stored into the output buffer

workVars == <<kernelVars, macs, loads, stores>>

WorkInit == KernelInit /\ macs = 0 /\ loads = 0 /\ stores = 0

Count(m, l, s) ==
  /\ loads + l <= MaxLoads
  /\ macs' = macs + m /\ loads' = loads + l /\ stores' = stores + s

WorkStep(t) ==
  \/ DotStep(t) /\ Count(1, 2, 0)
  \/ SoftmaxUpdate(t) /\ Count(1, 1, 0)
  \/ StoreOutput(t) /\ Count(0, 0, 1)
  \/ /\ Entry(t) \/ NextDim(t) \/ LastDim(t) \/ Score0Done(t) \/ NextMaxKey(t)
        \/ MaxUpdate(t) \/ MaxDone(t) \/ NextSoftmaxKey(t) \/ SoftmaxDone(t)
     /\ Count(0, 0, 0)

WorkNext == \E t \in Thread : WorkStep(t)

WorkSpec == WorkInit /\ [][WorkNext]_workVars

(* The device keeps executing threads while one can run; which one it      *)
(* favours is up to its warp scheduler.                                    *)
FairWork == WorkSpec /\ WF_workVars(WorkNext)

-----------------------------------------------------------------------------
(* What the threads of the compiled grid have done together when the last  *)
(* one returns is what the estimate says of the runtime shape, to the MAC  *)
(* and to the byte, whatever grid and tile the shape is cut into.  There   *)
(* is no estimate, and no record, when a product overflows.                *)
EstimateIsExecuted ==
  LET estimate == Plan!Estimate(Sequence, HeadDim)
  IN AllExited /\ ~Plan!EstimateOverflows(Sequence, HeadDim) =>
       /\ macs = estimate.lowered_macs
       /\ loads = estimate.bytes_read
       /\ stores = estimate.bytes_written
=============================================================================
