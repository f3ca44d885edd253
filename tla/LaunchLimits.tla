---------------------------- MODULE LaunchLimits ----------------------------
(***************************************************************************)
(* Which launches the backend lets through to a device: the arithmetic of  *)
(* validate_launch_dims_against_caps in crates/vortex-backend, checked     *)
(* u64 multiplications included.                                           *)
(***************************************************************************)
EXTENDS Integers

CONSTANTS MaxU64,    \* bound: the largest u64
          Overflow   \* None of a checked multiplication

ASSUME LimitsAssumption == MaxU64 \in Nat /\ Overflow \notin Int

(* A launch's extents and shared bytes are u32.  A device's limits are u64:*)
(* threads per warp, warps per core and bytes of local memory per core.    *)
Triple == Nat \X Nat \X Nat
LaunchShape == [grid : Triple, block : Triple, shared : Nat]
DeviceLimits == [threads : Nat, warps : Nat, local : Nat]

CheckedMul(a, b) == IF a * b <= MaxU64 THEN a * b ELSE Overflow

(* product_u32_as_u64 *)
CheckedProduct(d) ==
  IF CheckedMul(d[1], d[2]) = Overflow THEN Overflow
  ELSE CheckedMul(d[1] * d[2], d[3])

DivCeil(a, b) == (a + b - 1) \div b

Nonzero(d) == d[1] # 0 /\ d[2] # 0 /\ d[3] # 0

WarpsPerBlock(dims, caps) == DivCeil(CheckedProduct(dims.block), caps.threads)

(* Mutant: the block's own warps are forgotten, as if one block had the    *)
(* core to itself.                                                         *)
SharedFitsOneBlock(dims, caps) == dims.shared <= caps.local
SharedFits(dims, caps) ==
  /\ WarpsPerBlock(dims, caps) \in 1..caps.warps
  /\ dims.shared <= caps.local \div (caps.warps \div WarpsPerBlock(dims, caps))

LaunchAccepted(dims, caps) ==
  /\ Nonzero(dims.grid) /\ Nonzero(dims.block)
  /\ caps.threads # 0 /\ caps.warps # 0
  /\ CheckedProduct(dims.block) # Overflow
  /\ CheckedMul(caps.threads, caps.warps) # Overflow
  /\ CheckedProduct(dims.block) <= caps.threads * caps.warps
  /\ dims.shared # 0 => SharedFits(dims, caps)

-----------------------------------------------------------------------------
(* What acceptance is for: the block's threads fit in the warps of one     *)
(* core, and however many such blocks are resident on a core together,     *)
(* their shared memory fits in its local memory.                           *)
LaunchFits(dims, caps) ==
  LET threads == dims.block[1] * dims.block[2] * dims.block[3]
  IN \E w \in 1..caps.warps :
       /\ threads \in ((w - 1) * caps.threads + 1)..(w * caps.threads)
       /\ \A resident \in 1..caps.warps :
            resident * w <= caps.warps =>
              resident * dims.shared <= caps.local
=============================================================================
