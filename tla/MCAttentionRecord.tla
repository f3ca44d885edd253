------------------------- MODULE MCAttentionRecord -------------------------
(* u32 and u64 of 5 and 10 bits.  Shapes around the tile, one whose work    *)
(* does not fit u64, extents at and past u32; targets below, at and above   *)
(* what the block needs; devices that make each of them up, one with more   *)
(* local memory than u32 holds and one whose thread count overflows u64.    *)
EXTENDS AttentionRecord

MCTile == [query |-> 2, key |-> 1, head_dim |-> 2]
MCBlock == <<2, 2>>
MCDefault == <<2, 3>>

MCOps == [sequence : {0, 1, 2, 3, 5, 31, 32}, head_dim : {0, 1, 3, 5, 31}, type : {"i8"}]
           \cup {[sequence |-> 2, head_dim |-> 3, type |-> "f32"]}

MCTarget(threads, width, xlen) ==
  DefaultFacts @@ [threads |-> threads, width |-> width, local |-> 4, xlen |-> xlen]
MCTargets == {MCTarget(2, 2, 64), MCTarget(4, 2, 64), MCTarget(6, 3, 64), MCTarget(4, 2, 32),
              [MCTarget(4, 2, 64) EXCEPT !.int8 = FALSE]}

MCDevice(threads, warps, local, xlen) ==
  [threads |-> threads, warps |-> warps, local |-> local, xlen |-> xlen]
MCDevices == {MCDevice(t, w, 4, 64) : t \in {2, 3}, w \in {1, 2}}
  \cup {MCDevice(2, 2, 4, 32), MCDevice(2, 2, 40, 64), MCDevice(64, 64, 4, 64)}

MCSettings == {Unset, Garbage, 0, 1, 3, 32}
=============================================================================
