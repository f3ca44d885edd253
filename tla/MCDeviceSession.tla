--------------------------- MODULE MCDeviceSession ---------------------------
(* A device of 2 warps of 2 threads with 4 bytes of local memory.  Launches:*)
(* blocks of one warp, two of which share the local memory exactly; the     *)
(* same with a byte more; and a block whose thread count exceeds MaxU64.    *)
EXTENDS DeviceSession, TLC

MCCaps == [threads |-> 2, warps |-> 2, local |-> 4]

Launch(block, shared) == [grid |-> <<2, 1, 1>>, block |-> block, shared |-> shared]
MCDims == {Launch(<<2, 1, 1>>, 2), Launch(<<2, 1, 1>>, 3), Launch(<<4, 4, 4>>, 0)}

Interchangeable == Permutations(Address) \cup Permutations(Image)
==============================================================================
