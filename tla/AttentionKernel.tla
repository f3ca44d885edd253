-------------------------- MODULE AttentionKernel --------------------------
(***************************************************************************)
(* The generated attention_prefill_i8 kernel on its launch grid: every     *)
(* thread walks the control-flow graph that attention_mlir.rs emits, in    *)
(* any interleaving with the others, and stores into one output matrix     *)
(* that the host compares exactly with reference_attention_prefill_i8.     *)
(*                                                                         *)
(* A dot loop's head and body are one action; the registers that a block's *)
(* phis select are variables per thread.  A float sum is the sequence of   *)
(* its addends in the order of the additions, and the stored i8 is the     *)
(* pair of sums that is divided, clamped and truncated: two computations   *)
(* that agree here agree whatever exp and the additions round to, as long  *)
(* as host and device round alike.  A score is its exact integer: with     *)
(* head_dim at most 64 every dot product is below 2^24.  No index comes    *)
(* near 2^32 (the compiled shape is 64x64), so address arithmetic is exact.*)
(***************************************************************************)
EXTENDS Integers, Sequences

CONSTANTS
  CompiledSequence, CompiledHeadDim,  \* the shape the launch grid is for
  Sequence, HeadDim,                  \* the runtime shape in the kernel args
  QueryTile, HeadDimTile,             \* the tile; a workgroup has QueryTile rows
  BlockX,                             \* of BlockX threads each
  ScalarLaunch,                       \* MANDREL_ATTENTION_RUNTIME_SCALAR_LAUNCH
  Q, K, V,                            \* the input buffers, by linear index
  Dot                                 \* partial dot products, see DotAssumption

CeilDiv(n, d) == (n + d - 1) \div d

(* The launch: the compiled grid and block, or one single thread.          *)
GridX == IF ScalarLaunch THEN 1 ELSE CeilDiv(CompiledSequence, QueryTile)
GridZ == IF ScalarLaunch THEN 1 ELSE CeilDiv(CompiledHeadDim, HeadDimTile)
BlockDimX == IF ScalarLaunch THEN 1 ELSE BlockX
BlockDimY == IF ScalarLaunch THEN 1 ELSE QueryTile

Row == 0..Sequence-1
Col == 0..HeadDim-1
Index(row, col) == row * HeadDim + col
Element == 0..Sequence*HeadDim-1

ASSUME ShapeAssumption ==
  /\ CompiledSequence \in Nat \ {0} /\ Sequence \in 1..CompiledSequence
  /\ CompiledHeadDim \in Nat \ {0} /\ HeadDim \in 1..CompiledHeadDim
  /\ QueryTile \in Nat \ {0} /\ HeadDimTile \in Nat \ {0} /\ BlockX \in Nat \ {0}
  /\ ScalarLaunch \in BOOLEAN

ASSUME InputAssumption ==
  Q \in [Element -> Int] /\ K \in [Element -> Int] /\ V \in [Element -> Int]

(* Dot[q][k][n]: qk_dot_i32 of the host after n of its iterations.         *)
ASSUME DotAssumption ==
  /\ Dot \in [Row -> [Row -> [0..HeadDim -> Int]]]
  /\ \A q, k \in Row :
       /\ Dot[q][k][0] = 0
       /\ \A n \in Col :
            Dot[q][k][n + 1] = Dot[q][k][n] + Q[Index(q, n)] * K[Index(k, n)]

VARIABLES
  at,        \* the CFG block a thread executes next
  dim,       \* %dim
  key,       \* %max_key or %softmax_key; 0 in the score0 loop
  depth,     \* %..._depth of the dot loop the thread is in
  dot,       \* %..._dot
  maxScore,  \* %max_score
  denom,     \* %denom: the sequence of its addends
  numer,     \* %numer
  out        \* the output buffer: who stored what

kernelVars == <<at, dim, key, depth, dot, maxScore, denom, numer, out>>

Thread == [x : 0..GridX-1, z : 0..GridZ-1, tx : 0..BlockDimX-1, ty : 0..BlockDimY-1]

Unwritten == [by |-> "none"]

QueryUntiled(t) == t.x + t.ty              \* mutant: base not scaled by the tile
QueryWrongAxis(t) == t.x * QueryTile + t.tx  \* mutant: thread id of the wrong axis
Query(t) == t.x * QueryTile + t.ty
DimStart(t) == t.z * HeadDimTile + t.tx
DimTileEnd(t) == t.z * HeadDimTile + HeadDimTile

QueryPastEnd(t) == Query(t) > Sequence     \* mutant: off by one
QueryOob(t) == Query(t) >= Sequence
InTileOnly(t) == dim[t] < DimTileEnd(t)    \* mutant: the ragged edge is forgotten
HasDim(t) == dim[t] < HeadDim /\ dim[t] < DimTileEnd(t)
DimNext(t) == dim[t] + BlockDimX
SecondNextKey(t) == key[t] + 2             \* mutant: a key is skipped
KeyStuck(t) == key[t]                      \* mutant: the phi takes the old value
KeyNext(t) == key[t] + 1

Smaller(a, b) == a < b                     \* mutant: the predicate turned round
Larger(a, b) == a > b
CarriedSum(old) == old                     \* mutant: the phi's 0.0 edge is lost
InitialSum(old) == <<>>

DotLoop == {"score0_dot_loop", "max_dot_loop", "softmax_dot_loop"}
Label == DotLoop \cup {"entry", "dim_loop", "max_key_loop", "softmax_key_loop",
                       "store_output", "exit"}

-----------------------------------------------------------------------------
KernelInit ==
  /\ at = [t \in Thread |-> "entry"]
  /\ dim = [t \in Thread |-> 0] /\ key = [t \in Thread |-> 0]
  /\ depth = [t \in Thread |-> 0] /\ dot = [t \in Thread |-> 0]
  /\ maxScore = [t \in Thread |-> 0]
  /\ denom = [t \in Thread |-> <<>>] /\ numer = [t \in Thread |-> <<>>]
  /\ out = [i \in Element |-> Unwritten]

Goto(t, label) == at' = [at EXCEPT ![t] = label]

(* Entering a dot loop: its phis start depth and dot at zero.              *)
StartDot(t, label) ==
  /\ Goto(t, label)
  /\ depth' = [depth EXCEPT ![t] = 0] /\ dot' = [dot EXCEPT ![t] = 0]

(* Threads past the last query row do nothing.                             *)
Entry(t) ==
  /\ at[t] = "entry"
  /\ Goto(t, IF QueryOob(t) THEN "exit" ELSE "dim_loop")
  /\ dim' = [dim EXCEPT ![t] = DimStart(t)]
  /\ UNCHANGED <<key, depth, dot, maxScore, denom, numer, out>>

(* One output cell per iteration, inside the matrix and inside the tile.   *)
NextDim(t) ==
  /\ at[t] = "dim_loop"
  /\ HasDim(t)
  /\ StartDot(t, "score0_dot_loop")
  /\ key' = [key EXCEPT ![t] = 0]
  /\ UNCHANGED <<dim, maxScore, denom, numer, out>>

LastDim(t) ==
  /\ at[t] = "dim_loop"
  /\ ~HasDim(t)
  /\ Goto(t, "exit")
  /\ UNCHANGED <<dim, key, depth, dot, maxScore, denom, numer, out>>

DotStep(t) ==
  /\ at[t] \in DotLoop /\ depth[t] < HeadDim
  /\ dot' = [dot EXCEPT ![t] = dot[t] + Q[Index(Query(t), depth[t])]
                                        * K[Index(key[t], depth[t])]]
  /\ depth' = [depth EXCEPT ![t] = depth[t] + 1]
  /\ UNCHANGED <<at, dim, key, maxScore, denom, numer, out>>

DotDone(t, label) == at[t] = label /\ depth[t] >= HeadDim

(* The first pass finds the largest score, from the score of key 0 on.     *)
Score0Done(t) ==
  /\ DotDone(t, "score0_dot_loop")
  /\ maxScore' = [maxScore EXCEPT ![t] = dot[t]]
  /\ key' = [key EXCEPT ![t] = 1]
  /\ Goto(t, "max_key_loop")
  /\ UNCHANGED <<dim, depth, dot, denom, numer, out>>

NextMaxKey(t) ==
  /\ at[t] = "max_key_loop" /\ key[t] < Sequence
  /\ StartDot(t, "max_dot_loop")
  /\ UNCHANGED <<dim, key, maxScore, denom, numer, out>>

MaxUpdate(t) ==
  /\ DotDone(t, "max_dot_loop")
  /\ maxScore' = [maxScore EXCEPT ![t] = IF Larger(dot[t], @) THEN dot[t] ELSE @]
  /\ key' = [key EXCEPT ![t] = KeyNext(t)]
  /\ Goto(t, "max_key_loop")
  /\ UNCHANGED <<dim, depth, dot, denom, numer, out>>

(* The second pass sums the weights and the weighted values.               *)
MaxDone(t) ==
  /\ at[t] = "max_key_loop" /\ key[t] >= Sequence
  /\ key' = [key EXCEPT ![t] = 0]
  /\ denom' = [denom EXCEPT ![t] = InitialSum(@)]
  /\ numer' = [numer EXCEPT ![t] = InitialSum(@)]
  /\ Goto(t, "softmax_key_loop")
  /\ UNCHANGED <<dim, depth, dot, maxScore, out>>

NextSoftmaxKey(t) ==
  /\ at[t] = "softmax_key_loop" /\ key[t] < Sequence
  /\ StartDot(t, "softmax_dot_loop")
  /\ UNCHANGED <<dim, key, maxScore, denom, numer, out>>

(* The addends: exp(score - max), and that times a value.                  *)
Weight(score, max) == score - max
WeightedValue(score, max, v) == <<score - max, v>>

SoftmaxUpdate(t) ==
  /\ DotDone(t, "softmax_dot_loop")
  /\ denom' = [denom EXCEPT ![t] = Append(@, Weight(dot[t], maxScore[t]))]
  /\ numer' = [numer EXCEPT ![t] =
       Append(@, WeightedValue(dot[t], maxScore[t], V[Index(key[t], dim[t])]))]
  /\ key' = [key EXCEPT ![t] = KeyNext(t)]
  /\ Goto(t, "softmax_key_loop")
  /\ UNCHANGED <<dim, depth, dot, maxScore, out>>

SoftmaxDone(t) ==
  /\ at[t] = "softmax_key_loop" /\ key[t] >= Sequence
  /\ Goto(t, "store_output")
  /\ UNCHANGED <<dim, key, depth, dot, maxScore, denom, numer, out>>

Quotient(n, d) == [numer |-> n, denom |-> d]

StoreOutput(t) ==
  /\ at[t] = "store_output"
  /\ out' = [out EXCEPT ![Index(Query(t), dim[t])] =
               [by |-> t, value |-> Quotient(numer[t], denom[t])]]
  /\ dim' = [dim EXCEPT ![t] = DimNext(t)]
  /\ Goto(t, "dim_loop")
  /\ UNCHANGED <<key, depth, dot, maxScore, denom, numer>>

ThreadStep(t) ==
  \/ Entry(t) \/ NextDim(t) \/ LastDim(t) \/ DotStep(t)
  \/ Score0Done(t) \/ NextMaxKey(t) \/ MaxUpdate(t) \/ MaxDone(t)
  \/ NextSoftmaxKey(t) \/ SoftmaxUpdate(t) \/ SoftmaxDone(t) \/ StoreOutput(t)

KernelNext == \E t \in Thread : ThreadStep(t)
KernelSpec == KernelInit /\ [][KernelNext]_kernelVars

AllExited == \A t \in Thread : at[t] = "exit"

-----------------------------------------------------------------------------
(* reference_attention_prefill_i8 on the host.                             *)
Score(q, k) == Dot[q][k][HeadDim]
HostMax(q) == CHOOSE m \in {Score(q, k) : k \in Row} :
                \A k \in Row : Score(q, k) <= m
HostDenom(q) == [k \in 1..Sequence |-> Weight(Score(q, k - 1), HostMax(q))]
HostNumer(q, d) == [k \in 1..Sequence |->
                      WeightedValue(Score(q, k - 1), HostMax(q), V[Index(k - 1, d)])]
HostCell(q, d) == Quotient(HostNumer(q, d), HostDenom(q))

-----------------------------------------------------------------------------
(* Properties.                                                             *)

KernelTypeOK ==
  /\ at \in [Thread -> Label]
  /\ dim \in [Thread -> Nat] /\ key \in [Thread -> 0..Sequence]
  /\ depth \in [Thread -> 0..HeadDim]
  /\ dot \in [Thread -> Int] /\ maxScore \in [Thread -> Int]
  /\ denom \in [Thread -> Seq(Int)] /\ numer \in [Thread -> Seq(Int \X Int)]
  /\ DOMAIN out = Element

(* The loads and stores that are due address the buffers the host made for *)
(* the runtime shape, though the grid was laid out for the compiled shape. *)
AccessesInBounds ==
  \A t \in Thread :
    /\ at[t] \in DotLoop /\ depth[t] < HeadDim =>
         /\ Index(Query(t), depth[t]) \in Element
         /\ Index(key[t], depth[t]) \in Element
    /\ at[t] = "softmax_dot_loop" => Index(key[t], dim[t]) \in Element
    /\ at[t] = "store_output" => Index(Query(t), dim[t]) \in Element

(* Every output element the kernel has stored is the element the host      *)
(* reference computes: same keys, same order, same maximum, same column.   *)
StoredCellIsReference ==
  \A q \in Row, d \in Col :
    out[Index(q, d)] # Unwritten => out[Index(q, d)].value = HostCell(q, d)

(* No two threads, and no two iterations of one, store the same element:  *)
(* whatever is stored goes to an element nobody has stored before.         *)
StoredOnce ==
  [][\A t \in Thread : at[t] = "store_output" /\ at'[t] # at[t]
       => out[Index(Query(t), dim[t])] = Unwritten]_kernelVars

(* When the last thread returns, and the host reads the buffer back, no    *)
(* element of the runtime shape is left unwritten.                         *)
NoCellLeft == AllExited => \A i \in Element : out[i] # Unwritten

(* The launch ends: the host's wait on the launch event returns.           *)
KernelTerminates == <>AllExited

-----------------------------------------------------------------------------
(* What makes the safety properties hold in every state.                   *)

(* d is a column of t's: of its tile, a whole number of strides from its   *)
(* first one.                                                              *)
Owns(t, d) ==
  /\ d < HeadDim /\ d < DimTileEnd(t)
  /\ \E j \in Nat : d = DimStart(t) + j * BlockDimX

Working == Label \ {"entry", "dim_loop", "exit"}

OnOwnCell(t) ==
  /\ at[t] \notin {"entry", "exit"} =>
       /\ Query(t) < Sequence
       /\ \E j \in Nat : dim[t] = DimStart(t) + j * BlockDimX
  /\ at[t] \in Working => HasDim(t)

(* In a dot loop the accumulator is the host's after depth iterations.     *)
DotIsPartial(t) ==
  at[t] \in DotLoop =>
    /\ key[t] \in Row
    /\ dot[t] = Dot[Query(t)][key[t]][depth[t]]

IsMaxBelow(m, q, n) ==
  /\ \A k \in 0..n-1 : Score(q, k) <= m
  /\ \E k \in 0..n-1 : m = Score(q, k)

MaxIsPartial(t) ==
  /\ at[t] = "score0_dot_loop" => key[t] = 0
  /\ at[t] \in {"max_key_loop", "max_dot_loop"} =>
       IsMaxBelow(maxScore[t], Query(t), key[t])
  /\ at[t] \in {"softmax_key_loop", "softmax_dot_loop", "store_output"} =>
       maxScore[t] = HostMax(Query(t))

SumsArePartial(t) ==
  /\ at[t] \in {"softmax_key_loop", "softmax_dot_loop", "store_output"} =>
       /\ Len(denom[t]) = key[t] /\ Len(numer[t]) = key[t]
       /\ \A k \in 1..key[t] :
            /\ denom[t][k] = Weight(Score(Query(t), k - 1), HostMax(Query(t)))
            /\ numer[t][k] = WeightedValue(Score(Query(t), k - 1),
                               HostMax(Query(t)), V[Index(k - 1, dim[t])])
  /\ at[t] = "store_output" => key[t] = Sequence

(* A stored element is the reference value, stored by the one thread that  *)
(* owns it, which has moved past it since.                                 *)
StoredByOwner ==
  \A q \in Row, d \in Col :
    out[Index(q, d)] # Unwritten =>
      /\ out[Index(q, d)].value = HostCell(q, d)
      /\ \E t \in Thread : /\ q = Query(t) /\ Owns(t, d)
                           /\ at[t] # "entry" /\ d < dim[t]

CellInProgress(t) ==
  OnOwnCell(t) /\ DotIsPartial(t) /\ MaxIsPartial(t) /\ SumsArePartial(t)

KernelIInv ==
  /\ KernelTypeOK
  /\ \A t \in Thread : CellInProgress(t)
  /\ StoredByOwner
=============================================================================
