------------------------- MODULE MlirLoweringProofs -------------------------
(***************************************************************************)
(* For every kernel with distinct labels and no phi in its entry block:    *)
(* the edges of the printed function pass what their blocks declare, and   *)
(* no name is defined twice.                                               *)
(***************************************************************************)
EXTENDS MlirLowering, SequenceTheorems, FiniteSetTheorems, Recurrences, TLAPS

BlockFields == {"label", "args", "lines", "kind", "cond", "edges"}
PhiTypes(label) ==
  [k \in DOMAIN Phis(BlockAt(kernel, label)) |-> Phis(BlockAt(kernel, label))[k].ty]

(* The printed blocks are the first ones of the kernel, each with the      *)
(* label and the arguments it was opened with; until its terminator is     *)
(* printed a block has no edges, and then each leads to a block of the     *)
(* kernel and passes the types of that block's phis.                       *)
PrintedSoFar ==
  /\ block \in 0..Len(kernel) /\ mlir = [i \in 1..block |-> mlir[i]]
  /\ phase = "walk" => block = Len(kernel)
  /\ op \in Nat /\ (op > 0 => block # 0)
  /\ \A i \in 1..block :
       /\ DOMAIN mlir[i] = BlockFields
       /\ mlir[i].label = kernel[i].label /\ mlir[i].args = BlockArguments(i)
       /\ \A e \in DOMAIN mlir[i].edges :
            /\ Known(mlir[i].edges[e].label)
            /\ mlir[i].edges[e].types = PhiTypes(mlir[i].edges[e].label)

LoweringIInv == kernel \in Kernels /\ PrintedSoFar

LEMMA LoweringInitial == LoweringInit => LoweringIInv
<1>. SUFFICES ASSUME LoweringInit PROVE LoweringIInv
  OBVIOUS
<1>1. kernel \in Kernels /\ phase = "print" /\ block = 0 /\ op = 0 /\ mlir = <<>>
  BY DEF LoweringInit
<1>2. Len(kernel) \in Nat
  BY <1>1, LoweringAssumption
<1>3. mlir = [i \in 1..0 |-> mlir[i]]
  BY <1>1
<1>. QED BY <1>1, <1>2, <1>3 DEF LoweringIInv, PrintedSoFar

(* A step that leaves the printed blocks alone.                            *)
LEMMA PrintStands ==
  ASSUME LoweringIInv, UNCHANGED <<kernel, block, mlir>>,
         phase' = "walk" => phase = "walk",
         op' \in Nat, op' > 0 => block # 0
  PROVE  LoweringIInv'
<1>1. \A label : PhiTypes(label)' = PhiTypes(label) /\ (Known(label)' <=> Known(label))
  BY DEF PhiTypes, Known
<1>2. \A i : BlockArguments(i)' = BlockArguments(i)
  BY DEF BlockArguments
<1>. QED BY <1>1, <1>2 DEF LoweringIInv, PrintedSoFar

(* Opening a block leaves the printed ones alone.                          *)
LEMMA BlockOpened ==
  ASSUME LoweringIInv, OpenBlock
  PROVE  /\ block \in Nat /\ Len(kernel) \in Nat /\ block + 1 \in 0..Len(kernel)
         /\ mlir' = [i \in 1..(block + 1) |-> mlir'[i]]
         /\ \A i \in 1..block : mlir'[i] = mlir[i]
         /\ mlir'[block + 1] =
              [label |-> kernel[block + 1].label, args |-> BlockArguments(block + 1),
               lines |-> <<>>, kind |-> "none", cond |-> <<>>, edges |-> <<>>]
<1>. DEFINE n == block
            new == [label |-> kernel[block + 1].label, args |-> BlockArguments(block + 1),
                    lines |-> <<>>, kind |-> "none", cond |-> <<>>, edges |-> <<>>]
<1>1. /\ block' = n + 1 /\ phase = "print" /\ block < Len(kernel)
      /\ mlir' = Append(mlir, new) /\ kernel' = kernel
  BY DEF OpenBlock, BlockArguments
<1>2. n \in Nat /\ Len(kernel) \in Nat /\ n + 1 \in 0..Len(kernel)
  BY <1>1, LoweringAssumption DEF LoweringIInv, PrintedSoFar
<1>3. mlir \in Seq(Range(mlir)) /\ Len(mlir) = n
  <2>1. mlir \in [1..n -> Range(mlir)] /\ DOMAIN mlir = 1..n
    BY DEF LoweringIInv, PrintedSoFar, Range
  <2>. QED BY <1>2, <2>1
<1>4. /\ mlir' = [i \in 1..(n + 1) |-> mlir'[i]]
      /\ \A i \in 1..n : mlir'[i] = mlir[i]
      /\ mlir'[n + 1] = new
  <2>. HIDE DEF n, new
  <2>. DEFINE S == Range(mlir) \cup {new}
  <2>1. mlir \in Seq(S) /\ new \in S
    BY <1>3
  <2>. HIDE DEF S
  <2>2. /\ mlir' \in Seq(S) /\ Len(mlir') = n + 1
        /\ \A i \in 1..n : mlir'[i] = mlir[i]
        /\ mlir'[n + 1] = new
    BY <1>1, <1>3, <2>1, AppendProperties
  <2>. QED BY <1>2, <2>2
<1>. HIDE DEF new
<1>5. mlir' = [i \in 1..(block + 1) |-> mlir'[i]]
  BY <1>4, Zenon DEF n
<1>. QED BY <1>2, <1>4, <1>5 DEF new

LEMMA OpenBlockKeeps == LoweringIInv /\ OpenBlock => LoweringIInv'
<1>. SUFFICES ASSUME LoweringIInv, OpenBlock PROVE LoweringIInv'
  OBVIOUS
<1>. DEFINE n == block
            new == [label |-> kernel[block + 1].label, args |-> BlockArguments(block + 1),
                    lines |-> <<>>, kind |-> "none", cond |-> <<>>, edges |-> <<>>]
<1>1. /\ kernel' = kernel /\ phase' = phase /\ phase = "print" /\ block' = n + 1 /\ op' = 1
  BY DEF OpenBlock
<1>2. n \in Nat /\ Len(kernel) \in Nat /\ n + 1 \in 0..Len(kernel)
  BY BlockOpened
<1>4. /\ mlir' = [i \in 1..(n + 1) |-> mlir'[i]]
      /\ \A i \in 1..n : mlir'[i] = mlir[i]
      /\ mlir'[n + 1] = new
  BY BlockOpened, Zenon
<1>5. \A label : PhiTypes(label)' = PhiTypes(label) /\ (Known(label)' <=> Known(label))
  BY <1>1 DEF PhiTypes, Known
<1>6. \A i : BlockArguments(i)' = BlockArguments(i)
  BY <1>1 DEF BlockArguments
<1>7. /\ DOMAIN new = BlockFields /\ new.label = kernel[n + 1].label
      /\ new.args = BlockArguments(n + 1) /\ DOMAIN new.edges = {}
  BY DEF BlockFields
<1>8. ASSUME NEW i \in 1..(n + 1)
      PROVE  /\ DOMAIN mlir'[i] = BlockFields
             /\ mlir'[i].label = kernel[i].label /\ mlir'[i].args = BlockArguments(i)
             /\ \A e \in DOMAIN mlir'[i].edges :
                  /\ Known(mlir'[i].edges[e].label)
                  /\ mlir'[i].edges[e].types = PhiTypes(mlir'[i].edges[e].label)
  <2>1. CASE i \in 1..n
    BY <1>4, <2>1 DEF LoweringIInv, PrintedSoFar
  <2>2. CASE i = n + 1
    <3>. HIDE DEF new
    <3>. QED BY <1>4, <1>7, <2>2
  <2>. QED BY <1>2, <2>1, <2>2
<1>. HIDE DEF new
<1>. QED BY <1>1, <1>2, <1>4, <1>5, <1>6, <1>8 DEF LoweringIInv, PrintedSoFar

(* Changing the block being printed leaves the others alone.               *)
LEMMA OthersStand ==
  ASSUME LoweringIInv, NEW new, block \in 1..Len(kernel), mlir' = [mlir EXCEPT ![block] = new]
  PROVE  /\ mlir' = [i \in 1..block |-> mlir'[i]] /\ mlir'[block] = new
         /\ \A i \in 1..block : i # block => mlir'[i] = mlir[i]
<1>1. DOMAIN mlir = 1..block /\ block \in Nat
  BY LoweringAssumption DEF LoweringIInv, PrintedSoFar
<1>. DEFINE f == [i \in 1..block |-> IF i = block THEN new ELSE mlir[i]]
<1>2. mlir' = f
  BY <1>1
<1>3. /\ f = [i \in 1..block |-> f[i]] /\ f[block] = new
      /\ \A i \in 1..block : i # block => f[i] = mlir[i]
  BY <1>1
<1>. HIDE DEF f
<1>. QED BY <1>2, <1>3

(* A step that only extends the block being printed.                       *)
LEMMA BlockExtended ==
  ASSUME LoweringIInv, UNCHANGED <<kernel, block>>, NEW new, block \in 1..Len(kernel),
         mlir' = [mlir EXCEPT ![block] = new],
         phase' = "walk" => block = Len(kernel), op' \in Nat,
         DOMAIN new = BlockFields,
         new.label = mlir[block].label, new.args = mlir[block].args,
         \A e \in DOMAIN new.edges :
           Known(new.edges[e].label) /\ new.edges[e].types = PhiTypes(new.edges[e].label)
  PROVE  LoweringIInv'
<1>1. /\ mlir' = [i \in 1..block |-> mlir'[i]] /\ mlir'[block] = new
      /\ \A i \in 1..block : i # block => mlir'[i] = mlir[i]
  BY OthersStand, Zenon
<1>2. \A label : PhiTypes(label)' = PhiTypes(label) /\ (Known(label)' <=> Known(label))
  BY DEF PhiTypes, Known
<1>3. \A i : BlockArguments(i)' = BlockArguments(i)
  BY DEF BlockArguments
<1>4. ASSUME NEW i \in 1..block
      PROVE  /\ DOMAIN mlir'[i] = BlockFields
             /\ mlir'[i].label = kernel[i].label /\ mlir'[i].args = BlockArguments(i)
             /\ \A e \in DOMAIN mlir'[i].edges :
                  /\ Known(mlir'[i].edges[e].label)
                  /\ mlir'[i].edges[e].types = PhiTypes(mlir'[i].edges[e].label)
  <2>1. CASE i = block
    BY <1>1, <2>1 DEF LoweringIInv, PrintedSoFar
  <2>2. CASE i # block
    BY <1>1, <2>2 DEF LoweringIInv, PrintedSoFar
  <2>. QED BY <2>1, <2>2
<1>. QED BY <1>1, <1>2, <1>3, <1>4 DEF LoweringIInv, PrintedSoFar


LEMMA EmitOpKeeps == LoweringIInv /\ EmitOp => LoweringIInv'
<1>. SUFFICES ASSUME LoweringIInv, EmitOp PROVE LoweringIInv'
  OBVIOUS
<1>1. /\ UNCHANGED <<kernel, block, phase>> /\ phase = "print" /\ op > 0 /\ op' = op + 1
      /\ mlir' = [mlir EXCEPT ![block].lines = @ \o LinesOf(Current.ops[op])]
  BY DEF EmitOp
<1>2. block \in 1..Len(kernel) /\ op' \in Nat
  BY <1>1, LoweringAssumption DEF LoweringIInv, PrintedSoFar
<1>3. DOMAIN mlir = 1..block /\ DOMAIN mlir[block] = BlockFields
  BY <1>2, LoweringAssumption DEF LoweringIInv, PrintedSoFar
<1>. DEFINE new == [mlir[block] EXCEPT !.lines = @ \o LinesOf(Current.ops[op])]
<1>4. mlir' = [mlir EXCEPT ![block] = new]
  BY <1>1, <1>2, <1>3
<1>5. /\ DOMAIN new = BlockFields /\ new.label = mlir[block].label
      /\ new.args = mlir[block].args /\ new.edges = mlir[block].edges
  BY <1>3 DEF BlockFields
<1>6. \A e \in DOMAIN new.edges :
        Known(new.edges[e].label) /\ new.edges[e].types = PhiTypes(new.edges[e].label)
  BY <1>2, <1>5, LoweringAssumption DEF LoweringIInv, PrintedSoFar
<1>. HIDE DEF new
<1>. QED BY <1>1, <1>2, <1>4, <1>5, <1>6, BlockExtended

(* The branch collects its arguments from the phis of the target, in their *)
(* order, each with the type its phi has.                                  *)
LEMMA EdgeTypes ==
  ASSUME NEW label
  PROVE  [i \in DOMAIN EdgeArgs(label) |-> EdgeArgs(label)[i][2]] = PhiTypes(label)
BY DEF EdgeArgs, PhiTypes

LEMMA EmitTerminatorKeeps == LoweringIInv /\ EmitTerminator => LoweringIInv'
<1>. SUFFICES ASSUME LoweringIInv, EmitTerminator PROVE LoweringIInv'
  OBVIOUS
<1>. DEFINE exit == Current.terminator
            argsOf(edge) == EdgeArgs(exit.labels[edge])
            before(edge) == exit.cond \o (IF edge > 1 THEN argsOf(1) ELSE <<>>)
                                      \o (IF edge > 2 THEN argsOf(2) ELSE <<>>)
            all == before(Len(exit.labels) + 1)
            edges == [edge \in DOMAIN exit.labels |->
                        [label |-> exit.labels[edge],
                         types |-> [i \in DOMAIN argsOf(edge) |-> argsOf(edge)[i][2]],
                         values |-> Ensured(argsOf(edge), Current.label,
                                            constants + Cardinality(Literals(before(edge))))]]
            new == [mlir[block] EXCEPT
                      !.lines = @ \o ConstantLines(all, Current.label, constants),
                      !.kind = exit.kind,
                      !.cond = Ensured(exit.cond, Current.label, constants),
                      !.edges = edges]
            printed == \A edge \in DOMAIN exit.labels : Renderable(exit.labels[edge])
<1>1. UNCHANGED <<kernel, block>> /\ phase = "print" /\ op > 0 /\ op' = 0
  BY DEF EmitTerminator
<1>2. \/ /\ printed
         /\ mlir' = [mlir EXCEPT ![block] = new]
         /\ phase' = IF block = Len(kernel) THEN "walk" ELSE phase
      \/ phase' = "panicked" /\ UNCHANGED mlir
  BY DEF EmitTerminator
<1>3. block \in 1..Len(kernel) /\ op' \in Nat
  BY <1>1, LoweringAssumption DEF LoweringIInv, PrintedSoFar
<1>4. DOMAIN mlir[block] = BlockFields
  BY <1>3, LoweringAssumption DEF LoweringIInv, PrintedSoFar
<1>5. /\ DOMAIN new = BlockFields /\ new.label = mlir[block].label
      /\ new.args = mlir[block].args /\ new.edges = edges
  <2>. HIDE DEF edges, exit, all
  <2>. QED BY <1>4 DEF BlockFields
<1>6. ASSUME printed, NEW e \in DOMAIN edges
      PROVE  Known(edges[e].label) /\ edges[e].types = PhiTypes(edges[e].label)
  <2>1. e \in DOMAIN exit.labels /\ edges[e].label = exit.labels[e]
    OBVIOUS
  <2>2. edges[e].types = [i \in DOMAIN argsOf(e) |-> argsOf(e)[i][2]]
    OBVIOUS
  <2>3. Known(exit.labels[e])
    BY <1>6, <2>1 DEF Renderable
  <2>4. [i \in DOMAIN argsOf(e) |-> argsOf(e)[i][2]] = PhiTypes(exit.labels[e])
    BY EdgeTypes
  <2>. HIDE DEF edges, exit, argsOf
  <2>. QED BY <2>1, <2>2, <2>3, <2>4
<1>7. CASE /\ printed
           /\ mlir' = [mlir EXCEPT ![block] = new]
           /\ phase' = IF block = Len(kernel) THEN "walk" ELSE phase
  <2>1. \A e \in DOMAIN new.edges :
          Known(new.edges[e].label) /\ new.edges[e].types = PhiTypes(new.edges[e].label)
    <3>. HIDE DEF new, edges, printed
    <3>. QED BY <1>5, <1>6, <1>7
  <2>. HIDE DEF new, edges, printed
  <2>. QED BY <1>1, <1>3, <1>5, <1>7, <2>1, BlockExtended
<1>8. CASE phase' = "panicked" /\ UNCHANGED mlir
  BY <1>1, <1>3, <1>8, PrintStands
<1>. HIDE DEF new, printed
<1>. QED BY <1>2, <1>7, <1>8

LEMMA LoweringStep == LoweringIInv /\ [LoweringNext]_loweringVars => LoweringIInv'
<1>. SUFFICES ASSUME LoweringIInv, [LoweringNext]_loweringVars PROVE LoweringIInv'
  OBVIOUS
<1>1. op \in Nat /\ (op > 0 => block # 0)
  BY DEF LoweringIInv, PrintedSoFar
<1>2. CASE SkipPhi
  BY <1>1, <1>2, PrintStands DEF SkipPhi
<1>3. CASE WalkPrinted
  BY <1>1, <1>3, PrintStands DEF WalkPrinted, printVars
<1>4. CASE UNCHANGED loweringVars
  BY <1>1, <1>4, PrintStands DEF loweringVars, printVars
<1>. QED BY <1>2, <1>3, <1>4, OpenBlockKeeps, EmitOpKeeps, EmitTerminatorKeeps DEF LoweringNext

LEMMA LoweringInvariant == LoweringSpec => []LoweringIInv
BY LoweringInitial, LoweringStep, PTL DEF LoweringSpec

(* render_successor and the block header each collect from the phis on     *)
(* their own: whatever the kernel, an edge of the printed function passes  *)
(* as many values, of the same types, as its block declares.               *)
THEOREM EdgesFit == LoweringSpec => []EdgesFitBlocks
<1>1. LoweringIInv => EdgesFitBlocks
  <2>1. SUFFICES ASSUME LoweringIInv, phase = "walk",
                        NEW i \in DOMAIN mlir, NEW e \in DOMAIN mlir[i].edges
                 PROVE  LET edge == mlir[i].edges[e]
                            target == BlockAt(mlir, edge.label)
                        IN edge.types = [k \in DOMAIN target.args |-> target.args[k][2]]
    BY DEF EdgesFitBlocks
  <2>. DEFINE label == mlir[i].edges[e].label
              target == BlockAt(mlir, label)
  <2>2. /\ kernel \in Kernels /\ block = Len(kernel) /\ DOMAIN mlir = 1..block
        /\ Known(label) /\ mlir[i].edges[e].types = PhiTypes(label)
        /\ \A j \in 1..block : mlir[j].label = kernel[j].label /\ mlir[j].args = BlockArguments(j)
    BY <2>1 DEF LoweringIInv, PrintedSoFar
  <2>. HIDE DEF label
  <2>3. PICK j \in DOMAIN kernel : kernel[j].label = label
    BY <2>2 DEF Known
  <2>4. /\ DOMAIN kernel = 1..block
        /\ \A m \in DOMAIN kernel : kernel[m].label = label <=> m = j
        /\ \A m \in DOMAIN mlir : mlir[m].label = label <=> m = j
        /\ Phis(kernel[1]) = <<>>
    BY <2>2, <2>3, LoweringAssumption
  <2>5. BlockAt(kernel, label) = kernel[j]
    BY <2>3, <2>4 DEF BlockAt
  <2>6. target = mlir[j]
    BY <2>2, <2>3, <2>4 DEF BlockAt
  <2>7. target.args = BlockArguments(j)
    BY <2>2, <2>3, <2>4, <2>6
  <2>8. PhiTypes(label) = [k \in DOMAIN Phis(kernel[j]) |-> Phis(kernel[j])[k].ty]
    BY <2>5 DEF PhiTypes
  <2>9. PhiTypes(label) = [k \in DOMAIN BlockArguments(j) |-> BlockArguments(j)[k][2]]
    <3>1. CASE j = 1
      BY <2>4, <2>8, <3>1 DEF BlockArguments
    <3>2. CASE j # 1
      BY <2>8, <3>2 DEF BlockArguments
    <3>. QED BY <3>1, <3>2
  <2>. HIDE DEF target
  <2>10. mlir[i].edges[e].types = [k \in DOMAIN target.args |-> target.args[k][2]]
    BY <2>2, <2>7, <2>9
  <2>. QED BY <2>10 DEF target, label
<1>. QED BY <1>1, LoweringInvariant, PTL

-----------------------------------------------------------------------------
(* Operators: positions, sequences, phis.                                 *)
(* Each of the positions has a number of its own.                          *)
LEMMA NthSolved ==
  ASSUME NEW N \in Nat, NEW P \in SUBSET (1..N)
  PROVE  /\ IsFiniteSet(P) /\ Cardinality(P) \in Nat
         /\ \A n \in 1..Cardinality(P) :
              Nth(P, n) \in P /\ Cardinality({j \in P : j < Nth(P, n)}) = n - 1
<1>. DEFINE Numbered(S) == \A n \in 1..Cardinality(S) :
                             \E i \in S : Cardinality({j \in S : j < i}) = n - 1
            T == {m \in Nat : \A S \in SUBSET (1..m) : Numbered(S)}
<1>1. \A m \in Nat : \A S \in SUBSET (1..m) : IsFiniteSet(S) /\ Cardinality(S) \in Nat
  <2>. TAKE m \in Nat
  <2>. TAKE S \in SUBSET (1..m)
  <2>1. IsFiniteSet(1..m)
    BY FS_Interval
  <2>. QED BY <2>1, FS_Subset, FS_CardinalityType
<1>2. 0 \in T
  <2>1. \A S \in SUBSET (1..0) : S = {}
    OBVIOUS
  <2>. QED BY <2>1, FS_EmptySet
<1>3. ASSUME NEW m \in Nat, m \in T PROVE m + 1 \in T
  <2>. SUFFICES ASSUME NEW S \in SUBSET (1..(m + 1)) PROVE Numbered(S)
    OBVIOUS
  <2>. DEFINE R == S \ {m + 1}
  <2>1. R \in SUBSET (1..m) /\ Numbered(R)
    BY <1>3
  <2>2. \A i \in R : {j \in S : j < i} = {j \in R : j < i}
    OBVIOUS
  <2>3. CASE m + 1 \notin S
    BY <2>1, <2>3
  <2>4. CASE m + 1 \in S
    <3>1. Cardinality(S) = Cardinality(R) + 1 /\ Cardinality(R) \in Nat
      <4>1. S = R \cup {m + 1} /\ m + 1 \notin R /\ IsFiniteSet(R) /\ Cardinality(R) \in Nat
        BY <1>1, <2>1, <2>4
      <4>. HIDE DEF R
      <4>. QED BY <4>1, FS_AddElement
    <3>2. {j \in S : j < m + 1} = R
      <4>1. \A j \in S : j < m + 1 <=> j # m + 1
        OBVIOUS
      <4>. QED BY <4>1
    <3>3. ASSUME NEW n \in 1..Cardinality(S)
          PROVE  \E i \in S : Cardinality({j \in S : j < i}) = n - 1
      <4>1. CASE n \in 1..Cardinality(R)
        <5>1. PICK i \in R : Cardinality({j \in R : j < i}) = n - 1
          BY <2>1, <4>1
        <5>2. i \in S
          OBVIOUS
        <5>. HIDE DEF R
        <5>. QED BY <2>2, <5>1, <5>2
      <4>2. CASE n = Cardinality(R) + 1
        <5>1. Cardinality({j \in S : j < m + 1}) = n - 1
          <6>1. Cardinality({j \in S : j < m + 1}) = Cardinality(R)
            BY <3>2, Zenon
          <6>. HIDE DEF R
          <6>. QED BY <3>1, <4>2, <6>1
        <5>. QED BY <2>4, <5>1
      <4>. HIDE DEF R
      <4>. QED BY <3>1, <4>1, <4>2
    <3>. QED BY <3>3
  <2>. QED BY <2>3, <2>4
<1>4. N \in T
  <2>. HIDE DEF T
  <2>. QED BY <1>2, <1>3, Induction
<1>5. Numbered(P)
  BY <1>4
<1>. QED BY <1>1, <1>5 DEF Nth

(* A sequence, its elements and what is appended to it.                     *)
LEMMA SequenceParts ==
  ASSUME NEW s, NEW t, IsSequence(s), IsSequence(t)
  PROVE  /\ DOMAIN s = 1..Len(s)
         /\ IsSequence(s \o t) /\ Len(s \o t) = Len(s) + Len(t)
         /\ \A i \in 1..Len(s) : (s \o t)[i] = s[i]
         /\ \A i \in 1..Len(t) : (s \o t)[Len(s) + i] = t[i]
<1>. DEFINE S == {s[i] : i \in 1..Len(s)} \cup {t[i] : i \in 1..Len(t)}
<1>1. /\ Len(s) \in Nat /\ s = [i \in 1..Len(s) |-> s[i]]
      /\ Len(t) \in Nat /\ t = [i \in 1..Len(t) |-> t[i]]
  BY DEF IsSequence
<1>2. s \in [1..Len(s) -> S] /\ t \in [1..Len(t) -> S]
  BY <1>1
<1>3. s \in Seq(S) /\ t \in Seq(S)
  BY <1>1, <1>2
<1>. HIDE DEF S
<1>4. s \o t \in Seq(S)
  BY <1>3
<1>5. DOMAIN (s \o t) = 1..Len(s \o t) /\ s \o t = [i \in 1..Len(s \o t) |-> (s \o t)[i]]
  <2>1. ASSUME NEW u \in Seq(S)
        PROVE  Len(u) \in Nat /\ DOMAIN u = 1..Len(u) /\ u = [i \in 1..Len(u) |-> u[i]]
    OBVIOUS
  <2>2. \A u \in Seq(S) :
          Len(u) \in Nat /\ DOMAIN u = 1..Len(u) /\ u = [i \in 1..Len(u) |-> u[i]]
    BY <2>1
  <2>. QED BY <1>4, <2>2, Zenon
<1>6. /\ Len(s \o t) = Len(s) + Len(t)
      /\ \A i \in 1..Len(s) : (s \o t)[i] = s[i]
      /\ \A i \in 1..Len(t) : (s \o t)[Len(s) + i] = t[i]
  BY <1>3, ConcatProperties
<1>. QED BY <1>1, <1>3, <1>4, <1>5, <1>6 DEF IsSequence

LEMMA FunctionIsSequence ==
  ASSUME NEW n \in Nat, NEW s, s = [i \in 1..n |-> s[i]]
  PROVE  IsSequence(s) /\ Len(s) = n
<1>. DEFINE S == {s[i] : i \in 1..n}
<1>1. s \in [1..n -> S]
  OBVIOUS
<1>2. s \in Seq(S) /\ Len(s) = n
  BY <1>1
<1>. QED BY <1>2 DEF IsSequence

(* The phis of a block are different operations of it.                      *)
LEMMA PhisAreOps ==
  ASSUME NEW b, IsSequence(b.ops)
  PROVE  /\ Len(Phis(b)) \in Nat /\ DOMAIN Phis(b) = 1..Len(Phis(b)) /\ IsSequence(Phis(b))
         /\ \A n \in DOMAIN Phis(b) : Nth(PhiPositions(b), n) \in DOMAIN b.ops
              /\ Phis(b)[n] = b.ops[Nth(PhiPositions(b), n)] /\ Phis(b)[n].kind = "phi"
         /\ \A n, m \in DOMAIN Phis(b) :
              Nth(PhiPositions(b), n) = Nth(PhiPositions(b), m) => n = m
<1>. DEFINE P == PhiPositions(b)
<1>1. P \in SUBSET (1..Len(b.ops)) /\ P \in SUBSET DOMAIN b.ops /\ Len(b.ops) \in Nat
      /\ \A i \in P : b.ops[i].kind = "phi"
  BY DEF PhiPositions, IsSequence
<1>2. Phis(b) = [n \in 1..Cardinality(P) |-> b.ops[Nth(P, n)]]
  BY DEF Phis
<1>. HIDE DEF P
<1>3. /\ Cardinality(P) \in Nat
      /\ \A n \in 1..Cardinality(P) :
           Nth(P, n) \in P /\ Cardinality({j \in P : j < Nth(P, n)}) = n - 1
  BY <1>1, NthSolved
<1>4. IsSequence(Phis(b)) /\ Len(Phis(b)) = Cardinality(P) /\ DOMAIN Phis(b) = 1..Cardinality(P)
  BY <1>2, <1>3, FunctionIsSequence
<1>5. \A n, m \in 1..Cardinality(P) : Nth(P, n) = Nth(P, m) => n = m
  <2>. SUFFICES ASSUME NEW n \in 1..Cardinality(P), NEW m \in 1..Cardinality(P),
                       Nth(P, n) = Nth(P, m) PROVE n = m
    OBVIOUS
  <2>1. n - 1 = m - 1
    BY <1>3
  <2>. QED BY <2>1, <1>3
<1>. QED BY <1>1, <1>2, <1>3, <1>4, <1>5 DEF P

-----------------------------------------------------------------------------
(* The names that lines define.                                           *)
DefsOf(lines) == [l \in 1..Len(lines) |-> lines[l].defs]

(* h is f and then g; names that differ stay different.                     *)
Joins(h, f, g, lo, n, m) ==
  /\ DOMAIN f = lo..n /\ DOMAIN g = 1..m /\ DOMAIN h = lo..(n + m)
  /\ \A l \in lo..n : h[l] = f[l]
  /\ \A l \in 1..m : h[n + l] = g[l]

LEMMA OnceJoined ==
  ASSUME NEW lo \in {0, 1}, NEW n \in Nat, NEW m \in Nat, NEW f, NEW g, NEW h,
         Joins(h, f, g, lo, n, m), Once(f), Once(g), Names(f) \cap Names(g) = {}
  PROVE  Once(h) /\ Names(h) = Names(f) \cup Names(g)
<1>. USE DEF Joins
<1>1. /\ \A x : x \in Names(f) <=> \E l \in lo..n : \E d \in DOMAIN f[l] : x = f[l][d]
      /\ \A x : x \in Names(g) <=> \E l \in 1..m : \E d \in DOMAIN g[l] : x = g[l][d]
      /\ \A x : x \in Names(h) <=> \E l \in lo..(n + m) : \E d \in DOMAIN h[l] : x = h[l][d]
  BY DEF Names, Range
<1>2. \A l \in lo..(n + m) : (l \in lo..n /\ h[l] = f[l])
                             \/ (l - n \in 1..m /\ h[l] = g[l - n] /\ l = n + (l - n))
  <2>1. ASSUME NEW l \in lo..(n + m), ~(l \in lo..n) PROVE l - n \in 1..m /\ n + (l - n) = l
    BY <2>1
  <2>. QED BY <2>1
<1>3. ASSUME NEW l \in lo..(n + m), NEW k \in lo..(n + m),
             NEW d \in DOMAIN h[l], NEW e \in DOMAIN h[k], h[l][d] = h[k][e]
      PROVE  l = k /\ d = e
  <2>1. CASE l \in lo..n /\ h[l] = f[l] /\ k \in lo..n /\ h[k] = f[k]
    <3>1. l \in DOMAIN f /\ k \in DOMAIN f /\ f[l][d] = f[k][e]
          /\ d \in DOMAIN f[l] /\ e \in DOMAIN f[k]
      BY <1>3, <2>1
    <3>. QED BY <3>1 DEF Once
  <2>2. CASE l - n \in 1..m /\ h[l] = g[l - n] /\ k - n \in 1..m /\ h[k] = g[k - n]
    <3>1. l - n = k - n /\ d = e
      BY <1>3, <2>2 DEF Once
    <3>. QED BY <2>2, <3>1
  <2>3. CASE l \in lo..n /\ h[l] = f[l] /\ k - n \in 1..m /\ h[k] = g[k - n]
    <3>1. h[l][d] \in Names(f) /\ h[k][e] \in Names(g)
      BY <1>1, <2>3
    <3>. QED BY <1>3, <3>1
  <2>4. CASE l - n \in 1..m /\ h[l] = g[l - n] /\ k \in lo..n /\ h[k] = f[k]
    <3>1. h[l][d] \in Names(g) /\ h[k][e] \in Names(f)
      BY <1>1, <2>4
    <3>. QED BY <1>3, <3>1
  <2>5. /\ (l \in lo..n /\ h[l] = f[l]) \/ (l - n \in 1..m /\ h[l] = g[l - n])
        /\ (k \in lo..n /\ h[k] = f[k]) \/ (k - n \in 1..m /\ h[k] = g[k - n])
    BY <1>2
  <2>. QED BY <2>1, <2>2, <2>3, <2>4, <2>5, Zenon
<1>4. Once(h)
  BY <1>3 DEF Once
<1>5. ASSUME NEW x \in Names(h) PROVE x \in Names(f) \cup Names(g)
  <2>1. PICK l \in lo..(n + m) : \E d \in DOMAIN h[l] : x = h[l][d]
    BY <1>1
  <2>. QED BY <1>1, <1>2, <2>1
<1>6. ASSUME NEW x \in Names(f) PROVE x \in Names(h)
  <2>1. PICK l \in lo..n : \E d \in DOMAIN f[l] : x = f[l][d]
    BY <1>1
  <2>2. l \in lo..(n + m) /\ h[l] = f[l]
    OBVIOUS
  <2>. QED BY <1>1, <2>1, <2>2
<1>7. ASSUME NEW x \in Names(g) PROVE x \in Names(h)
  <2>1. PICK l \in 1..m : \E d \in DOMAIN g[l] : x = g[l][d]
    BY <1>1
  <2>2. n + l \in lo..(n + m) /\ h[n + l] = g[l]
    OBVIOUS
  <2>. QED BY <1>1, <2>1, <2>2
<1>. QED BY <1>4, <1>5, <1>6, <1>7

LEMMA LinesJoined ==
  ASSUME NEW s, NEW t, IsSequence(s), IsSequence(t),
         Once(DefsOf(s)), Once(DefsOf(t)), Names(DefsOf(s)) \cap Names(DefsOf(t)) = {}
  PROVE  /\ IsSequence(s \o t) /\ Once(DefsOf(s \o t))
         /\ Names(DefsOf(s \o t)) = Names(DefsOf(s)) \cup Names(DefsOf(t))
<1>. DEFINE f == DefsOf(s)
            g == DefsOf(t)
            h == DefsOf(s \o t)
            n == Len(s)
            m == Len(t)
<1>1. /\ n \in Nat /\ m \in Nat /\ IsSequence(s \o t) /\ Len(s \o t) = n + m
      /\ \A i \in 1..n : (s \o t)[i] = s[i]
      /\ \A i \in 1..m : (s \o t)[n + i] = t[i]
  BY SequenceParts DEF IsSequence
<1>2. DOMAIN f = 1..n /\ DOMAIN g = 1..m /\ DOMAIN h = 1..(n + m)
  BY <1>1 DEF DefsOf
<1>3. \A l \in 1..n : h[l] = f[l]
  <2>. TAKE l \in 1..n
  <2>1. l \in 1..(n + m)
    BY <1>1
  <2>. QED BY <1>1, <2>1 DEF DefsOf
<1>4. \A l \in 1..m : h[n + l] = g[l]
  <2>. TAKE l \in 1..m
  <2>1. n + l \in 1..(n + m)
    BY <1>1
  <2>. QED BY <1>1, <2>1 DEF DefsOf
<1>. HIDE DEF f, g, h, n, m
<1>5. Once(h) /\ Names(h) = Names(f) \cup Names(g)
  <2>1. Once(f) /\ Once(g) /\ Names(f) \cap Names(g) = {}
    BY DEF f, g
  <2>2. 1 \in {0, 1} /\ n \in Nat /\ m \in Nat
    BY <1>1
  <2>3. Joins(h, f, g, 1, n, m)
    BY <1>2, <1>3, <1>4 DEF Joins
  <2>. QED BY <2>1, <2>2, <2>3, OnceJoined
<1>. QED BY <1>1, <1>5 DEF f, g, h

(* One line.                                                                *)
LEMMA OneLine ==
  ASSUME NEW line, \A d, e \in DOMAIN line.defs : line.defs[d] = line.defs[e] => d = e
  PROVE  /\ IsSequence(<<line>>) /\ Once(DefsOf(<<line>>))
         /\ Names(DefsOf(<<line>>)) = {line.defs[d] : d \in DOMAIN line.defs}
<1>1. Len(<<line>>) = 1 /\ <<line>>[1] = line /\ <<line>> = [i \in 1..1 |-> <<line>>[i]]
  OBVIOUS
<1>2. DOMAIN DefsOf(<<line>>) = {1} /\ DefsOf(<<line>>)[1] = line.defs
  BY <1>1 DEF DefsOf
<1>. QED BY <1>1, <1>2 DEF IsSequence, Once, Names, Range

(* The names of constants a block makes while its counter goes from one     *)
(* number to another.                                                       *)
IsConstant(name, label, from, to) ==
  /\ Len(name) = 3 /\ name[1] = Sanitized[label]
  /\ name[2] \in Nat /\ from <= name[2] /\ name[2] < to

LEMMA ConstantLinesOnce ==
  ASSUME NEW args, IsSequence(args), NEW label, NEW count \in Nat
  PROVE  /\ Cardinality(Literals(args)) \in Nat
         /\ IsSequence(ConstantLines(args, label, count))
         /\ Once(DefsOf(ConstantLines(args, label, count)))
         /\ \A x \in Names(DefsOf(ConstantLines(args, label, count))) :
              IsConstant(x, label, count, count + Cardinality(Literals(args)))
<1>. DEFINE c == Cardinality(Literals(args))
            A == ConstantLines(args, label, count)
            ty(n) == args[Nth(Literals(args), n)][2]
<1>1. c \in Nat
  <2>1. Literals(args) \in SUBSET (1..Len(args)) /\ Len(args) \in Nat
    BY DEF Literals, IsSequence
  <2>. QED BY <2>1, NthSolved
<1>2. /\ A = [n \in 1..c |-> A[n]]
      /\ \A n \in 1..c : A[n].defs = <<<<Sanitized[label], count + n - 1, ty(n)>>>>
  BY DEF ConstantLines, Line, ConstantName
<1>. HIDE DEF A, c, ty
<1>3. IsSequence(A) /\ Len(A) = c
  BY <1>1, <1>2, FunctionIsSequence
<1>4. /\ DOMAIN DefsOf(A) = 1..c
      /\ \A n \in 1..c : DefsOf(A)[n] = <<<<Sanitized[label], count + n - 1, ty(n)>>>>
  BY <1>2, <1>3 DEF DefsOf
<1>5. Once(DefsOf(A))
  <2>. SUFFICES ASSUME NEW l \in 1..c, NEW m \in 1..c, NEW d \in {1}, NEW e \in {1},
                       DefsOf(A)[l][d] = DefsOf(A)[m][e]
                PROVE  l = m
    BY <1>4 DEF Once
  <2>1. count + l - 1 = count + m - 1
    BY <1>4
  <2>. QED BY <1>1, <2>1
<1>6. ASSUME NEW x \in Names(DefsOf(A)) PROVE IsConstant(x, label, count, count + c)
  <2>1. PICK n \in 1..c : \E d \in DOMAIN DefsOf(A)[n] : x = DefsOf(A)[n][d]
    BY <1>4 DEF Names, Range
  <2>2. x = <<Sanitized[label], count + n - 1, ty(n)>>
    BY <1>4, <2>1
  <2>3. count + n - 1 \in Nat /\ count <= count + n - 1 /\ count + n - 1 < count + c
    BY <1>1
  <2>4. Len(x) = 3 /\ x[1] = Sanitized[label] /\ x[2] = count + n - 1
    BY <2>2
  <2>. QED BY <2>3, <2>4 DEF IsConstant
<1>. QED BY <1>1, <1>3, <1>5, <1>6 DEF A, c

-----------------------------------------------------------------------------
(* What one operation defines: its own names, and constants from where the *)
(* counter of its block is to where it is after it.                        *)
LEMMA CsrTailOnce ==
  ASSUME NEW o, WellFormed(o), o.kind \in ReadsCsr,
         \A d, e \in DOMAIN o.defs : o.defs[d] = o.defs[e] => d = e
  PROVE  /\ IsSequence(CsrTail(o)) /\ Once(DefsOf(CsrTail(o)))
         /\ 1 \in DOMAIN o.defs
         /\ Names(DefsOf(CsrTail(o))) \subseteq {o.defs[d] : d \in DOMAIN o.defs \ {1}}
<1>1. DOMAIN o.defs = 1..Len(o.defs) /\ Len(o.defs) \in DefinedBy(o.kind)
  BY DEF WellFormed, IsSequence
<1>2. CASE o.kind = "csr_read"
  <2>1. CsrTail(o) = <<>> /\ 1 \in DOMAIN o.defs
    <3>1. DefinedBy("csr_read") = {1}
      BY DEF DefinedBy
    <3>. QED BY <1>1, <1>2, <3>1 DEF CsrTail
  <2>2. Len(<<>>) = 0 /\ IsSequence(<<>>)
    BY DEF IsSequence
  <2>3. DOMAIN DefsOf(<<>>) = {}
    BY <2>2 DEF DefsOf
  <2>. QED BY <2>1, <2>2, <2>3 DEF Once, Names
<1>3. ASSUME NEW line, CsrTail(o) = <<line>>, line.defs = <<o.defs[2]>>, 2 \in DOMAIN o.defs,
             1 \in DOMAIN o.defs
      PROVE  /\ IsSequence(CsrTail(o)) /\ Once(DefsOf(CsrTail(o)))
             /\ Names(DefsOf(CsrTail(o))) \subseteq {o.defs[d] : d \in DOMAIN o.defs \ {1}}
  <2>1. DOMAIN line.defs = {1} /\ line.defs[1] = o.defs[2]
    BY <1>3
  <2>2. /\ IsSequence(<<line>>) /\ Once(DefsOf(<<line>>))
        /\ Names(DefsOf(<<line>>)) = {line.defs[d] : d \in DOMAIN line.defs}
    BY <2>1, OneLine
  <2>. QED BY <1>3, <2>1, <2>2
<1>4. CASE o.kind = "cta_csr"
  <2>1. CsrTail(o) = <<Line("cast", "trunc", <<o.defs[2]>>, <<o.defs[1]>>)>>
    BY <1>4 DEF CsrTail
  <2>2. 1 \in DOMAIN o.defs /\ 2 \in DOMAIN o.defs
    <3>1. DefinedBy("cta_csr") = {2}
      BY DEF DefinedBy
    <3>. QED BY <1>1, <1>4, <3>1
  <2>. QED BY <1>3, <2>1, <2>2 DEF Line
<1>5. CASE o.kind = "local_mem_ptr"
  <2>1. CsrTail(o) = <<Line("inttoptr", "i64", <<o.defs[2]>>, <<o.defs[1]>>)>>
    BY <1>5 DEF CsrTail
  <2>2. 1 \in DOMAIN o.defs /\ 2 \in DOMAIN o.defs
    <3>1. DefinedBy("local_mem_ptr") = {2}
      BY DEF DefinedBy
    <3>. QED BY <1>1, <1>5, <3>1
  <2>. QED BY <1>3, <2>1, <2>2 DEF Line
<1>6. CASE o.kind = "uniform_cta_csr"
  <2>. DEFINE a == Line("cast", "trunc", <<o.defs[2]>>, <<o.defs[1]>>)
              b == Line("call", "uniform", <<o.defs[3]>>, <<o.defs[2]>>)
  <2>1. CsrTail(o) = <<a, b>>
    BY <1>6 DEF CsrTail
  <2>2. 1 \in DOMAIN o.defs /\ 2 \in DOMAIN o.defs /\ 3 \in DOMAIN o.defs
    <3>1. DefinedBy("uniform_cta_csr") = {3}
      BY DEF DefinedBy
    <3>. QED BY <1>1, <1>6, <3>1
  <2>3. a.defs = <<o.defs[2]>> /\ b.defs = <<o.defs[3]>>
    BY DEF Line
  <2>. HIDE DEF a, b
  <2>4. /\ Len(<<a, b>>) = 2 /\ <<a, b>>[1] = a /\ <<a, b>>[2] = b
        /\ <<a, b>> = [i \in 1..2 |-> <<a, b>>[i]]
    OBVIOUS
  <2>5. DOMAIN DefsOf(<<a, b>>) = 1..2 /\ DefsOf(<<a, b>>)[1] = <<o.defs[2]>>
        /\ DefsOf(<<a, b>>)[2] = <<o.defs[3]>>
    BY <2>3, <2>4 DEF DefsOf
  <2>6. o.defs[2] # o.defs[3]
    BY <2>2
  <2>7. Once(DefsOf(<<a, b>>))
    <3>. SUFFICES ASSUME NEW l \in 1..2, NEW m \in 1..2, NEW d \in {1}, NEW e \in {1},
                         DefsOf(<<a, b>>)[l][d] = DefsOf(<<a, b>>)[m][e]
                  PROVE  l = m
      BY <2>5 DEF Once
    <3>. QED BY <2>5, <2>6
  <2>8. Names(DefsOf(<<a, b>>)) \subseteq {o.defs[2], o.defs[3]}
    BY <2>5 DEF Names, Range
  <2>. QED BY <2>1, <2>2, <2>4, <2>7, <2>8 DEF IsSequence
<1>. QED BY <1>2, <1>4, <1>5, <1>6 DEF ReadsCsr

LEMMA LinesOfOnce ==
  ASSUME NEW o, WellFormed(o), o.kind # "phi", constants \in Nat,
         \A d, e \in DOMAIN o.defs : o.defs[d] = o.defs[e] => d = e
  PROVE  /\ IsSequence(LinesOf(o)) /\ ConstantsOf(o) \in Nat /\ Once(DefsOf(LinesOf(o)))
         /\ \A x \in Names(DefsOf(LinesOf(o))) :
              \/ \E d \in DOMAIN o.defs : x = o.defs[d]
              \/ IsConstant(x, Current.label, constants, constants + ConstantsOf(o))
<1>. DEFINE label == Current.label
            ir == {o.defs[d] : d \in DOMAIN o.defs}
<1>1. \A x \in ir : Len(x) = 1
  BY DEF WellFormed
<1>2. CASE o.kind \in ReadsCsr
  <2>. DEFINE arg == <<<<IntLiteral(o.attr), "i32">>>>
              A == ConstantLines(arg, label, constants)
              csrr == Line("csrr", "i64", <<o.defs[1]>>, Ensured(arg, label, constants))
              T == CsrTail(o)
  <2>1. LinesOf(o) = (A \o <<csrr>>) \o T /\ ConstantsOf(o) = 1
    BY <1>2 DEF LinesOf, CsrLines, ConstantsOf
  <2>2. IsSequence(arg) /\ Cardinality(Literals(arg)) = 1
    <3>1. Len(arg) = 1 /\ DOMAIN arg = {1} /\ arg = [i \in 1..1 |-> arg[i]]
      OBVIOUS
    <3>2. IsLiteral(arg[1])
      <4>1. arg[1][2] = "i32" /\ arg[1][1] = <<"int", o.attr>>
        BY DEF IntLiteral
      <4>. HIDE DEF arg
      <4>. QED BY <4>1 DEF IsLiteral
    <3>. HIDE DEF arg
    <3>3. Literals(arg) = {1}
      BY <3>1, <3>2 DEF Literals
    <3>4. Cardinality({1}) = 1
      BY FS_Singleton, Zenon
    <3>. QED BY <3>1, <3>3, <3>4 DEF IsSequence
  <2>3. csrr.defs = <<o.defs[1]>>
    BY DEF Line
  <2>. HIDE DEF arg
  <2>4. /\ IsSequence(A) /\ Once(DefsOf(A))
        /\ \A x \in Names(DefsOf(A)) : IsConstant(x, label, constants, constants + 1)
    BY <2>2, ConstantLinesOnce
  <2>5. /\ IsSequence(T) /\ Once(DefsOf(T)) /\ 1 \in DOMAIN o.defs
        /\ Names(DefsOf(T)) \subseteq {o.defs[d] : d \in DOMAIN o.defs \ {1}}
    BY <1>2, CsrTailOnce
  <2>. HIDE DEF A, T, csrr
  <2>6. /\ IsSequence(<<csrr>>) /\ Once(DefsOf(<<csrr>>))
        /\ Names(DefsOf(<<csrr>>)) = {o.defs[1]}
    <3>1. DOMAIN csrr.defs = {1} /\ csrr.defs[1] = o.defs[1]
      BY <2>3
    <3>2. /\ IsSequence(<<csrr>>) /\ Once(DefsOf(<<csrr>>))
          /\ Names(DefsOf(<<csrr>>)) = {csrr.defs[d] : d \in DOMAIN csrr.defs}
      BY <3>1, OneLine
    <3>. QED BY <3>1, <3>2
  <2>7. Names(DefsOf(A)) \cap {o.defs[d] : d \in DOMAIN o.defs} = {}
    BY <1>1, <2>4 DEF IsConstant
  <2>8. Names(DefsOf(A)) \cap Names(DefsOf(<<csrr>>)) = {}
    BY <2>5, <2>6, <2>7
  <2>9. /\ IsSequence(A \o <<csrr>>) /\ Once(DefsOf(A \o <<csrr>>))
        /\ Names(DefsOf(A \o <<csrr>>)) = Names(DefsOf(A)) \cup {o.defs[1]}
    BY <2>4, <2>6, <2>8, LinesJoined
  <2>10. (Names(DefsOf(A)) \cup {o.defs[1]}) \cap Names(DefsOf(T)) = {}
    BY <2>5, <2>7
  <2>11. /\ IsSequence((A \o <<csrr>>) \o T) /\ Once(DefsOf((A \o <<csrr>>) \o T))
         /\ Names(DefsOf((A \o <<csrr>>) \o T))
              = (Names(DefsOf(A)) \cup {o.defs[1]}) \cup Names(DefsOf(T))
    BY <2>5, <2>9, <2>10, LinesJoined
  <2>. QED BY <2>1, <2>4, <2>5, <2>11
<1>3. CASE o.kind \notin ReadsCsr
  <2>. DEFINE A == ConstantLines(o.args, label, constants)
              line == Line(o.kind, o.attr, o.defs, o.bases \o Ensured(o.args, label, constants))
              c == Cardinality(Literals(o.args))
  <2>1. LinesOf(o) = A \o <<line>> /\ ConstantsOf(o) = c
    BY <1>3 DEF LinesOf, ConstantsOf
  <2>2. line.defs = o.defs
    BY DEF Line
  <2>3. /\ c \in Nat /\ IsSequence(A) /\ Once(DefsOf(A))
        /\ \A x \in Names(DefsOf(A)) : IsConstant(x, label, constants, constants + c)
    <3>1. IsSequence(o.args)
      BY DEF WellFormed
    <3>. QED BY <3>1, ConstantLinesOnce
  <2>. HIDE DEF A, line, c
  <2>4. /\ IsSequence(<<line>>) /\ Once(DefsOf(<<line>>)) /\ Names(DefsOf(<<line>>)) = ir
    <3>1. /\ IsSequence(<<line>>) /\ Once(DefsOf(<<line>>))
          /\ Names(DefsOf(<<line>>)) = {line.defs[d] : d \in DOMAIN line.defs}
      BY <2>2, OneLine
    <3>. QED BY <2>2, <3>1
  <2>5. Names(DefsOf(A)) \cap Names(DefsOf(<<line>>)) = {}
    BY <1>1, <2>3, <2>4 DEF IsConstant
  <2>6. /\ IsSequence(A \o <<line>>) /\ Once(DefsOf(A \o <<line>>))
        /\ Names(DefsOf(A \o <<line>>)) = Names(DefsOf(A)) \cup Names(DefsOf(<<line>>))
    BY <2>3, <2>4, <2>5, LinesJoined
  <2>. QED BY <2>1, <2>3, <2>4, <2>6
<1>. QED BY <1>2, <1>3

(* The names block i may have defined by now: those of its phis and of its  *)
(* operations already printed, and constants below its counter.             *)
OfOperation(x, i) ==
  \E o \in DOMAIN kernel[i].ops :
    /\ \E d \in DOMAIN kernel[i].ops[o].defs : x = kernel[i].ops[o].defs[d]
    /\ kernel[i].ops[o].kind = "phi" \/ (i = block /\ op > 0 => o < op)
OfConstant(x, i) ==
  \E c \in Nat : IsConstant(x, kernel[i].label, 0, c) /\ (i = block /\ op > 0 => c <= constants)

NamesSoFar ==
  /\ constants \in Nat
  /\ \A i \in 1..block :
       /\ IsSequence(mlir[i].lines) /\ Once(Definitions(mlir[i]))
       /\ \A x \in Names(Definitions(mlir[i])) : OfOperation(x, i) \/ OfConstant(x, i)
NamesIInv == LoweringIInv /\ NamesSoFar

(* What the kernel is known to be.                                          *)
LEMMA KernelFacts ==
  ASSUME kernel \in Kernels
  PROVE  /\ Len(kernel) \in Nat /\ DOMAIN kernel = 1..Len(kernel)
         /\ Phis(kernel[1]) = <<>>
         /\ \A i \in 1..Len(kernel) :
              /\ IsSequence(kernel[i].terminator.cond) /\ IsSequence(kernel[i].terminator.labels)
              /\ Len(kernel[i].terminator.labels) <= 2
         /\ \A i \in 1..Len(kernel) :
              /\ IsSequence(kernel[i].ops)
              /\ \A o \in DOMAIN kernel[i].ops :
                   /\ WellFormed(kernel[i].ops[o])
                   /\ \A d \in DOMAIN kernel[i].ops[o].defs : Len(kernel[i].ops[o].defs[d]) = 1
         /\ \A i, j \in 1..Len(kernel) :
              Sanitized[kernel[i].label] = Sanitized[kernel[j].label] => i = j
         /\ \A i, j \in 1..Len(kernel) :
              \A o \in DOMAIN kernel[i].ops, p \in DOMAIN kernel[j].ops :
                \A d \in DOMAIN kernel[i].ops[o].defs, e \in DOMAIN kernel[j].ops[p].defs :
                  kernel[i].ops[o].defs[d] = kernel[j].ops[p].defs[e] => i = j /\ o = p /\ d = e
BY LoweringAssumption DEF WellFormed

LEMMA NamesInitial == LoweringInit => NamesIInv
<1>. SUFFICES ASSUME LoweringInit PROVE NamesIInv
  OBVIOUS
<1>1. block = 0 /\ constants = 0
  BY DEF LoweringInit
<1>. QED BY <1>1, LoweringInitial DEF NamesIInv, NamesSoFar

(* A step that leaves the printed blocks alone.                            *)
LEMMA NamesStand ==
  ASSUME NamesIInv, UNCHANGED <<kernel, block, constants, mlir>>,
         \A o : o < op => o < op' \/ ~(op' > 0),
         op' > 0 => op > 0
  PROVE  NamesSoFar'
<1>1. ASSUME NEW i \in 1..block, NEW x, OfOperation(x, i) \/ OfConstant(x, i)
      PROVE  OfOperation(x, i)' \/ OfConstant(x, i)'
  <2>1. CASE OfOperation(x, i)
    <3>1. PICK o \in DOMAIN kernel[i].ops :
            /\ \E d \in DOMAIN kernel[i].ops[o].defs : x = kernel[i].ops[o].defs[d]
            /\ kernel[i].ops[o].kind = "phi" \/ (i = block /\ op > 0 => o < op)
      BY <2>1 DEF OfOperation
    <3>2. kernel[i].ops[o].kind = "phi" \/ (i = block /\ op' > 0 => o < op')
      BY <3>1
    <3>. QED BY <3>1, <3>2 DEF OfOperation
  <2>2. CASE OfConstant(x, i)
    BY <2>2 DEF OfConstant
  <2>. QED BY <1>1, <2>1, <2>2
<1>. QED BY <1>1 DEF NamesIInv, NamesSoFar

LEMMA OpenBlockNames == NamesIInv /\ OpenBlock => NamesSoFar'
<1>. SUFFICES ASSUME NamesIInv, OpenBlock PROVE NamesSoFar'
  OBVIOUS
<1>0. PICK n : n = block + 1
  OBVIOUS
<1>. DEFINE ps == Phis(kernel[n])
            at0(k) == Nth(PhiPositions(kernel[n]), k)
<1>1. /\ kernel' = kernel /\ block' = n /\ op' = 1 /\ constants' = 0
  BY <1>0 DEF OpenBlock
<1>2. /\ block \in Nat /\ n \in 1..Len(kernel)
      /\ \A i \in 1..block : mlir'[i] = mlir[i]
      /\ mlir'[n] = [label |-> kernel[n].label, args |-> BlockArguments(n),
                     lines |-> <<>>, kind |-> "none", cond |-> <<>>, edges |-> <<>>]
  BY <1>0, BlockOpened DEF NamesIInv
<1>3. ASSUME NEW i \in 1..block
      PROVE  /\ IsSequence(mlir'[i].lines) /\ Once(Definitions(mlir'[i]))
             /\ \A x \in Names(Definitions(mlir'[i])) : OfOperation(x, i)' \/ OfConstant(x, i)'
  <2>1. i # n /\ mlir'[i] = mlir[i]
    BY <1>0, <1>2
  <2>2. ASSUME NEW x, OfOperation(x, i) PROVE OfOperation(x, i)'
    BY <1>1, <2>1, <2>2 DEF OfOperation
  <2>3. ASSUME NEW x, OfConstant(x, i) PROVE OfConstant(x, i)'
    BY <1>1, <2>1, <2>3 DEF OfConstant
  <2>. QED BY <2>1, <2>2, <2>3 DEF NamesIInv, NamesSoFar
<1>4. mlir'[n].args = BlockArguments(n) /\ mlir'[n].lines = <<>>
  BY <1>2
<1>5. IsSequence(<<>>) /\ Len(<<>>) = 0
  BY DEF IsSequence
<1>6. /\ DOMAIN Definitions(mlir'[n]) = {0}
      /\ Definitions(mlir'[n])[0] = [k \in DOMAIN BlockArguments(n) |-> BlockArguments(n)[k][1]]
  BY <1>4, <1>5 DEF Definitions
<1>7. ASSUME NEW k \in DOMAIN BlockArguments(n)
      PROVE  /\ k \in DOMAIN ps /\ at0(k) \in DOMAIN kernel[n].ops
             /\ kernel[n].ops[at0(k)].kind = "phi"
             /\ 1 \in DOMAIN kernel[n].ops[at0(k)].defs
             /\ BlockArguments(n)[k][1] = kernel[n].ops[at0(k)].defs[1]
  <2>1. kernel \in Kernels
    BY DEF NamesIInv, LoweringIInv
  <2>2. n # 1 /\ k \in DOMAIN ps /\ BlockArguments(n)[k][1] = ps[k].defs[1]
    BY DEF BlockArguments
  <2>3. at0(k) \in DOMAIN kernel[n].ops /\ ps[k] = kernel[n].ops[at0(k)] /\ ps[k].kind = "phi"
    BY <1>2, <2>1, <2>2, KernelFacts, PhisAreOps
  <2>4. 1 \in DOMAIN ps[k].defs
    <3>1. WellFormed(ps[k])
      BY <1>2, <2>1, <2>3, KernelFacts
    <3>2. DefinedBy("phi") = {1}
      BY DEF DefinedBy
    <3>. QED BY <2>3, <3>1, <3>2 DEF WellFormed, IsSequence
  <2>. QED BY <2>2, <2>3, <2>4
<1>8. ASSUME NEW k \in DOMAIN BlockArguments(n), NEW m \in DOMAIN BlockArguments(n),
             BlockArguments(n)[k][1] = BlockArguments(n)[m][1]
      PROVE  k = m
  <2>1. kernel \in Kernels
    BY DEF NamesIInv, LoweringIInv
  <2>2. at0(k) = at0(m)
    <3>1. kernel[n].ops[at0(k)].defs[1] = kernel[n].ops[at0(m)].defs[1]
      BY <1>7, <1>8
    <3>. HIDE DEF at0
    <3>. QED BY <1>2, <1>7, <2>1, <3>1, KernelFacts
  <2>3. k \in DOMAIN ps /\ m \in DOMAIN ps /\ IsSequence(kernel[n].ops)
    BY <1>2, <1>7, <2>1, KernelFacts
  <2>. QED BY <2>2, <2>3, PhisAreOps
<1>. HIDE DEF ps, at0
<1>9. Once(Definitions(mlir'[n]))
  BY <1>6, <1>8 DEF Once
<1>10. ASSUME NEW x \in Names(Definitions(mlir'[n])) PROVE OfOperation(x, n)'
  <2>1. PICK k \in DOMAIN BlockArguments(n) : x = BlockArguments(n)[k][1]
    BY <1>6 DEF Names, Range
  <2>. QED BY <1>1, <1>7, <2>1 DEF OfOperation
<1>11. \A i \in 1..n : i \in 1..block \/ i = n
  BY <1>0, <1>2
<1>12. IsSequence(mlir'[n].lines)
  BY <1>4, <1>5
<1>. QED BY <1>1, <1>3, <1>9, <1>10, <1>11, <1>12 DEF NamesSoFar

(* A step that adds lines with new names to the block being printed.       *)
LEMMA NewNames ==
  ASSUME NamesIInv, UNCHANGED <<kernel, block>>, NEW new, NEW L,
         block \in 1..Len(kernel), mlir' = [mlir EXCEPT ![block] = new],
         new.args = mlir[block].args, new.lines = mlir[block].lines \o L,
         constants' \in Nat, op > 0,
         op' > 0 => constants <= constants' /\ op < op' /\ op \in Nat /\ op' \in Nat,
         IsSequence(L), Once(DefsOf(L)),
         \A x \in Names(DefsOf(L)) : x \notin Names(Definitions(mlir[block])),
         \A x \in Names(DefsOf(L)) : OfOperation(x, block)' \/ OfConstant(x, block)'
  PROVE  NamesSoFar'
<1>1. /\ mlir'[block] = new /\ \A i \in 1..block : i # block => mlir'[i] = mlir[i]
  BY OthersStand, Zenon DEF NamesIInv
<1>2. ASSUME NEW i \in 1..block, NEW x, OfOperation(x, i) \/ OfConstant(x, i)
      PROVE  OfOperation(x, i)' \/ OfConstant(x, i)'
  <2>1. CASE OfOperation(x, i)
    <3>1. PICK o \in DOMAIN kernel[i].ops :
            /\ \E d \in DOMAIN kernel[i].ops[o].defs : x = kernel[i].ops[o].defs[d]
            /\ kernel[i].ops[o].kind = "phi" \/ (i = block /\ op > 0 => o < op)
      BY <2>1 DEF OfOperation
    <3>2. o \in Nat
      <4>1. i \in 1..Len(kernel) /\ IsSequence(kernel[i].ops)
        BY KernelFacts DEF NamesIInv, LoweringIInv
      <4>. QED BY <4>1 DEF IsSequence
    <3>3. kernel[i].ops[o].kind = "phi" \/ (i = block /\ op' > 0 => o < op')
      BY <3>1, <3>2
    <3>. QED BY <3>1, <3>3 DEF OfOperation
  <2>2. CASE OfConstant(x, i)
    <3>1. constants \in Nat
      BY DEF NamesIInv, NamesSoFar
    <3>. QED BY <2>2, <3>1 DEF OfConstant
  <2>. QED BY <1>2, <2>1, <2>2
<1>3. /\ IsSequence(new.lines) /\ Once(Definitions(new))
      /\ Names(Definitions(new)) = Names(Definitions(mlir[block])) \cup Names(DefsOf(L))
  <2>. DEFINE f == Definitions(mlir[block])
              g == DefsOf(L)
              h == Definitions(new)
              lines == mlir[block].lines
              n == Len(lines)
              m == Len(L)
  <2>1. IsSequence(lines) /\ Once(f)
    BY LoweringAssumption DEF NamesIInv, NamesSoFar
  <2>2. /\ n \in Nat /\ m \in Nat /\ IsSequence(new.lines) /\ Len(new.lines) = n + m
        /\ \A i \in 1..n : new.lines[i] = lines[i]
        /\ \A i \in 1..m : new.lines[n + i] = L[i]
    <3>1. new.lines = lines \o L
      OBVIOUS
    <3>2. ASSUME NEW s, IsSequence(s), new.lines = s \o L
          PROVE  /\ Len(s) \in Nat /\ m \in Nat /\ IsSequence(new.lines)
                 /\ Len(new.lines) = Len(s) + m
                 /\ \A i \in 1..Len(s) : new.lines[i] = s[i]
                 /\ \A i \in 1..m : new.lines[Len(s) + i] = L[i]
      <4>1. Len(s) \in Nat /\ m \in Nat
        BY <3>2 DEF IsSequence
      <4>2. /\ IsSequence(s \o L) /\ Len(s \o L) = Len(s) + Len(L)
            /\ \A i \in 1..Len(s) : (s \o L)[i] = s[i]
            /\ \A i \in 1..Len(L) : (s \o L)[Len(s) + i] = L[i]
        BY <3>2, SequenceParts
      <4>. QED BY <3>2, <4>1, <4>2
    <3>. QED BY <2>1, <3>1, <3>2
  <2>3. DOMAIN f = 0..n /\ DOMAIN g = 1..m /\ DOMAIN h = 0..(n + m)
    BY <2>2 DEF Definitions, DefsOf
  <2>4. ASSUME NEW l \in 0..n PROVE h[l] = f[l]
    <3>1. l \in 0..(n + m)
      BY <2>2
    <3>2. CASE l = 0
      BY <2>2, <3>1, <3>2 DEF Definitions
    <3>3. CASE l \in 1..n
      BY <2>2, <3>1, <3>3 DEF Definitions
    <3>. QED BY <2>2, <3>2, <3>3
  <2>5. ASSUME NEW l \in 1..m PROVE h[n + l] = g[l]
    <3>1. n + l \in 0..(n + m) /\ n + l # 0
      BY <2>2
    <3>. QED BY <2>2, <3>1 DEF Definitions, DefsOf
  <2>6. Names(f) \cap Names(g) = {} /\ Once(g)
    OBVIOUS
  <2>. HIDE DEF f, g, h, n, m
  <2>7. Joins(h, f, g, 0, n, m)
    BY <2>3, <2>4, <2>5 DEF Joins
  <2>8. Once(h) /\ Names(h) = Names(f) \cup Names(g)
    <3>1. 0 \in {0, 1} /\ n \in Nat /\ m \in Nat
      BY <2>2
    <3>. QED BY <2>1, <2>6, <2>7, <3>1, OnceJoined
  <2>. QED BY <2>2, <2>8 DEF f, g, h
<1>4. ASSUME NEW i \in 1..block
      PROVE  /\ IsSequence(mlir'[i].lines) /\ Once(Definitions(mlir'[i]))
             /\ \A x \in Names(Definitions(mlir'[i])) : OfOperation(x, i)' \/ OfConstant(x, i)'
  <2>1. CASE i # block
    BY <1>1, <1>2, <2>1 DEF NamesIInv, NamesSoFar
  <2>2. CASE i = block
    <3>1. \A x \in Names(Definitions(mlir[block])) : OfOperation(x, block)' \/ OfConstant(x, block)'
      BY <1>2, <2>2 DEF NamesIInv, NamesSoFar
    <3>. QED BY <1>1, <1>3, <2>2, <3>1
  <2>. QED BY <2>1, <2>2
<1>. QED BY <1>4 DEF NamesSoFar

(* A constant from the counter on is none of the names defined so far.     *)
LEMMA FreshConstant ==
  ASSUME NamesIInv, block \in 1..Len(kernel), op > 0,
         NEW x, NEW c, IsConstant(x, Current.label, constants, c)
  PROVE  x \notin Names(Definitions(mlir[block]))
<1>. SUFFICES ASSUME x \in Names(Definitions(mlir[block])) PROVE FALSE
  OBVIOUS
<1>1. /\ kernel \in Kernels /\ constants \in Nat /\ block \in 1..block
      /\ OfOperation(x, block) \/ OfConstant(x, block)
  BY LoweringAssumption DEF NamesIInv, LoweringIInv, NamesSoFar
<1>2. CASE OfOperation(x, block)
  <2>1. Len(x) = 1
    BY <1>1, <1>2, KernelFacts DEF OfOperation
  <2>2. Len(x) = 3
    BY DEF IsConstant
  <2>. QED BY <2>1, <2>2
<1>3. CASE OfConstant(x, block)
  <2>1. PICK k \in Nat : IsConstant(x, kernel[block].label, 0, k) /\ k <= constants
    BY <1>3 DEF OfConstant
  <2>2. x[2] \in Nat /\ x[2] < k /\ constants <= x[2]
    BY <2>1 DEF IsConstant
  <2>. QED BY <1>1, <2>1, <2>2
<1>. QED BY <1>1, <1>2, <1>3

LEMMA EmitOpNames == NamesIInv /\ EmitOp => NamesSoFar'
<1>. SUFFICES ASSUME NamesIInv, EmitOp PROVE NamesSoFar'
  OBVIOUS
<1>. DEFINE o == kernel[block].ops[op]
            L == LinesOf(o)
            new == [mlir[block] EXCEPT !.lines = @ \o L]
<1>1. /\ UNCHANGED <<kernel, block>> /\ op > 0 /\ op' = op + 1
      /\ op \in DOMAIN kernel[block].ops /\ o.kind # "phi"
      /\ mlir' = [mlir EXCEPT ![block].lines = @ \o L]
      /\ constants' = constants + ConstantsOf(o)
  BY DEF EmitOp, Current
<1>2. /\ kernel \in Kernels /\ block \in 1..Len(kernel) /\ op \in Nat /\ constants \in Nat
      /\ DOMAIN mlir = 1..block /\ block \in 1..block /\ DOMAIN mlir[block] = BlockFields
  BY <1>1, LoweringAssumption DEF NamesIInv, NamesSoFar, LoweringIInv, PrintedSoFar
<1>3. mlir' = [mlir EXCEPT ![block] = new]
  BY <1>1, <1>2
<1>4. new.args = mlir[block].args /\ new.lines = mlir[block].lines \o L
  BY <1>2 DEF BlockFields
<1>5. /\ WellFormed(o) /\ \A d \in DOMAIN o.defs : Len(o.defs[d]) = 1
      /\ \A p \in DOMAIN kernel[block].ops :
           \A d \in DOMAIN o.defs, e \in DOMAIN kernel[block].ops[p].defs :
             o.defs[d] = kernel[block].ops[p].defs[e] => op = p /\ d = e
  BY <1>1, <1>2, KernelFacts
<1>. HIDE DEF new
<1>6. /\ IsSequence(L) /\ ConstantsOf(o) \in Nat /\ Once(DefsOf(L))
      /\ \A x \in Names(DefsOf(L)) :
           \/ \E d \in DOMAIN o.defs : x = o.defs[d]
           \/ IsConstant(x, Current.label, constants, constants + ConstantsOf(o))
  <2>. HIDE DEF o
  <2>1. \A d, e \in DOMAIN o.defs : o.defs[d] = o.defs[e] => d = e
    BY <1>1, <1>5 DEF o
  <2>. QED BY <1>1, <1>2, <1>5, <2>1, LinesOfOnce
<1>7. ASSUME NEW x \in Names(DefsOf(L))
      PROVE  x \notin Names(Definitions(mlir[block]))
  <2>1. CASE IsConstant(x, Current.label, constants, constants + ConstantsOf(o))
    BY <1>1, <1>2, <2>1, FreshConstant
  <2>2. CASE \E d \in DOMAIN o.defs : x = o.defs[d]
    <3>. SUFFICES ASSUME x \in Names(Definitions(mlir[block])) PROVE FALSE
      OBVIOUS
    <3>1. OfOperation(x, block) \/ OfConstant(x, block)
      BY <1>2 DEF NamesIInv, NamesSoFar
    <3>2. ~OfConstant(x, block)
      BY <1>5, <2>2 DEF OfConstant, IsConstant
    <3>3. ~OfOperation(x, block)
      <4>. SUFFICES ASSUME NEW p \in DOMAIN kernel[block].ops,
                           NEW e \in DOMAIN kernel[block].ops[p].defs,
                           x = kernel[block].ops[p].defs[e],
                           kernel[block].ops[p].kind = "phi" \/ p < op
                    PROVE  FALSE
        BY <1>1 DEF OfOperation
      <4>1. op = p
        BY <1>5, <2>2
      <4>. QED BY <1>1, <1>2, <4>1
    <3>. QED BY <3>1, <3>2, <3>3
  <2>. QED BY <1>6, <2>1, <2>2
<1>8. ASSUME NEW x \in Names(DefsOf(L))
      PROVE  OfOperation(x, block)' \/ OfConstant(x, block)'
  <2>1. CASE IsConstant(x, Current.label, constants, constants + ConstantsOf(o))
    <3>1. IsConstant(x, kernel[block].label, 0, constants')
      BY <1>1, <1>2, <2>1 DEF IsConstant, Current
    <3>2. constants' \in Nat /\ constants' <= constants'
      BY <1>1, <1>2, <1>6
    <3>. QED BY <1>1, <3>1, <3>2 DEF OfConstant
  <2>2. CASE \E d \in DOMAIN o.defs : x = o.defs[d]
    <3>1. op < op'
      BY <1>1, <1>2
    <3>. QED BY <1>1, <2>2, <3>1 DEF OfOperation
  <2>. QED BY <1>6, <2>1, <2>2
<1>9. constants' \in Nat /\ constants <= constants' /\ op < op' /\ op' \in Nat
  BY <1>1, <1>2, <1>6
<1>. HIDE DEF L
<1>. QED BY <1>1, <1>2, <1>3, <1>4, <1>6, <1>7, <1>8, <1>9, NewNames

LEMMA EmitTerminatorNames == NamesIInv /\ EmitTerminator => NamesSoFar'
<1>. SUFFICES ASSUME NamesIInv, EmitTerminator PROVE NamesSoFar'
  OBVIOUS
<1>. DEFINE exit == Current.terminator
            argsOf(edge) == EdgeArgs(exit.labels[edge])
            before(edge) == exit.cond \o (IF edge > 1 THEN argsOf(1) ELSE <<>>)
                                      \o (IF edge > 2 THEN argsOf(2) ELSE <<>>)
            all == before(Len(exit.labels) + 1)
            edges == [edge \in DOMAIN exit.labels |->
                        [label |-> exit.labels[edge],
                         types |-> [i \in DOMAIN argsOf(edge) |-> argsOf(edge)[i][2]],
                         values |-> Ensured(argsOf(edge), Current.label,
                                            constants + Cardinality(Literals(before(edge))))]]
            L == ConstantLines(all, Current.label, constants)
            new == [mlir[block] EXCEPT
                      !.lines = @ \o L,
                      !.kind = exit.kind,
                      !.cond = Ensured(exit.cond, Current.label, constants),
                      !.edges = edges]
            printed == \A edge \in DOMAIN exit.labels : Renderable(exit.labels[edge])
<1>1. UNCHANGED <<kernel, block, constants>> /\ op > 0 /\ op' = 0
  BY DEF EmitTerminator
<1>2. (printed /\ mlir' = [mlir EXCEPT ![block] = new]) \/ UNCHANGED mlir
  BY DEF EmitTerminator
<1>3. /\ kernel \in Kernels /\ block \in 1..Len(kernel) /\ constants \in Nat
      /\ block \in 1..block /\ DOMAIN mlir[block] = BlockFields
  BY <1>1, LoweringAssumption DEF NamesIInv, NamesSoFar, LoweringIInv, PrintedSoFar
<1>4. CASE UNCHANGED mlir
  BY <1>1, <1>4, NamesStand
<1>5. CASE printed /\ mlir' = [mlir EXCEPT ![block] = new]
  <2>1. /\ IsSequence(exit.cond) /\ Len(exit.labels) \in Nat
        /\ DOMAIN exit.labels = 1..Len(exit.labels)
    <3>1. IsSequence(exit.cond) /\ IsSequence(exit.labels)
      BY <1>3, KernelFacts DEF Current
    <3>. HIDE DEF exit
    <3>. QED BY <3>1 DEF IsSequence
  <2>2. ASSUME NEW e \in DOMAIN exit.labels PROVE IsSequence(argsOf(e))
    <3>1. Known(exit.labels[e])
      BY <1>5 DEF Renderable
    <3>. DEFINE b == BlockAt(kernel, exit.labels[e])
    <3>2. IsSequence(b.ops)
      <4>1. \E i \in DOMAIN kernel : b = kernel[i]
        BY <3>1 DEF Known, BlockAt
      <4>. HIDE DEF b
      <4>. QED BY <1>3, <4>1, KernelFacts
    <3>3. Len(Phis(b)) \in Nat /\ DOMAIN Phis(b) = 1..Len(Phis(b))
      BY <3>2, PhisAreOps
    <3>4. argsOf(e) = [i \in 1..Len(Phis(b)) |-> argsOf(e)[i]]
      BY <3>3 DEF EdgeArgs
    <3>. HIDE DEF b, argsOf
    <3>. QED BY <3>3, <3>4, FunctionIsSequence
  <2>3. IsSequence(<<>>)
    BY DEF IsSequence
  <2>4. IsSequence(all)
    <3>. DEFINE a == IF Len(exit.labels) + 1 > 1 THEN argsOf(1) ELSE <<>>
                b == IF Len(exit.labels) + 1 > 2 THEN argsOf(2) ELSE <<>>
    <3>1. IsSequence(a) /\ IsSequence(b)
      <4>. HIDE DEF argsOf
      <4>. QED BY <2>1, <2>2, <2>3
    <3>2. all = (exit.cond \o a) \o b
      OBVIOUS
    <3>. HIDE DEF a, b, all, exit
    <3>3. IsSequence(exit.cond \o a)
      BY <2>1, <3>1, SequenceParts
    <3>. QED BY <3>1, <3>2, <3>3, SequenceParts
  <2>. HIDE DEF all, exit, edges
  <2>5. new.args = mlir[block].args /\ new.lines = mlir[block].lines \o L
    BY <1>3 DEF BlockFields
  <2>. DEFINE c == constants + Cardinality(Literals(all))
  <2>6. /\ IsSequence(L) /\ Once(DefsOf(L)) /\ c \in Nat
        /\ \A x \in Names(DefsOf(L)) : IsConstant(x, Current.label, constants, c)
    BY <1>3, <2>4, ConstantLinesOnce
  <2>. HIDE DEF c, L, new
  <2>7. \A x \in Names(DefsOf(L)) : x \notin Names(Definitions(mlir[block]))
    BY <1>1, <1>3, <2>6, FreshConstant
  <2>8. ASSUME NEW x \in Names(DefsOf(L)) PROVE OfConstant(x, block)'
    <3>1. IsConstant(x, kernel[block].label, 0, c)
      BY <1>3, <2>6 DEF IsConstant, Current
    <3>. QED BY <1>1, <2>6, <3>1 DEF OfConstant
  <2>9. constants' \in Nat /\ ~(op' > 0)
    BY <1>1, <1>3
  <2>. QED BY <1>1, <1>3, <1>5, <2>5, <2>6, <2>7, <2>8, <2>9, NewNames
<1>. HIDE DEF new, printed
<1>. QED BY <1>2, <1>4, <1>5

LEMMA NamesStep == NamesIInv /\ [LoweringNext]_loweringVars => NamesIInv'
<1>. SUFFICES ASSUME NamesIInv, [LoweringNext]_loweringVars PROVE NamesSoFar'
  BY LoweringStep DEF NamesIInv
<1>1. CASE SkipPhi
  <2>1. op \in Nat
    BY DEF NamesIInv, LoweringIInv, PrintedSoFar
  <2>2. UNCHANGED <<kernel, block, constants, mlir>> /\ op > 0 /\ op' = op + 1
    BY <1>1 DEF SkipPhi
  <2>3. NamesSoFar'
    <3>1. ASSUME NEW i \in 1..block, NEW x, OfOperation(x, i) PROVE OfOperation(x, i)'
      <4>1. PICK o \in DOMAIN kernel[i].ops :
              /\ \E d \in DOMAIN kernel[i].ops[o].defs : x = kernel[i].ops[o].defs[d]
              /\ kernel[i].ops[o].kind = "phi" \/ (i = block => o < op)
        BY <2>2, <3>1 DEF OfOperation
      <4>2. o \in Nat
        <5>1. i \in 1..Len(kernel) /\ IsSequence(kernel[i].ops)
          BY KernelFacts DEF NamesIInv, LoweringIInv, PrintedSoFar
        <5>. QED BY <5>1 DEF IsSequence
      <4>3. kernel[i].ops[o].kind = "phi" \/ (i = block /\ op' > 0 => o < op')
        BY <2>1, <2>2, <4>1, <4>2
      <4>. QED BY <2>2, <4>1, <4>3 DEF OfOperation
    <3>2. ASSUME NEW i \in 1..block, NEW x, OfConstant(x, i) PROVE OfConstant(x, i)'
      BY <2>2, <3>2 DEF OfConstant
    <3>. QED BY <2>2, <3>1, <3>2 DEF NamesIInv, NamesSoFar
  <2>. QED BY <2>3
<1>2. CASE WalkPrinted
  BY <1>2, NamesStand DEF WalkPrinted, printVars
<1>3. CASE UNCHANGED loweringVars
  BY <1>3, NamesStand DEF loweringVars, printVars
<1>. QED BY <1>1, <1>2, <1>3, OpenBlockNames, EmitOpNames, EmitTerminatorNames DEF LoweringNext

LEMMA NamesInvariant == LoweringSpec => []NamesIInv
BY NamesInitial, NamesStep, PTL DEF LoweringSpec

(* Each block counts its constants from zero, CSR reads draw from the same *)
(* counter, and phis and operations keep the names the builder gave them:  *)
(* no function defines a name twice (device_ir_mlir.rs, ensure_value).     *)
THEOREM NamesAreUnique == LoweringSpec => []NamesDefinedOnce
<1>1. NamesIInv => NamesDefinedOnce
  <2>. SUFFICES ASSUME NamesIInv
                PROVE  /\ \A i \in DOMAIN mlir : Once(Definitions(mlir[i]))
                       /\ \A i, j \in DOMAIN mlir : i # j =>
                            Names(Definitions(mlir[i])) \cap Names(Definitions(mlir[j])) = {}
    BY DEF NamesDefinedOnce
  <2>1. /\ DOMAIN mlir = 1..block /\ block \in 0..Len(kernel) /\ kernel \in Kernels
        /\ Len(kernel) \in Nat
    BY KernelFacts DEF NamesIInv, LoweringIInv, PrintedSoFar
  <2>2. ASSUME NEW i \in 1..block, NEW j \in 1..block, NEW x,
               OfOperation(x, i) \/ OfConstant(x, i), OfOperation(x, j) \/ OfConstant(x, j)
        PROVE  i = j
    <3>1. i \in 1..Len(kernel) /\ j \in 1..Len(kernel)
      BY <2>1
    <3>2. CASE OfOperation(x, i) /\ OfOperation(x, j)
      <4>1. PICK o \in DOMAIN kernel[i].ops : \E d \in DOMAIN kernel[i].ops[o].defs :
                                                x = kernel[i].ops[o].defs[d]
        BY <3>2 DEF OfOperation
      <4>2. PICK p \in DOMAIN kernel[j].ops : \E d \in DOMAIN kernel[j].ops[p].defs :
                                                x = kernel[j].ops[p].defs[d]
        BY <3>2 DEF OfOperation
      <4>3. PICK d \in DOMAIN kernel[i].ops[o].defs : x = kernel[i].ops[o].defs[d]
        BY <4>1
      <4>4. PICK e \in DOMAIN kernel[j].ops[p].defs : x = kernel[j].ops[p].defs[e]
        BY <4>2
      <4>5. \A a, b \in 1..Len(kernel) :
              \A q \in DOMAIN kernel[a].ops, r \in DOMAIN kernel[b].ops :
                \A u \in DOMAIN kernel[a].ops[q].defs, v \in DOMAIN kernel[b].ops[r].defs :
                  kernel[a].ops[q].defs[u] = kernel[b].ops[r].defs[v] => a = b
        BY <2>1, KernelFacts
      <4>. QED BY <3>1, <4>3, <4>4, <4>5
    <3>3. CASE OfConstant(x, i) /\ OfConstant(x, j)
      <4>1. Sanitized[kernel[i].label] = Sanitized[kernel[j].label]
        BY <3>3 DEF OfConstant, IsConstant
      <4>. QED BY <2>1, <3>1, <4>1, KernelFacts
    <3>4. ASSUME NEW k \in 1..Len(kernel), OfOperation(x, k) PROVE Len(x) = 1
      BY <2>1, <3>4, KernelFacts DEF OfOperation
    <3>5. ASSUME NEW k \in 1..Len(kernel), OfConstant(x, k) PROVE Len(x) = 3
      BY <3>5 DEF OfConstant, IsConstant
    <3>6. ~(OfOperation(x, i) /\ OfConstant(x, j)) /\ ~(OfConstant(x, i) /\ OfOperation(x, j))
      BY <3>1, <3>4, <3>5
    <3>. QED BY <2>2, <3>2, <3>3, <3>6
  <2>. QED BY <2>1, <2>2 DEF NamesIInv, NamesSoFar
<1>. QED BY <1>1, NamesInvariant, PTL
=============================================================================
