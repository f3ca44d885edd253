---------------------------- MODULE MlirLowering ----------------------------
(***************************************************************************)
(* device_ir_mlir.rs: a kernel of the device IR printed as an LLVM-dialect *)
(* function, where phis have become block arguments and literals have      *)
(* become constants with names of their own; and the walk of the function  *)
(* that was printed.  The printing goes block by block and line by line,   *)
(* and panics when a successor or an incoming value is missing.            *)
(***************************************************************************)
EXTENDS DeviceIr

CONSTANTS
  Kernels,     \* the kernels to lower
  Sanitized,   \* sanitize_ssa_component: labels to prefixes of SSA names
  MaxWalked    \* bound: blocks walked of the printed function

IsSequence(s) == Len(s) \in Nat /\ s = [i \in 1..Len(s) |-> s[i]]

(* Operations as the constructors of VortexOp make them.                   *)
DefinedBy(kind) ==
  IF kind \in {"csr_read", "phi"} THEN {1}
  ELSE IF kind = "uniform_cta_csr" THEN {3}
  ELSE IF kind \in {"cta_csr", "local_mem_ptr"} THEN {2} ELSE {0, 1}
WellFormed(o) ==
  /\ IsSequence(o.defs) /\ Len(o.defs) \in DefinedBy(o.kind)
  /\ \A d \in DOMAIN o.defs : Len(o.defs[d]) = 1
  /\ o.kind # "phi" => IsSequence(o.args)

(* What the builders make: blocks with labels of their own, also after     *)
(* sanitize_ssa_component; an entry block without phis; each name defined  *)
(* by one operation.                                                       *)
ASSUME LoweringAssumption ==
  \A k \in Kernels :
    /\ Len(k) \in Nat \ {0} /\ DOMAIN k = 1..Len(k)
    /\ \A i, j \in DOMAIN k : k[i].label = k[j].label => i = j
    /\ \A i, j \in DOMAIN k : Sanitized[k[i].label] = Sanitized[k[j].label] => i = j
    /\ Phis(k[1]) = <<>>
    /\ \A i \in DOMAIN k :
         /\ IsSequence(k[i].ops) /\ \A o \in DOMAIN k[i].ops : WellFormed(k[i].ops[o])
         /\ IsSequence(k[i].terminator.cond) /\ IsSequence(k[i].terminator.labels)
         /\ Len(k[i].terminator.labels) <= 2
    /\ \A i, j \in DOMAIN k : \A o \in DOMAIN k[i].ops, p \in DOMAIN k[j].ops :
         \A d \in DOMAIN k[i].ops[o].defs, e \in DOMAIN k[j].ops[p].defs :
           k[i].ops[o].defs[d] = k[j].ops[p].defs[e] => i = j /\ o = p /\ d = e

VARIABLES
  kernel,     \* the kernel being lowered
  phase,      \* "print", "walk" or "panicked"
  block,      \* index of the block being printed; 0 before the first
  op,         \* index of its next operation
  constants,  \* const_counter of its emitter
  mlir,       \* the blocks printed so far
  at, env, trace, walked   \* the walk of the printed function

printVars == <<phase, block, op, constants, mlir>>
walkVars == <<at, env, trace, walked>>
loweringVars == <<kernel, printVars, walkVars>>

LoweringInit ==
  /\ kernel \in Kernels
  /\ phase = "print" /\ block = 0 /\ op = 0 /\ constants = 0 /\ mlir = <<>>
  /\ at = kernel[1].label /\ walked = 0
  /\ env = [n \in {Name("arg")} |-> <<"arg">>] /\ trace = <<>>

-----------------------------------------------------------------------------
(* is_literal_for_type: an f32 operand needs a point or an exponent, any    *)
(* other type an integer.                                                   *)
IsLiteral(arg) == arg[1][1] = (IF arg[2] = "f32" THEN "float" ELSE "int") /\ Len(arg[1]) = 2

(* Mutant: the names of constants do not tell the blocks apart.             *)
UnprefixedName(label, count, ty) == <<"v", count, ty>>
ConstantName(label, count, ty) == <<Sanitized[label], count, ty>>

Line(kind, attr, defs, operands) ==
  [kind |-> kind, attr |-> attr, defs |-> defs, operands |-> operands]

(* ensure_value on each operand in turn: the k-th is a literal that gets a  *)
(* constant, or is used as it stands.                                       *)
Literals(args) == {k \in DOMAIN args : IsLiteral(args[k])}
Ensured(args, label, count) ==
  [k \in DOMAIN args |->
     IF IsLiteral(args[k])
     THEN ConstantName(label, count + Cardinality({j \in Literals(args) : j < k}), args[k][2])
     ELSE args[k][1]]
ConstantLines(args, label, count) ==
  [n \in 1..Cardinality(Literals(args)) |->
     LET arg == args[Nth(Literals(args), n)]
     IN Line("constant", arg[2], <<ConstantName(label, count + n - 1, arg[2])>>, <<arg[1]>>)]

-----------------------------------------------------------------------------
Current == kernel[block]
(* The block arguments are the phis of the block, in their order; the entry *)
(* block is printed without a label or arguments.                           *)
BlockArguments(b) ==
  IF b = 1 THEN <<>>
  ELSE [i \in DOMAIN Phis(kernel[b]) |-> <<Phis(kernel[b])[i].defs[1], Phis(kernel[b])[i].ty>>]

OpenBlock ==
  /\ phase = "print" /\ op = 0 /\ block < Len(kernel)
  /\ block' = block + 1 /\ op' = 1 /\ constants' = 0
  /\ mlir' = Append(mlir, [label |-> kernel[block'].label,
                           args |-> BlockArguments(block'),
                           lines |-> <<>>, kind |-> "none", cond |-> <<>>, edges |-> <<>>])
  /\ UNCHANGED <<kernel, phase, walkVars>>

(* emit_csr_read_i64: the number of the CSR is an i32 constant.             *)
CsrLines(def, csr) ==
  LET arg == <<<<IntLiteral(csr), "i32">>>>
  IN ConstantLines(arg, Current.label, constants)
       \o <<Line("csrr", "i64", <<def>>, Ensured(arg, Current.label, constants))>>

(* The lines of an operation after its constants: a CSR read is narrowed,   *)
(* and passed through the uniform intrinsic when it is uniform.             *)
CsrTail(o) ==
  CASE o.kind = "cta_csr" -> <<Line("cast", "trunc", <<o.defs[2]>>, <<o.defs[1]>>)>>
    [] o.kind = "uniform_cta_csr" ->
         <<Line("cast", "trunc", <<o.defs[2]>>, <<o.defs[1]>>),
           Line("call", "uniform", <<o.defs[3]>>, <<o.defs[2]>>)>>
    [] o.kind = "local_mem_ptr" -> <<Line("inttoptr", "i64", <<o.defs[2]>>, <<o.defs[1]>>)>>
    [] OTHER -> <<>>
ReadsCsr == {"csr_read", "cta_csr", "uniform_cta_csr", "local_mem_ptr"}

LinesOf(o) ==
  IF o.kind \in ReadsCsr THEN CsrLines(o.defs[1], o.attr) \o CsrTail(o)
  ELSE ConstantLines(o.args, Current.label, constants)
         \o <<Line(o.kind, o.attr, o.defs, o.bases \o Ensured(o.args, Current.label, constants))>>
ConstantsOf(o) == IF o.kind \in ReadsCsr THEN 1 ELSE Cardinality(Literals(o.args))

SkipPhi ==
  /\ phase = "print" /\ op > 0 /\ op \in DOMAIN Current.ops /\ Current.ops[op].kind = "phi"
  /\ op' = op + 1
  /\ UNCHANGED <<kernel, phase, block, constants, mlir, walkVars>>

EmitOp ==
  /\ phase = "print" /\ op > 0 /\ op \in DOMAIN Current.ops /\ Current.ops[op].kind # "phi"
  /\ mlir' = [mlir EXCEPT ![block].lines = @ \o LinesOf(Current.ops[op])]
  /\ constants' = constants + ConstantsOf(Current.ops[op])
  /\ op' = op + 1
  /\ UNCHANGED <<kernel, phase, block, walkVars>>

-----------------------------------------------------------------------------
(* render_successor: the values the phis of the target take on the edge     *)
(* from this block.                                                         *)
Known(label) == \E i \in DOMAIN kernel : kernel[i].label = label
Renderable(label) ==
  /\ Known(label)
  /\ \A i \in DOMAIN Phis(BlockAt(kernel, label)) :
       HasEdge(Phis(BlockAt(kernel, label))[i], Current.label)
(* Mutants: the first incoming value whatever its edge; no argument for a   *)
(* literal.                                                                 *)
FirstIncoming(label) ==
  LET phis == Phis(BlockAt(kernel, label))
  IN [i \in DOMAIN phis |-> <<phis[i].incoming[1][1], phis[i].ty>>]
NamesOnly(label) ==
  LET phis == Phis(BlockAt(kernel, label))
  IN SelectSeq([i \in DOMAIN phis |-> <<FromEdge(phis[i], Current.label), phis[i].ty>>],
               LAMBDA arg : ~IsLiteral(arg))
EdgeArgs(label) ==
  LET phis == Phis(BlockAt(kernel, label))
  IN [i \in DOMAIN phis |-> <<FromEdge(phis[i], Current.label), phis[i].ty>>]

(* The condition, then the arguments of each edge in turn share the         *)
(* counter; all constants stand before the branch.                          *)
EmitTerminator ==
  /\ phase = "print" /\ op > 0 /\ op = Len(Current.ops) + 1
  /\ LET exit == Current.terminator
         argsOf(edge) == EdgeArgs(exit.labels[edge])
         before(edge) == exit.cond \o (IF edge > 1 THEN argsOf(1) ELSE <<>>)
                                   \o (IF edge > 2 THEN argsOf(2) ELSE <<>>)
         all == before(Len(exit.labels) + 1)
     IN IF \A edge \in DOMAIN exit.labels : Renderable(exit.labels[edge])
        THEN /\ mlir' = [mlir EXCEPT ![block] =
                  [mlir[block] EXCEPT
                     !.lines = @ \o ConstantLines(all, Current.label, constants),
                     !.kind = exit.kind,
                     !.cond = Ensured(exit.cond, Current.label, constants),
                     !.edges = [edge \in DOMAIN exit.labels |->
                        [label |-> exit.labels[edge],
                         types |-> [i \in DOMAIN argsOf(edge) |-> argsOf(edge)[i][2]],
                         values |-> Ensured(argsOf(edge), Current.label,
                                            constants + Cardinality(Literals(before(edge))))]]]]
             /\ phase' = IF block = Len(kernel) THEN "walk" ELSE phase
        ELSE phase' = "panicked" /\ UNCHANGED mlir
  /\ op' = 0
  /\ UNCHANGED <<kernel, block, constants, walkVars>>

-----------------------------------------------------------------------------
(* The walk of the printed function: lines in order, then one edge, whose   *)
(* values become the arguments of its block by position.                    *)
PerformLine(s, line) ==
  LET operands == Values(s.env, line.operands)
  IN CASE line.kind = "constant" -> [s EXCEPT !.env = Bind(@, line.defs, line.operands)]
       [] line.defs = <<>> ->
            [s EXCEPT !.trace = Append(@, Term(line.kind, line.attr, operands))]
       [] line.kind = "load" ->
            [s EXCEPT !.env = Bind(@, line.defs,
               <<Term("load", line.attr, operands \o <<IntLiteral(Len(s.trace))>>)>>)]
       [] OTHER -> [s EXCEPT !.env = Bind(@, line.defs, <<Term(line.kind, line.attr, operands)>>)]

WalkPrinted ==
  /\ phase = "walk" /\ at # "done" /\ walked < MaxWalked
  /\ LET b == BlockAt(mlir, at)
         s == FoldLeft(PerformLine, [env |-> env, trace |-> trace], b.lines)
     IN IF b.kind = "return"
        THEN at' = "done" /\ env' = s.env /\ trace' = s.trace
        ELSE \E edge \in DOMAIN b.edges :
               LET target == BlockAt(mlir, b.edges[edge].label)
               IN /\ Len(target.args) = Len(b.edges[edge].values)
                  /\ at' = target.label
                  /\ env' = Bind(s.env, [i \in DOMAIN target.args |-> target.args[i][1]],
                                 Values(s.env, b.edges[edge].values))
                  /\ trace' = IF b.cond = <<>> THEN s.trace
                              ELSE Append(s.trace,
                                     Term("branch", IF edge = 1 THEN "yes" ELSE "no",
                                          Values(s.env, b.cond)))
  /\ walked' = walked + 1
  /\ UNCHANGED <<kernel, printVars>>

LoweringNext == OpenBlock \/ SkipPhi \/ EmitOp \/ EmitTerminator \/ WalkPrinted
LoweringSpec == LoweringInit /\ [][LoweringNext]_loweringVars

-----------------------------------------------------------------------------
(* No name is defined by two lines or arguments of a function: the emitter  *)
(* of each block counts its constants from 0 again and relies on the prefix *)
(* made from the label.                                                     *)
Definitions(b) ==   \* the names its arguments have (0), and each line defines
  [l \in 0..Len(b.lines) |-> IF l = 0 THEN [i \in DOMAIN b.args |-> b.args[i][1]]
                             ELSE b.lines[l].defs]
Names(defs) == UNION {Range(defs[l]) : l \in DOMAIN defs}
Once(defs) ==
  \A l, m \in DOMAIN defs : \A d \in DOMAIN defs[l], e \in DOMAIN defs[m] :
    defs[l][d] = defs[m][e] => l = m /\ d = e
NamesDefinedOnce ==
  phase # "print" =>
    /\ \A i \in DOMAIN mlir : Once(Definitions(mlir[i]))
    /\ \A i, j \in DOMAIN mlir :
         i # j => Names(Definitions(mlir[i])) \cap Names(Definitions(mlir[j])) = {}

(* Every edge of a printed function passes what its block takes: the        *)
(* arguments are collected by the branch and declared by the block, each    *)
(* from the phis, in separate passes.                                       *)
EdgesFitBlocks ==
  phase = "walk" =>
    \A i \in DOMAIN mlir : \A e \in DOMAIN mlir[i].edges :
      LET edge == mlir[i].edges[e]
          target == BlockAt(mlir, edge.label)
      IN edge.types = [k \in DOMAIN target.args |-> target.args[k][2]]

(* The printed function does what the kernel means: it implements           *)
(* KernelExecution when the names of the constants are left out of its      *)
(* environment.  This is about phis read in parallel, literals on edges and *)
(* operands, and the expansion of CSR reads.                                *)
IrNames == {n \in DOMAIN env : Len(n) = 1}
Execution == INSTANCE KernelExecution WITH env <- [n \in IrNames |-> env[n]]
ImplementsKernel == Execution!ExecutionSpec
=============================================================================
