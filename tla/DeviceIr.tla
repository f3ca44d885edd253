------------------------------ MODULE DeviceIr ------------------------------
(***************************************************************************)
(* The device IR of crates/vortex-codegen: a kernel is a sequence of       *)
(* blocks, a block a label, operations and a terminator; phis carry values *)
(* over the edges.  The operations are those VortexOp has, through its     *)
(* constructors.                                                           *)
(*                                                                         *)
(* The second half is what a kernel means: the abstract machine that walks *)
(* the blocks.  Values are terms (operation, attributes, operands), so two *)
(* executions with equal traces agree whatever the operations compute; a   *)
(* branch goes either way, and the trace says on which condition.          *)
(***************************************************************************)
EXTENDS Naturals, Sequences, FiniteSets, SequencesExt

Name(n) == <<n>>                    \* %n
IntLiteral(n) == <<"int", n>>       \* 0
FloatLiteral(n) == <<"float", n>>   \* 0.0

(* args: operands that may be literals, in the order they are printed, with *)
(* their types; bases: pointers, which are always names; defs: the names    *)
(* the operation defines, the intermediate ones of a CSR read first.        *)
Op(kind, attr, defs, bases, args) ==
  [kind |-> kind, attr |-> attr, defs |-> defs, bases |-> bases, args |-> args]

StructFieldPtr(result, field, base) ==
  Op("field_ptr", field, <<result>>, <<base>>, <<>>)
Load(result, ty, ptr) == Op("load", ty, <<result>>, <<ptr>>, <<>>)
Store(ty, value, ptr) == Op("store", ty, <<>>, <<ptr>>, <<<<value, ty>>>>)
IntToPtr(result, ty, value) == Op("inttoptr", ty, <<result>>, <<>>, <<<<value, ty>>>>)
CsrReadI64(result, csr) == Op("csr_read", csr, <<result>>, <<>>, <<>>)
CtaCsrI32(result, raw64, csr) == Op("cta_csr", csr, <<raw64, result>>, <<>>, <<>>)
UniformCtaCsrI32(result, raw64, raw32, csr) ==
  Op("uniform_cta_csr", csr, <<raw64, raw32, result>>, <<>>, <<>>)
LocalMemAddr == 3295
LocalMemPtr(result, raw64) ==
  Op("local_mem_ptr", LocalMemAddr, <<raw64, result>>, <<>>, <<>>)
Barrier(id, warps) == Op("barrier", "insn", <<>>, <<>>, <<<<id, "i32">>, <<warps, "i32">>>>)
Binary(result, op, ty, lhs, rhs) ==
  Op("binary", op, <<result>>, <<>>, <<<<lhs, ty>>, <<rhs, ty>>>>)
FloatBinary(result, op, lhs, rhs) ==
  Op("float_binary", op, <<result>>, <<>>, <<<<lhs, "f32">>, <<rhs, "f32">>>>)
Icmp(result, predicate, ty, lhs, rhs) ==
  Op("icmp", predicate, <<result>>, <<>>, <<<<lhs, ty>>, <<rhs, ty>>>>)
Fcmp(result, predicate, lhs, rhs) ==
  Op("fcmp", predicate, <<result>>, <<>>, <<<<lhs, "f32">>, <<rhs, "f32">>>>)
Select(result, cond, ty, yes, no) ==
  Op("select", ty, <<result>>, <<>>, <<<<cond, "i1">>, <<yes, ty>>, <<no, ty>>>>)
Exp(result, value) == Op("exp", "f32", <<result>>, <<>>, <<<<value, "f32">>>>)
Gep(result, ty, base, index) ==
  Op("getelementptr", ty, <<result>>, <<base>>, <<<<index, "i64">>>>)
Cast(result, kind, from, value) == Op("cast", kind, <<result>>, <<>>, <<<<value, from>>>>)

(* incoming: <<value, predecessor>> pairs.                                  *)
Phi(result, ty, incoming) ==
  [kind |-> "phi", defs |-> <<result>>, ty |-> ty, incoming |-> incoming]

Br(label) == [kind |-> "br", cond |-> <<>>, labels |-> <<label>>]
CondBr(cond, then, else) ==
  [kind |-> "cond_br", cond |-> <<<<cond, "i1">>>>, labels |-> <<then, else>>]
RetVoid == [kind |-> "return", cond |-> <<>>, labels |-> <<>>]

Block(label, ops, terminator) ==
  [label |-> label, ops |-> ops, terminator |-> terminator]

(* The probe that reads the configuration tag of the RTL.                   *)
MandrelConfigId == 4037
IdentityProbe == <<
  Block("entry", <<StructFieldPtr(Name("out_addr_ptr"), 0, Name("arg")),
                   Load(Name("out_addr"), "i64", Name("out_addr_ptr")),
                   IntToPtr(Name("out_ptr"), "i64", Name("out_addr")),
                   CsrReadI64(Name("config_id"), MandrelConfigId),
                   Store("i64", Name("config_id"), Name("out_ptr"))>>, RetVoid)>>

(* The n-th of a set of positions.                                          *)
Nth(positions, n) ==
  CHOOSE i \in positions : Cardinality({j \in positions : j < i}) = n - 1

PhiPositions(block) == {i \in DOMAIN block.ops : block.ops[i].kind = "phi"}
Phis(block) ==
  [n \in 1..Cardinality(PhiPositions(block)) |-> block.ops[Nth(PhiPositions(block), n)]]
Work(block) == SelectSeq(block.ops, LAMBDA op : op.kind # "phi")
BlockAt(kernel, label) ==
  kernel[CHOOSE i \in DOMAIN kernel : kernel[i].label = label]
FromEdge(phi, label) ==
  LET first == CHOOSE i \in DOMAIN phi.incoming :
                 /\ phi.incoming[i][2] = label
                 /\ \A j \in 1..(i - 1) : phi.incoming[j][2] # label
  IN phi.incoming[first][1]
HasEdge(phi, label) == \E i \in DOMAIN phi.incoming : phi.incoming[i][2] = label

-----------------------------------------------------------------------------
(* What a kernel means.  An environment is a function from names to terms.  *)
Value(env, v) ==
  IF Len(v) = 2 THEN v ELSE IF v \in DOMAIN env THEN env[v] ELSE <<"undefined">>
Values(env, vs) == [i \in DOMAIN vs |-> Value(env, vs[i])]
Operands(env, op) == Values(env, op.bases) \o Values(env, [i \in DOMAIN op.args |-> op.args[i][1]])
Bind(env, names, terms) ==
  LET bound == {names[i] : i \in DOMAIN names}
  IN [n \in DOMAIN env \cup bound |->
        IF n \in bound THEN terms[CHOOSE i \in DOMAIN names : names[i] = n] ELSE env[n]]

Term(kind, attr, operands) == <<kind, attr, operands>>
Csr(number) == Term("csrr", "i64", <<IntLiteral(number)>>)
Narrow(term) == Term("cast", "trunc", <<term>>)

(* A load depends on the stores before it, so its term counts them.         *)
Defined(op, operands, trace) ==
  CASE op.kind = "csr_read" -> <<Csr(op.attr)>>
    [] op.kind = "cta_csr" -> <<Csr(op.attr), Narrow(Csr(op.attr))>>
    [] op.kind = "uniform_cta_csr" ->
         <<Csr(op.attr), Narrow(Csr(op.attr)),
           Term("call", "uniform", <<Narrow(Csr(op.attr))>>)>>
    [] op.kind = "local_mem_ptr" ->
         <<Csr(op.attr), Term("inttoptr", "i64", <<Csr(op.attr)>>)>>
    [] op.kind = "load" ->
         <<Term("load", op.attr, operands \o <<IntLiteral(Len(trace))>>)>>
    [] OTHER -> <<Term(op.kind, op.attr, operands)>>

Perform(s, op) ==
  LET operands == Operands(s.env, op)
  IN IF op.defs = <<>>
     THEN [s EXCEPT !.trace = Append(@, Term(op.kind, op.attr, operands))]
     ELSE [s EXCEPT !.env = Bind(@, op.defs, Defined(op, operands, s.trace))]

Took(s, cond, taken) ==
  IF cond = <<>> THEN s.trace
  ELSE Append(s.trace, Term("branch", taken, Values(s.env, <<cond[1][1]>>)))

(* All phis of a block take their values at once, on the edge walked.       *)
EnterBlock(env, block, from) ==
  LET phis == Phis(block)
  IN Bind(env, [i \in DOMAIN phis |-> phis[i].defs[1]],
          [i \in DOMAIN phis |-> Value(env, FromEdge(phis[i], from))])
=============================================================================
