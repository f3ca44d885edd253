--------------------------- MODULE MCMlirLowering ---------------------------
(* A loop whose two phis take any of several values on either edge (among   *)
(* them each other's, a swap), a diamond with literals on the edges of its  *)
(* branch, one of which goes straight to the join, a block with every kind  *)
(* of operation, and two kernels that cannot be printed.                    *)
EXTENDS MlirLowering

N(n) == Name(n)
Zero == IntLiteral(0)
MCSanitized == [l \in {"entry", "loop", "body", "then", "join", "exit"} |-> l]

Exit == Block("exit", <<>>, RetVoid)

Loop(a0, a1, b0, b1) == <<
  Block("entry", <<UniformCtaCsrI32(N("n"), N("n64"), N("n32"), 3286),
                   StructFieldPtr(N("p"), 0, N("arg"))>>, Br("loop")),
  Block("loop", <<Phi(N("a"), "i32", <<<<a0, "entry">>, <<a1, "body">>>>),
                  Phi(N("b"), "i32", <<<<b1, "body">>, <<b0, "entry">>>>),
                  Icmp(N("more"), "ult", "i32", N("a"), N("n"))>>,
        CondBr(N("more"), "body", "exit")),
  Block("body", <<Binary(N("sum"), "add", "i32", N("b"), IntLiteral(1)),
                  Store("i32", N("sum"), N("p"))>>, Br("loop")),
  Exit>>

Diamond(f, g, h) == <<
  Block("entry", <<CtaCsrI32(N("x"), N("x64"), 3283), IntToPtr(N("q"), "i64", N("x64")),
                   Load(N("v"), "f32", N("q")),
                   Fcmp(N("big"), "ogt", N("v"), FloatLiteral(0))>>,
        CondBr(N("big"), "then", "join")),
  Block("then", <<Phi(N("t"), "f32", <<<<h, "entry">>>>), Exp(N("w"), N("t")),
                  Store("f32", N("w"), N("q"))>>, Br("join")),
  Block("join", <<Phi(N("r"), "f32", <<<<f, "then">>, <<g, "entry">>>>),
                  Load(N("u"), "f32", N("q")),
                  FloatBinary(N("s"), "fmul", N("r"), N("u")),
                  Store("f32", N("s"), N("q"))>>, Br("exit")),
  Exit>>

Straight == <<
  Block("entry", <<CsrReadI64(N("id"), 4037), LocalMemPtr(N("l"), N("l64")),
                   Barrier(Zero, IntLiteral(2)),
                   Gep(N("g"), "i8", N("l"), IntLiteral(8)),
                   Cast(N("c"), "trunc", "i64", N("id")),
                   Select(N("z"), IntLiteral(1), "i32", N("c"), Zero),
                   Store("i32", N("z"), N("g")),
                   Store("i64", Zero, N("l"))>>, Br("exit")),
  Exit>>

NoIncoming == <<Block("entry", <<>>, Br("join")),
                Block("join", <<Phi(N("r"), "i32", <<<<Zero, "then">>>>)>>, RetVoid)>>
NoSuccessor == <<Block("entry", <<>>, Br("join"))>>

MCKernels ==
  {Loop(a0, a1, b0, b1) : a0 \in {Zero, N("n")}, b0 \in {Zero, IntLiteral(1)},
                          a1 \in {N("a"), N("b"), N("sum")}, b1 \in {N("a"), N("b"), Zero}}
  \cup {Diamond(f, g, h) : f \in {N("w"), FloatLiteral(1)}, g \in {N("v"), FloatLiteral(0)},
                           h \in {N("v"), FloatLiteral(2)}}
  \cup {Straight, IdentityProbe, NoIncoming, NoSuccessor}
=============================================================================
