----------------------- MODULE AttentionRecordProofs -----------------------
(***************************************************************************)
(* Every property the run record checks, for any ops, targets, devices,    *)
(* settings, tile, block, default shape and widths of u32 and u64.         *)
(***************************************************************************)
EXTENDS AttentionRecord, SequenceTheorems, TLAPS

-----------------------------------------------------------------------------
(* The invariant: what each step has left behind for the steps after it.   *)
AfterOpen == {"launch", "describe", "compare", "collect", "done"}
AfterInput == AfterOpen \cup {"open"}
AfterCompile == AfterInput \cup {"abi", "input"}

Planned ==
  plan # Absent \/ launched # Absent \/ pc \in AfterCompile =>
    plan = Plan(op) /\ CompileError(op, target) = "none"

ShapeChosen ==
  pc \in AfterInput =>
    /\ input = spec
    /\ input[1] \in 1..op.sequence /\ input[2] \in 1..op.head_dim

ContractHolds ==
  launched # Absent \/ pc \in AfterOpen =>
    /\ Observable /\ Mismatched(target, ObservedFacts) = {}
    /\ contract = Contract(target, ObservedFacts)

LaunchedAsPlanned ==
  pc \in AfterOpen \ {"launch"} => launched = RuntimeDims /\ mismatches \in Nat

Described == pc \in {"compare", "collect", "done"} => workload = Workload

Printed ==
  pc \in {"collect", "done"} =>
    /\ mismatches = 0 /\ stdout.perf \in PerfOutput
    /\ stdout.compare = [elements |-> Elements, mismatches |-> 0]
    /\ stdout.trace = [launch |-> launched, workload |-> workload,
                       to_device |-> 3 * Elements, from_device |-> Elements]

Recorded == result # Absent => pc = "done" /\ result = MakeResult

RecordIInv ==
  /\ op \in Ops /\ device \in Devices
  /\ Planned /\ ShapeChosen /\ ContractHolds /\ LaunchedAsPlanned
  /\ Described /\ Printed /\ Recorded /\ PlannedRunGoesThrough

-----------------------------------------------------------------------------
(* Arithmetic.                                                             *)

LEMMA ProductMonotone ==
  ASSUME NEW a \in Nat, NEW b \in Nat, NEW c \in Nat, NEW d \in Nat, a <= c, b <= d
  PROVE  a * b \in Nat /\ c * d \in Nat /\ a * b <= c * d
<1>1. PICK e \in Nat : c = a + e
  <2>1. c - a \in Nat /\ c = a + (c - a)
    OBVIOUS
  <2>. QED BY <2>1
<1>2. PICK f \in Nat : d = b + f
  <2>1. d - b \in Nat /\ d = b + (d - b)
    OBVIOUS
  <2>. QED BY <2>1
<1>3. c * d = a * b + a * f + e * b + e * f
  BY <1>1, <1>2
<1>4. a * b \in Nat /\ a * f \in Nat /\ e * b \in Nat /\ e * f \in Nat
  OBVIOUS
<1>. QED BY <1>3, <1>4

(* A tile count is at least one and at most the extent, and a smaller      *)
(* extent has no more tiles.                                               *)
LEMMA Quotient ==
  ASSUME NEW a \in Nat, NEW b \in Nat \ {0}
  PROVE  /\ DivCeil(a, b) \in Nat
         /\ DivCeil(a, b) * b < a + b
         /\ DivCeil(a, b) * b >= a
<1>. DEFINE n == a + b - 1
            q == n \div b
            r == n % b
<1>1. n \in Nat
  OBVIOUS
<1>2. q \in Int /\ r \in 0..b-1 /\ n = b * q + r
  <2>. HIDE DEF n
  <2>. QED BY <1>1
<1>3. q \in Nat
  <2>. HIDE DEF n, q, r
  <2>. QED BY <1>1, <1>2
<1>4. b * q = q * b /\ q * b \in Nat
  <2>. HIDE DEF n, q, r
  <2>. QED BY <1>3
<1>5. DivCeil(a, b) = q
  BY DEF DivCeil
<1>6. q * b < a + b /\ q * b >= a
  <2>1. q * b = a + b - 1 - r
    BY <1>2, <1>4
  <2>. HIDE DEF n, q, r
  <2>. QED BY <2>1, <1>2, <1>4
<1>. HIDE DEF q
<1>. QED BY <1>3, <1>5, <1>6

LEMMA TilesInExtent ==
  ASSUME NEW a \in Nat \ {0}, NEW b \in Nat \ {0}
  PROVE  DivCeil(a, b) \in 1..a
<1>. DEFINE q == DivCeil(a, b)
<1>1. q \in Nat /\ q * b < a + b /\ q * b >= a
  BY Quotient
<1>. HIDE DEF q
<1>2. q # 0
  BY <1>1
<1>3. ~(q >= a + 1)
  <2>1. ASSUME q >= a + 1 PROVE (a + 1) * b <= q * b
    BY <2>1, <1>1, ProductMonotone
  <2>2. (a + 1) * b = a * b + b /\ a * b >= a * 1
    BY ProductMonotone, a <= a, 1 <= b, 1 \in Nat
  <2>3. a * b \in Nat /\ (a + 1) * b \in Nat /\ q * b \in Nat
    BY <1>1
  <2>. QED BY <2>1, <2>2, <2>3, <1>1
<1>4. q \in 1..a
  BY <1>1, <1>2, <1>3
<1>. QED BY <1>4 DEF q

LEMMA TilesMonotone ==
  ASSUME NEW a \in Nat, NEW c \in Nat, NEW b \in Nat \ {0}, a <= c
  PROVE  DivCeil(a, b) \in Nat /\ DivCeil(c, b) \in Nat /\ DivCeil(a, b) <= DivCeil(c, b)
<1>. DEFINE p == DivCeil(a, b)
            q == DivCeil(c, b)
<1>1. p \in Nat /\ p * b < a + b /\ q \in Nat /\ q * b >= c
  BY Quotient
<1>. HIDE DEF p, q
<1>2. ~(p >= q + 1)
  <2>1. ASSUME p >= q + 1 PROVE (q + 1) * b <= p * b
    BY <2>1, <1>1, ProductMonotone
  <2>2. (q + 1) * b = q * b + b
    BY <1>1
  <2>3. p * b \in Nat /\ q * b \in Nat
    BY <1>1
  <2>. QED BY <2>1, <2>2, <2>3, <1>1
<1>3. p \in Nat /\ q \in Nat /\ p <= q
  BY <1>1, <1>2
<1>. QED BY <1>3 DEF p, q

(* Checked numbers: x is at most y when y is a number, and x is one then.  *)
AtMost(x, y) == y # Overflow => x \in Nat /\ y \in Nat /\ x <= y

LEMMA MulAtMost ==
  ASSUME NEW a, NEW b, NEW c, NEW d, AtMost(a, c), AtMost(b, d)
  PROVE  AtMost(Mul(a, b), Mul(c, d))
<1>1. SUFFICES ASSUME Mul(c, d) # Overflow
               PROVE  Mul(a, b) \in Nat /\ Mul(c, d) \in Nat /\ Mul(a, b) <= Mul(c, d)
  BY DEF AtMost
<1>2. c # Overflow /\ d # Overflow
  BY <1>1 DEF Mul
<1>3. a \in Nat /\ b \in Nat /\ c \in Nat /\ d \in Nat /\ a <= c /\ b <= d
  BY <1>2 DEF AtMost
<1>4. Mul(c, d) = c * d /\ c * d <= MaxU64
  BY <1>1, <1>2 DEF Mul, CheckedMul
<1>5. a * b \in Nat /\ c * d \in Nat /\ a * b <= c * d
  BY <1>3, ProductMonotone
<1>6. a # Overflow /\ b # Overflow
  BY <1>3, LimitsAssumption
<1>7. a * b <= MaxU64
  BY <1>4, <1>5, LimitsAssumption
<1>8. Mul(a, b) = a * b
  BY <1>6, <1>7 DEF Mul, CheckedMul
<1>. QED BY <1>4, <1>5, <1>8

LEMMA AddAtMost ==
  ASSUME NEW a, NEW b, NEW c, NEW d, AtMost(a, c), AtMost(b, d)
  PROVE  AtMost(Add(a, b), Add(c, d))
<1>1. SUFFICES ASSUME Add(c, d) # Overflow
               PROVE  Add(a, b) \in Nat /\ Add(c, d) \in Nat /\ Add(a, b) <= Add(c, d)
  BY DEF AtMost
<1>2. c # Overflow /\ d # Overflow /\ Add(c, d) = c + d /\ ~(c + d > MaxU64)
  BY <1>1 DEF Add
<1>3. a \in Nat /\ b \in Nat /\ c \in Nat /\ d \in Nat /\ a <= c /\ b <= d
  BY <1>2 DEF AtMost
<1>4. a # Overflow /\ b # Overflow /\ ~(a + b > MaxU64)
  BY <1>2, <1>3, LimitsAssumption
<1>5. Add(a, b) = a + b
  BY <1>4 DEF Add
<1>. QED BY <1>2, <1>3, <1>5

-----------------------------------------------------------------------------
(* The work of a smaller shape is no more, count by count, so it overflows *)
(* nowhere where the work of the larger shape does not.                    *)
LEMMA WorkgroupsAtMost ==
  ASSUME NEW s \in Nat, NEW d \in Nat, NEW S \in Nat, NEW D \in Nat, s <= S, d <= D
  PROVE  AtMost(Workgroups(s, d), Workgroups(S, D))
<1>1. ScheduleTile.query \in Nat \ {0} /\ ScheduleTile.head_dim \in Nat \ {0}
  BY PlanAssumption
<1>2. /\ AtMost(DivCeil(s, ScheduleTile.query), DivCeil(S, ScheduleTile.query))
      /\ AtMost(DivCeil(d, ScheduleTile.head_dim), DivCeil(D, ScheduleTile.head_dim))
  BY <1>1, TilesMonotone DEF AtMost
<1>3. AtMost(Mul(DivCeil(s, ScheduleTile.query), DivCeil(d, ScheduleTile.head_dim)),
             Mul(DivCeil(S, ScheduleTile.query), DivCeil(D, ScheduleTile.head_dim)))
  BY <1>2, MulAtMost
<1>. QED BY <1>3 DEF Workgroups, TileCounts

LEMMA EstimateAtMost ==
  ASSUME NEW s \in Nat, NEW d \in Nat, NEW S \in Nat, NEW D \in Nat, s <= S, d <= D
  PROVE  /\ AtMost(Score(s, d), Score(S, D))
         /\ \A f \in DOMAIN Estimate(S, D) : AtMost(Estimate(s, d)[f], Estimate(S, D)[f])
<1>1. /\ AtMost(s, S) /\ AtMost(d, D)
      /\ AtMost(2, 2) /\ AtMost(BlockThreads, BlockThreads)
  <2>1. BlockThreads \in Nat
    BY PlanAssumption DEF BlockThreads
  <2>. QED BY <2>1 DEF AtMost
<1>2. AtMost(Score(s, d), Score(S, D))
  BY <1>1, MulAtMost DEF Score
<1>3. AtMost(LoweredQkMacs(s, d), LoweredQkMacs(S, D))
  BY <1>1, <1>2, MulAtMost DEF LoweredQkMacs
<1>4. AtMost(Workgroups(s, d), Workgroups(S, D))
  BY WorkgroupsAtMost
<1>5. AtMost(Add(Score(s, d), Score(s, d)), Add(Score(S, D), Score(S, D)))
  BY <1>2, AddAtMost
<1>6. AtMost(Add(LoweredQkMacs(s, d), Score(s, d)), Add(LoweredQkMacs(S, D), Score(S, D)))
  BY <1>2, <1>3, AddAtMost
<1>7. AtMost(Mul(Workgroups(s, d), BlockThreads), Mul(Workgroups(S, D), BlockThreads))
  BY <1>1, <1>4, MulAtMost
<1>8. AtMost(Add(Mul(LoweredQkMacs(s, d), 2), Score(s, d)),
             Add(Mul(LoweredQkMacs(S, D), 2), Score(S, D)))
  BY <1>1, <1>2, <1>3, MulAtMost, AddAtMost
<1>9. AtMost(Mul(s, d), Mul(S, D))
  BY <1>1, MulAtMost
<1>. QED BY <1>2, <1>4, <1>5, <1>6, <1>7, <1>8, <1>9 DEF Estimate

LEMMA SmallerWorkFits ==
  ASSUME NEW s \in Nat, NEW d \in Nat, NEW S \in Nat, NEW D \in Nat, s <= S, d <= D,
         ~EstimateOverflows(S, D)
  PROVE  ~EstimateOverflows(s, d)
<1>1. DOMAIN Estimate(s, d) = DOMAIN Estimate(S, D)
  BY DEF Estimate
<1>2. SUFFICES ASSUME NEW f \in DOMAIN Estimate(S, D) PROVE Estimate(s, d)[f] # Overflow
  BY <1>1 DEF EstimateOverflows
<1>3. Estimate(S, D)[f] # Overflow
  BY DEF EstimateOverflows
<1>4. AtMost(Estimate(s, d)[f], Estimate(S, D)[f])
  BY EstimateAtMost
<1>. QED BY <1>3, <1>4, LimitsAssumption DEF AtMost

(* Work that fits u64 bounds the shape: its square, twice, is in it.       *)
LEMMA WorkBoundsShape ==
  ASSUME NEW s \in Nat, NEW d \in Nat, ~EstimateOverflows(s, d)
  PROVE  /\ s * d \in 0..MaxU32
         /\ Score(s, d) = s * s * d /\ s * s * d \in Nat
         /\ s * s * d + s * s * d <= MaxU64
         /\ Workgroups(s, d) # Overflow /\ Mul(Workgroups(s, d), BlockThreads) # Overflow
<1>1. /\ Add(Score(s, d), Score(s, d)) # Overflow
      /\ Add(LoweredQkMacs(s, d), Score(s, d)) # Overflow
      /\ Workgroups(s, d) # Overflow /\ Mul(Workgroups(s, d), BlockThreads) # Overflow
  BY DEF EstimateOverflows, Estimate
<1>2. Score(s, d) # Overflow /\ LoweredQkMacs(s, d) # Overflow
  BY <1>1 DEF Add
<1>3. Score(s, d) = s * s * d /\ s * s \in Nat /\ s * s * d \in Nat
  <2>1. s * s \in Nat /\ (s * s) * d \in Nat
    BY ProductMonotone, s <= s, d <= d
  <2>. QED BY <1>2, <2>1, LimitsAssumption DEF Score, Mul, CheckedMul
<1>4. s * s * d + s * s * d <= MaxU64
  <2>. DEFINE x == Score(s, d)
  <2>1. x \in Nat /\ MaxU64 \in Nat /\ ~(x + x > MaxU64)
    BY <1>1, <1>2, <1>3, LimitsAssumption DEF Add
  <2>. HIDE DEF x
  <2>2. x + x <= MaxU64
    BY <2>1
  <2>. QED BY <2>2, <1>3 DEF x
<1>5. LoweredQkMacs(s, d) = (s * s * d) * d * 2 /\ (s * s * d) * d * 2 <= MaxU64
  <2>1. Mul(Score(s, d), d) # Overflow
    BY <1>2 DEF LoweredQkMacs, Mul
  <2>2. Mul(Score(s, d), d) = (s * s * d) * d
    BY <1>3, <2>1 DEF Mul, CheckedMul
  <2>. QED BY <1>2, <2>1, <2>2 DEF LoweredQkMacs, Mul, CheckedMul
<1>6. (s * s * d) * d * 2 = 2 * ((s * d) * (s * d)) /\ s * d \in Nat
  BY ProductMonotone, s <= s, d <= d
<1>7. s * d <= MaxU32
  <2>. DEFINE n == s * d
              m == MaxU32 + 1
  <2>1. n \in Nat /\ m \in Nat /\ m * m - 1 = MaxU64 /\ 2 * (n * n) <= MaxU64
    BY <1>5, <1>6, PlanAssumption
  <2>. HIDE DEF n, m
  <2>2. n * n \in Nat /\ m * m \in Nat
    BY <2>1, ProductMonotone, n <= n, m <= m
  <2>3. ~(n >= m)
    <3>1. ASSUME n >= m PROVE m * m <= n * n
      BY <3>1, <2>1, ProductMonotone
    <3>. QED BY <3>1, <2>1, <2>2
  <2>4. n < m
    BY <2>1, <2>3
  <2>. QED BY <2>4, <2>1, PlanAssumption DEF n, m
<1>. QED BY <1>1, <1>3, <1>4, <1>6, <1>7

-----------------------------------------------------------------------------
(* What a successful compilation has established.                          *)

LEMMA FirstErrorIsOne ==
  ASSUME NEW errors, DOMAIN errors = 1..5
  PROVE  \/ FirstError(errors) = "none" /\ \A i \in 1..5 : ~errors[i].holds
         \/ \E i \in 1..5 : FirstError(errors) = errors[i].kind
<1>. DEFINE Holds(i) == errors[i].holds
            First(i) == Holds(i) /\ \A j \in 1..(i - 1) : ~Holds(j)
<1>1. ASSUME NEW i \in 1..5, Holds(i) PROVE \E k \in 1..5 : First(k)
  <2>. HIDE DEF Holds
  <2>. QED BY <1>1
<1>2. CASE \A i \in 1..5 : ~errors[i].holds
  <2>1. FirstError(errors) = "none"
    BY <1>2 DEF FirstError
  <2>. QED BY <1>2, <2>1
<1>3. CASE \E i \in 1..5 : errors[i].holds
  <2>. DEFINE least == CHOOSE k \in DOMAIN errors :
                         errors[k].holds /\ \A j \in 1..(k - 1) : ~errors[j].holds
  <2>1. \E k \in DOMAIN errors : errors[k].holds /\ \A j \in 1..(k - 1) : ~errors[j].holds
    BY <1>1, <1>3
  <2>2. least \in 1..5
    BY <2>1
  <2>3. FirstError(errors) = errors[least].kind
    BY <1>3 DEF FirstError
  <2>. QED BY <2>2, <2>3
<1>. QED BY <1>2, <1>3

LEMMA CompileErrorKinds ==
  ASSUME NEW o, NEW t
  PROVE  CompileError(o, t) \in
           {"none", "UnsupportedElementType", "UnsupportedShape", "ScheduleSelectionFailed",
            "MetricsOverflow", "LaunchShapeOverflow"}
<1>. DEFINE errors == CompileErrors(o, t)
<1>1. /\ DOMAIN errors = 1..5
      /\ errors[1].kind = "UnsupportedElementType" /\ errors[2].kind = "UnsupportedShape"
      /\ errors[3].kind = "ScheduleSelectionFailed" /\ errors[4].kind = "MetricsOverflow"
      /\ errors[5].kind = "LaunchShapeOverflow"
  BY DEF CompileErrors
<1>2. CompileError(o, t) = FirstError(errors)
  BY DEF CompileError
<1>. HIDE DEF errors
<1>. QED BY <1>1, <1>2, FirstErrorIsOne

LEMMA CompiledFacts ==
  ASSUME NEW o, NEW t, o.sequence \in Nat, o.head_dim \in Nat,
         CompileError(o, t) = "none"
  PROVE  /\ o.sequence \in 1..MaxU32 /\ o.head_dim \in 1..MaxU32
         /\ BlockThreads <= t.threads
         /\ ~EstimateOverflows(o.sequence, o.head_dim)
<1>. DEFINE errors == CompileErrors(o, t)
<1>1. DOMAIN errors = 1..5 /\ \A i \in 1..5 : errors[i].kind # "none"
  BY DEF CompileErrors
<1>2. FirstError(errors) = "none"
  BY DEF CompileError
<1>3. \A i \in 1..5 : ~errors[i].holds
  <2>. HIDE DEF errors
  <2>. QED BY <1>1, <1>2, FirstErrorIsOne
<1>4. ~(o.sequence = 0 \/ o.head_dim = 0)
  <2>1. errors[2].holds = (o.sequence = 0 \/ o.head_dim = 0)
    BY DEF CompileErrors
  <2>2. ~errors[2].holds
    <3>. HIDE DEF errors
    <3>. QED BY <1>3
  <2>. HIDE DEF errors
  <2>. QED BY <2>1, <2>2, Zenon
<1>5. SelectionError(o, t) = "none"
  <2>1. errors[3].holds = (SelectionError(o, t) # "none")
    BY DEF CompileErrors
  <2>2. ~errors[3].holds
    <3>. HIDE DEF errors
    <3>. QED BY <1>3
  <2>. HIDE DEF errors
  <2>. QED BY <2>1, <2>2, Zenon
<1>6. ~EstimateOverflows(o.sequence, o.head_dim)
  <2>1. errors[4].holds = EstimateOverflows(o.sequence, o.head_dim)
    BY DEF CompileErrors
  <2>2. ~errors[4].holds
    <3>. HIDE DEF errors
    <3>. QED BY <1>3
  <2>. HIDE DEF errors
  <2>. QED BY <2>1, <2>2, Zenon
<1>7. ~(o.sequence > MaxU32) /\ ~(o.head_dim > MaxU32)
  <2>1. errors[5].holds =
          (\E n \in {o.sequence, o.head_dim, Grid(o)[1], Grid(o)[3]} : n > MaxU32)
    BY DEF CompileErrors
  <2>2. ~errors[5].holds
    <3>. HIDE DEF errors
    <3>. QED BY <1>3
  <2>. HIDE DEF errors
  <2>. QED BY <2>1, <2>2, Zenon
<1>8. CandidateFits(t)
  BY <1>5 DEF SelectionError
<1>. QED BY <1>4, <1>6, <1>7, <1>8, PlanAssumption DEF CandidateFits

(* The validation of the code generator takes the compiler's plan.         *)
LEMMA PlanIsValid ==
  ASSUME NEW o, NEW t, o.sequence \in Nat, o.head_dim \in Nat,
         CompileError(o, t) = "none"
  PROVE  /\ ValidAbi(Plan(o))
         /\ \A axis \in 1..2 :
              Plan(o).runtime.default[axis] \in 1..Plan(o).runtime.compiled[axis]
<1>1. o.sequence \in 1..MaxU32 /\ o.head_dim \in 1..MaxU32
  BY CompiledFacts
<1>2. Plan(o).op = o /\ Plan(o).launch.args = LaunchArgs(o)
  BY DEF Plan
<1>3. Len(LaunchArgs(o)) = 8
  BY DEF LaunchArgs
<1>4. ValidBuffers(Plan(o))
  BY DEF Plan, ValidBuffers, RowMajor
<1>5. ValidLaunchArgs(Plan(o))
  BY <1>1, <1>2, PlanAssumption DEF ValidLaunchArgs
<1>6. /\ Plan(o).runtime.compiled = <<o.sequence, o.head_dim>>
      /\ Plan(o).runtime.tile = ScheduleTile
      /\ Plan(o).runtime.default =
           <<RuntimeDefault(DefaultShape[1], o.sequence),
             RuntimeDefault(DefaultShape[2], o.head_dim)>>
  BY DEF Plan
<1>7. /\ RuntimeDefault(DefaultShape[1], o.sequence) \in 1..o.sequence
      /\ RuntimeDefault(DefaultShape[2], o.head_dim) \in 1..o.head_dim
  <2>1. DefaultShape[1] \in Nat \ {0} /\ DefaultShape[2] \in Nat \ {0}
    BY PlanAssumption
  <2>. QED BY <1>1, <2>1 DEF RuntimeDefault, Smallest
<1>8. \A axis \in 1..2 :
        Plan(o).runtime.default[axis] \in 1..Plan(o).runtime.compiled[axis]
  BY <1>6, <1>7
<1>. QED BY <1>2, <1>3, <1>4, <1>5, <1>6, <1>8 DEF ValidAbi, ValidRuntimeShape

(* The launch packet, and the workgroups in it: no more than u32 holds.    *)
LEMMA PlannedGrid ==
  ASSUME NEW o, NEW t, o.sequence \in Nat, o.head_dim \in Nat,
         CompileError(o, t) = "none"
  PROVE  LET g == Grid(o) IN
         /\ Plan(o).launch.grid = g /\ g = <<g[1], 1, g[3]>>
         /\ g[1] \in Nat \ {0} /\ g[3] \in Nat \ {0}
         /\ g[1] * g[3] \in 1..MaxU32
         /\ g[1] * g[3] = Workgroups(o.sequence, o.head_dim)
         /\ g[1] * g[3] <= MaxU64
<1>. DEFINE s == o.sequence
            d == o.head_dim
            a == DivCeil(s, ScheduleTile.query)
            b == DivCeil(d, ScheduleTile.head_dim)
<1>1. s \in Nat \ {0} /\ d \in Nat \ {0} /\ ~EstimateOverflows(s, d)
  BY CompiledFacts
<1>2. a \in 1..s /\ b \in 1..d
  <2>1. ScheduleTile.query \in Nat \ {0} /\ ScheduleTile.head_dim \in Nat \ {0}
    BY PlanAssumption
  <2>. HIDE DEF s, d
  <2>. QED BY <1>1, <2>1, TilesInExtent
<1>3. Grid(o) = <<a, 1, b>> /\ Plan(o).launch.grid = Grid(o)
  BY DEF Grid, TileCounts, Plan
<1>4. Workgroups(s, d) = Mul(a, b) /\ Workgroups(s, d) # Overflow
  BY <1>1, WorkBoundsShape DEF Workgroups, TileCounts
<1>5. s * d \in 0..MaxU32
  BY <1>1, WorkBoundsShape
<1>. HIDE DEF s, d, a, b
<1>6. a * b \in Nat /\ s * d \in Nat /\ a * b <= s * d /\ 1 * 1 <= a * b
  BY <1>1, <1>2, ProductMonotone
<1>7. a * b = Workgroups(s, d) /\ a * b <= MaxU64
  BY <1>2, <1>4 DEF Mul, CheckedMul
<1>8. a * b \in 1..MaxU32
  BY <1>5, <1>6, PlanAssumption
<1>9. a \in Nat \ {0} /\ b \in Nat \ {0}
  BY <1>1, <1>2
<1>. QED BY <1>3, <1>7, <1>8, <1>9 DEF s, d

-----------------------------------------------------------------------------
(* What the contract has established: the target is the device.            *)
LEMMA TargetIsDevice ==
  ASSUME device \in Devices, Observable, Mismatched(target, ObservedFacts) = {}
  PROVE  /\ device.threads \in Nat /\ device.warps \in Nat /\ device.local \in Nat
         /\ CheckedMul(device.threads, device.warps) # Overflow
         /\ target.threads = device.threads * device.warps
         /\ target.local = device.local
         /\ target.xlen \in {32, 64}
         /\ target.int8 = TRUE /\ target.float32 = TRUE
<1>1. \A fact \in TargetFacts : target[fact] = ObservedFacts[fact]
  BY DEF Mismatched
<1>2. /\ device.threads \in Nat /\ device.warps \in Nat /\ device.local \in Nat
      /\ device.xlen \in {32, 64}
  BY RecordAssumption
<1>3. CheckedMul(device.threads, device.warps) # Overflow
  BY DEF Observable
<1>4. CheckedMul(device.threads, device.warps) = device.threads * device.warps
  BY <1>3 DEF CheckedMul
<1>5. /\ target["threads"] = CheckedMul(device.threads, device.warps)
      /\ target["local"] = device.local /\ target["xlen"] = device.xlen
      /\ target["int8"] = DefaultFacts["int8"] /\ target["float32"] = DefaultFacts["float32"]
  BY <1>1 DEF ObservedFacts, TargetFacts
<1>6. DefaultFacts["int8"] = TRUE /\ DefaultFacts["float32"] = TRUE
  BY DEF DefaultFacts
<1>. QED BY <1>2, <1>3, <1>4, <1>5, <1>6

LEMMA RequirementsMet ==
  ASSUME RecordIInv
  PROVE  LaunchMeetsRequirements
<1>1. SUFFICES ASSUME launched # Absent
               PROVE  Unsatisfied(ScalarAttentionRequirements, target) = {}
  BY DEF LaunchMeetsRequirements
<1>2. /\ device \in Devices /\ op \in Ops /\ CompileError(op, target) = "none"
      /\ Observable /\ Mismatched(target, ObservedFacts) = {}
  BY <1>1 DEF RecordIInv, ContractHolds, Planned
<1>3. op.sequence \in Nat /\ op.head_dim \in Nat
  BY <1>2, RecordAssumption
<1>4. BlockThreads <= target.threads
  BY <1>2, <1>3, CompiledFacts
<1>5. /\ BlockThreads \in Nat /\ target.threads \in Nat /\ target.local \in Nat
      /\ target.xlen \in {32, 64} /\ target.int8 = TRUE /\ target.float32 = TRUE
  <2>1. BlockThreads \in Nat
    BY PlanAssumption DEF BlockThreads
  <2>2. /\ device.threads \in Nat /\ device.warps \in Nat /\ device.local \in Nat
        /\ target.threads = device.threads * device.warps /\ target.local = device.local
        /\ target.xlen \in {32, 64} /\ target.int8 = TRUE /\ target.float32 = TRUE
    BY <1>2, TargetIsDevice
  <2>. QED BY <2>1, <2>2
<1>. DEFINE needs == ScalarAttentionRequirements
<1>6. /\ needs["xlen"] = 32 /\ needs["threads"] = BlockThreads /\ needs["local"] = 0
      /\ needs.operations = {"int8", "float32"}
  BY DEF ScalarAttentionRequirements
<1>7. ~(target["xlen"] < 32) /\ ~(target["threads"] < BlockThreads) /\ ~(target["local"] < 0)
  BY <1>4, <1>5
<1>8. {fact \in {"xlen", "threads", "local"} : target[fact] < needs[fact]} = {}
  BY <1>6, <1>7
<1>9. {operation \in needs.operations : ~target[operation]} = {}
  BY <1>5, <1>6
<1>. QED BY <1>8, <1>9 DEF Unsatisfied

LEMMA PlannedBlock ==
  /\ ScheduleBlock \o <<1>> = <<ScheduleBlock[1], ScheduleBlock[2], 1>>
  /\ ScheduleBlock[1] \in Nat \ {0} /\ ScheduleBlock[2] \in Nat \ {0}
<1>1. PICK x \in 1..MaxU32, y \in 1..MaxU32 : ScheduleBlock = <<x, y>>
  BY PlanAssumption
<1>2. <<x, y>> \o <<1>> = <<x, y, 1>>
  <2>. DEFINE joined == <<x, y>> \o <<1>>
  <2>1. <<x, y>> \in Seq(1..MaxU32) /\ <<1>> \in Seq(Nat)
    OBVIOUS
  <2>2. Len(<<x, y>>) = 2 /\ Len(<<1>>) = 1
    OBVIOUS
  <2>3. joined \in Seq(Nat) /\ Len(joined) = 3
    BY <2>1, <2>2, PlanAssumption
  <2>4. joined[1] = x /\ joined[2] = y /\ joined[3] = 1
    BY <2>1, <2>2
  <2>5. /\ <<x, y, 1>> \in Seq(Nat) /\ Len(<<x, y, 1>>) = 3
        /\ \A i \in 1..3 : joined[i] = <<x, y, 1>>[i]
    BY <2>4, PlanAssumption
  <2>. HIDE DEF joined
  <2>6. joined = <<x, y, 1>>
    BY <2>3, <2>5, SeqEqual
  <2>. QED BY <2>6 DEF joined
<1>. QED BY <1>1, <1>2, PlanAssumption

(* So the backend takes the plan's launch, and the scalar one.             *)
LEMMA LaunchIsAccepted ==
  ASSUME RecordIInv, pc = "launch"
  PROVE  LaunchAccepted(RuntimeDims, device)
<1>1. /\ device \in Devices /\ op \in Ops
      /\ plan = Plan(op) /\ CompileError(op, target) = "none"
      /\ Observable /\ Mismatched(target, ObservedFacts) = {}
  BY DEF RecordIInv, ContractHolds, Planned, AfterCompile, AfterInput, AfterOpen
<1>2. op.sequence \in Nat /\ op.head_dim \in Nat
  BY <1>1, RecordAssumption
<1>3. BlockThreads <= target.threads
  BY <1>1, <1>2, CompiledFacts
<1>. DEFINE t == device.threads
            w == device.warps
            x == ScheduleBlock[1]
            y == ScheduleBlock[2]
<1>4. t \in Nat /\ w \in Nat /\ CheckedMul(t, w) # Overflow /\ x * y <= t * w
  BY <1>1, <1>3, TargetIsDevice DEF BlockThreads
<1>5. x \in Nat \ {0} /\ y \in Nat \ {0}
  BY PlanAssumption
<1>6. t * w <= MaxU64 /\ t * w \in Nat
  <2>. HIDE DEF t, w
  <2>. QED BY <1>4, ProductMonotone, t <= t, w <= w DEF CheckedMul
<1>7. x * y \in Nat \ {0} /\ x * y <= MaxU64
  <2>. HIDE DEF t, w, x, y
  <2>1. x * y \in Nat /\ 1 * 1 <= x * y
    BY <1>5, ProductMonotone
  <2>. QED BY <2>1, <1>4, <1>6, LimitsAssumption
<1>8. t # 0 /\ w # 0
  <2>. HIDE DEF t, w, x, y
  <2>. QED BY <1>4, <1>6, <1>7
<1>9. CASE scalar
  <2>1. RuntimeDims = ScalarDims
    BY <1>9 DEF RuntimeDims
  <2>2. CheckedProduct(<<1, 1, 1>>) = 1 /\ 1 # Overflow
    BY <1>6, <1>7, LimitsAssumption DEF CheckedProduct, CheckedMul
  <2>3. 1 <= t * w
    <3>. HIDE DEF t, w, x, y
    <3>. QED BY <1>4, <1>6, <1>7
  <2>4. Nonzero(<<1, 1, 1>>)
    BY DEF Nonzero
  <2>. QED BY <2>1, <2>2, <2>3, <2>4, <1>4, <1>8 DEF LaunchAccepted, ScalarDims
<1>10. CASE ~scalar
  <2>. DEFINE g == Grid(op)
              block == <<x, y, 1>>
  <2>1. /\ RuntimeDims.grid = g /\ RuntimeDims.shared = 0
        /\ g[1] # 0 /\ g[2] # 0 /\ g[3] # 0
    <3>1. /\ Plan(op).launch.grid = g /\ g = <<g[1], 1, g[3]>>
          /\ g[1] \in Nat \ {0} /\ g[3] \in Nat \ {0}
      BY <1>1, <1>2, PlannedGrid
    <3>2. RuntimeDims.grid = plan.launch.grid /\ RuntimeDims.shared = plan.launch.shared
      BY <1>10 DEF RuntimeDims
    <3>3. plan.launch.shared = 0
      BY <1>1 DEF Plan, LocalMemoryBytes
    <3>. HIDE DEF g
    <3>. QED BY <1>1, <3>1, <3>2, <3>3
  <2>2. RuntimeDims.block = block
    <3>1. RuntimeDims.block = plan.launch.block
      BY <1>10 DEF RuntimeDims
    <3>2. plan.launch.block = ScheduleBlock \o <<1>>
      BY <1>1 DEF Plan
    <3>. QED BY <3>1, <3>2, PlannedBlock
  <2>3. block[1] = x /\ block[2] = y /\ block[3] = 1
    OBVIOUS
  <2>4. CheckedProduct(block) = x * y /\ x * y # Overflow
    <3>. HIDE DEF block, x, y
    <3>1. CheckedMul(x, y) = x * y /\ x * y # Overflow
      BY <1>7, LimitsAssumption DEF CheckedMul
    <3>2. CheckedMul(x * y, 1) = x * y
      BY <1>7 DEF CheckedMul
    <3>. QED BY <2>3, <3>1, <3>2 DEF CheckedProduct
  <2>5. Nonzero(RuntimeDims.grid) /\ Nonzero(block)
    BY <1>5, <2>1, <2>3 DEF Nonzero
  <2>. HIDE DEF t, w, x, y, g, block
  <2>. QED BY <2>1, <2>2, <2>4, <2>5, <1>4, <1>8 DEF LaunchAccepted, t, w
<1>. QED BY <1>9, <1>10

(* No count of the shape that ran overflows.                               *)
LEMMA WorkloadFits ==
  ASSUME RecordIInv, pc = "describe"
  PROVE  ~WorkloadOverflows
<1>1. /\ op \in Ops /\ plan = Plan(op) /\ CompileError(op, target) = "none"
      /\ input[1] \in 1..op.sequence /\ input[2] \in 1..op.head_dim
      /\ launched = RuntimeDims
  BY DEF RecordIInv, LaunchedAsPlanned, ShapeChosen, Planned, AfterCompile, AfterInput, AfterOpen
<1>. DEFINE S == op.sequence
            D == op.head_dim
            s == input[1]
            d == input[2]
<1>2. S \in Nat /\ D \in Nat
  BY <1>1, RecordAssumption
<1>3. s \in Nat \ {0} /\ d \in Nat \ {0} /\ s <= S /\ d <= D
  BY <1>1, <1>2
<1>4. ~EstimateOverflows(S, D)
  BY <1>1, <1>2, CompiledFacts
<1>5. ~EstimateOverflows(s, d)
  <2>. HIDE DEF s, d, S, D
  <2>. QED BY <1>2, <1>3, <1>4, SmallerWorkFits
<1>6. /\ s * d \in Nat /\ s * s * d \in Nat /\ Score(s, d) = s * s * d
      /\ s * s * d + s * s * d <= MaxU64
  <2>. HIDE DEF s, d
  <2>. QED BY <1>3, <1>5, WorkBoundsShape
<1>7. Mul(Score(s, d), 2) # Overflow
  <2>. HIDE DEF s, d
  <2>. DEFINE n == s * s * d
  <2>1. Score(s, d) = n /\ n \in Nat /\ n + n <= MaxU64
    BY <1>6
  <2>. HIDE DEF n
  <2>. QED BY <2>1, LimitsAssumption DEF Mul, CheckedMul
<1>8. Add(Elements, Elements) # Overflow
  <2>1. Elements = s * d
    BY DEF Elements
  <2>. HIDE DEF s, d
  <2>2. s * s * d >= s * d
    <3>1. s * s >= s /\ s * s \in Nat
      BY <1>3, ProductMonotone, 1 * s = s
    <3>. QED BY <1>3, <3>1, ProductMonotone, d <= d
  <2>. DEFINE n == s * s * d
              e == s * d
  <2>3. n \in Nat /\ e \in Nat /\ n + n <= MaxU64 /\ e <= n
    BY <1>6, <2>2
  <2>. HIDE DEF n, e
  <2>4. Add(e, e) = e + e /\ e + e # Overflow
    BY <2>3, LimitsAssumption DEF Add
  <2>. QED BY <2>1, <2>4 DEF e
<1>9. Threads(launched) # Overflow
  <2>1. CASE scalar
    <3>1. launched = ScalarDims
      BY <1>1, <2>1 DEF RuntimeDims
    <3>2. 1 <= MaxU64
      <4>. DEFINE n == s * s * d
      <4>1. n \in Nat /\ n # 0 /\ n + n <= MaxU64
        <5>. HIDE DEF s, d
        <5>1. s * s \in Nat /\ 1 * 1 <= s * s
          BY <1>3, ProductMonotone
        <5>2. 1 * 1 <= (s * s) * d
          BY <1>3, <5>1, ProductMonotone
        <5>. QED BY <5>2, <1>6
      <4>. HIDE DEF n
      <4>. QED BY <4>1, LimitsAssumption
    <3>3. CheckedProduct(<<1, 1, 1>>) = 1
      BY <3>2, LimitsAssumption DEF CheckedProduct, CheckedMul
    <3>. QED BY <3>1, <3>2, <3>3, LimitsAssumption DEF Threads, ScalarDims, Mul, CheckedMul
  <2>2. CASE ~scalar
    <3>. DEFINE g == Grid(op)
    <3>1. /\ launched.grid = g /\ g[2] = 1 /\ g[1] * g[3] \in Nat /\ g[1] * g[3] <= MaxU64
          /\ g[1] * g[3] = Workgroups(S, D) /\ g[1] \in Nat /\ g[3] \in Nat
          /\ g[1] * g[3] >= 1 * g[1] /\ g[1] * g[3] >= 1
      <4>1. /\ Plan(op).launch.grid = g /\ g = <<g[1], 1, g[3]>>
            /\ g[1] \in Nat \ {0} /\ g[3] \in Nat \ {0}
            /\ g[1] * g[3] \in 1..MaxU32 /\ g[1] * g[3] <= MaxU64
            /\ g[1] * g[3] = Workgroups(S, D)
        BY <1>1, <1>2, PlannedGrid
      <4>2. launched.grid = plan.launch.grid
        BY <1>1, <2>2 DEF RuntimeDims
      <4>. HIDE DEF g, S, D
      <4>3. g[1] * g[3] >= g[1] * 1
        BY <4>1, ProductMonotone
      <4>. QED BY <1>1, <4>1, <4>2, <4>3
    <3>2. /\ launched.block = <<ScheduleBlock[1], ScheduleBlock[2], 1>>
          /\ ScheduleBlock[1] \in Nat \ {0} /\ ScheduleBlock[2] \in Nat \ {0}
      <4>1. launched.block = plan.launch.block
        BY <1>1, <2>2 DEF RuntimeDims
      <4>2. plan.launch.block = ScheduleBlock \o <<1>>
        BY <1>1 DEF Plan
      <4>. QED BY <4>1, <4>2, PlannedBlock
    <3>3. CheckedProduct(launched.grid) = Workgroups(S, D)
      <4>. HIDE DEF g
      <4>. DEFINE a == g[1]
                  b == g[3]
      <4>1. a \in Nat /\ b \in Nat /\ a * b \in Nat /\ a * b <= MaxU64 /\ 1 * a <= a * b
        BY <3>1
      <4>. HIDE DEF a, b
      <4>2. CheckedMul(a, 1) = a /\ a # Overflow /\ a * 1 = a
        BY <4>1, LimitsAssumption DEF CheckedMul
      <4>3. CheckedMul(a * 1, b) = a * b
        BY <4>1, <4>2 DEF CheckedMul
      <4>. QED BY <3>1, <4>2, <4>3 DEF CheckedProduct, a, b
    <3>4. /\ Mul(Workgroups(S, D), BlockThreads) # Overflow
          /\ Workgroups(S, D) # Overflow
      BY <1>2, <1>4, WorkBoundsShape
    <3>5. CheckedProduct(launched.block) = BlockThreads
      <4>. DEFINE x == ScheduleBlock[1]
                  y == ScheduleBlock[2]
                  n == Workgroups(S, D)
      <4>1. x * y \in Nat /\ BlockThreads = x * y
        BY <3>2, ProductMonotone DEF BlockThreads
      <4>2. n \in Nat /\ n >= 1
        BY <3>1
      <4>3. n * (x * y) <= MaxU64
        BY <3>4, <4>1 DEF Mul, CheckedMul
      <4>4. CheckedMul(x, y) = x * y /\ x * y # Overflow
        <5>. HIDE DEF x, y, n
        <5>. DEFINE m == x * y
        <5>1. 1 * m <= n * m /\ n * m \in Nat /\ m \in Nat
          BY <4>1, <4>2, ProductMonotone
        <5>2. m <= MaxU64
          BY <4>3, <5>1, LimitsAssumption
        <5>. QED BY <4>1, <5>2, LimitsAssumption DEF CheckedMul
      <4>. QED BY <3>2, <4>1, <4>4 DEF CheckedProduct, CheckedMul
    <3>. QED BY <3>3, <3>4, <3>5 DEF Threads
  <2>. QED BY <2>1, <2>2
<1>10. /\ Workload.threads = Threads(launched)
       /\ Workload.logical_macs = Mul(Score(s, d), 2)
  BY DEF Workload
<1>. QED BY <1>5, <1>7, <1>8, <1>9, <1>10 DEF WorkloadOverflows

-----------------------------------------------------------------------------
(* Induction.  Each part stands while what it speaks of does, and no step  *)
(* goes where the part would begin to hold.                                *)
AfterLaunch == AfterOpen \ {"launch"}
AfterPrint == {"collect", "done"}

LEMMA RequestStands ==
  ASSUME UNCHANGED request
  PROVE  /\ UNCHANGED <<op, target, device, asked, scalar>>
         /\ UNCHANGED ObservedFacts /\ (Observable' <=> Observable)
<1>1. UNCHANGED <<op, target, device, asked, scalar>>
  BY DEF request
<1>2. UNCHANGED ObservedFacts
  BY <1>1 DEF ObservedFacts
<1>. QED BY <1>1, <1>2 DEF Observable

LEMMA PlannedStands ==
  ASSUME Planned, UNCHANGED <<request, plan, launched>>,
         pc' \in AfterCompile => pc \in AfterCompile
  PROVE  Planned'
BY RequestStands DEF Planned, AfterCompile, AfterInput, AfterOpen

LEMMA ShapeStands ==
  ASSUME ShapeChosen, UNCHANGED <<request, input, spec>>,
         pc' \in AfterInput => pc \in AfterInput
  PROVE  ShapeChosen'
BY RequestStands DEF ShapeChosen, AfterInput, AfterOpen

LEMMA ContractStands ==
  ASSUME ContractHolds, UNCHANGED <<request, contract, launched>>,
         pc' \in AfterOpen => pc \in AfterOpen
  PROVE  ContractHolds'
BY RequestStands DEF ContractHolds, AfterOpen

LEMMA LaunchStands ==
  ASSUME LaunchedAsPlanned, UNCHANGED <<request, plan, launched, mismatches>>,
         pc' \in AfterLaunch => pc \in AfterLaunch
  PROVE  LaunchedAsPlanned'
<1>1. UNCHANGED RuntimeDims
  BY RequestStands DEF RuntimeDims
<1>. QED BY <1>1 DEF LaunchedAsPlanned, AfterLaunch, AfterOpen

LEMMA WorkloadStands ==
  ASSUME UNCHANGED <<plan, input, launched, contract>>
  PROVE  UNCHANGED Workload /\ UNCHANGED Elements
<1>1. UNCHANGED Elements
  BY DEF Elements
<1>. QED BY <1>1 DEF Workload

LEMMA DescriptionStands ==
  ASSUME Described, UNCHANGED <<plan, input, launched, contract, workload>>,
         pc' \in {"compare", "collect", "done"} => pc \in {"compare", "collect", "done"}
  PROVE  Described'
BY WorkloadStands DEF Described

LEMMA PrintStands ==
  ASSUME Printed,
         UNCHANGED <<plan, input, launched, contract, workload, mismatches, stdout>>,
         pc' \in AfterPrint => pc \in AfterPrint
  PROVE  Printed'
BY WorkloadStands DEF Printed, AfterPrint

LEMMA NotRecordedYet ==
  ASSUME Recorded, pc # "done", UNCHANGED result
  PROVE  Recorded'
BY DEF Recorded

LEMMA RecordInitial == RecordInit => RecordIInv
BY DEF RecordInit, RecordIInv, Planned, ShapeChosen, ContractHolds, LaunchedAsPlanned,
       Described, Printed, Recorded, PlannedRunGoesThrough, AfterCompile, AfterInput,
       AfterOpen

LEMMA ReadSpecKeeps == RecordIInv /\ ReadSpec => RecordIInv'
<1>. SUFFICES ASSUME RecordIInv, ReadSpec PROVE RecordIInv'
  OBVIOUS
<1>1. /\ pc = "spec" /\ pc' \in {"compile", "failed"}
      /\ UNCHANGED <<request, plan, input, contract, launched, mismatches, workload,
                     stdout, result>>
      /\ failure' \in {failure, "extent"}
  BY DEF ReadSpec, Goto, Fail
<1>2. Planned' /\ ContractHolds' /\ LaunchedAsPlanned'
  BY <1>1, PlannedStands, ContractStands, LaunchStands
     DEF RecordIInv, AfterCompile, AfterInput, AfterOpen, AfterLaunch
<1>3. ShapeChosen' /\ Described' /\ Printed'
  BY <1>1 DEF ShapeChosen, Described, Printed, AfterInput, AfterOpen
<1>4. Recorded'
  BY <1>1, NotRecordedYet DEF RecordIInv
<1>. QED BY <1>1, <1>2, <1>3, <1>4, RequestStands DEF RecordIInv, PlannedRunGoesThrough

LEMMA CompilePlanKeeps == RecordIInv /\ CompilePlan => RecordIInv'
<1>. SUFFICES ASSUME RecordIInv, CompilePlan PROVE RecordIInv'
  OBVIOUS
<1>1. /\ pc = "compile" /\ pc' \in {"abi", "failed"}
      /\ UNCHANGED <<request, spec, input, contract, launched, mismatches, workload,
                     stdout, result>>
      /\ failure' \in {failure, CompileError(op, target)}
      /\ \/ CompileError(op, target) = "none" /\ plan' = Plan(op)
         \/ pc' = "failed" /\ UNCHANGED plan
  BY DEF CompilePlan, Goto, Fail
<1>2. Planned'
  <2>1. CASE CompileError(op, target) = "none" /\ plan' = Plan(op)
    BY <1>1, <2>1, RequestStands DEF Planned
  <2>2. CASE pc' = "failed" /\ UNCHANGED plan
    BY <1>1, <2>2, PlannedStands DEF RecordIInv, AfterCompile, AfterInput, AfterOpen
  <2>. QED BY <1>1, <2>1, <2>2
<1>3. ContractHolds'
  BY <1>1, ContractStands DEF RecordIInv, AfterOpen
<1>4. ShapeChosen' /\ LaunchedAsPlanned' /\ Described' /\ Printed'
  BY <1>1 DEF ShapeChosen, LaunchedAsPlanned, Described, Printed, AfterInput, AfterOpen
<1>5. Recorded'
  BY <1>1, NotRecordedYet DEF RecordIInv
<1>6. PlannedRunGoesThrough'
  BY <1>1, CompileErrorKinds DEF RecordIInv, PlannedRunGoesThrough
<1>. QED BY <1>1, <1>2, <1>3, <1>4, <1>5, <1>6, RequestStands DEF RecordIInv

LEMMA ValidatePlanKeeps == RecordIInv /\ ValidatePlan => RecordIInv'
<1>. SUFFICES ASSUME RecordIInv, ValidatePlan PROVE RecordIInv'
  OBVIOUS
<1>1. op \in Ops /\ plan = Plan(op) /\ CompileError(op, target) = "none"
  BY DEF RecordIInv, Planned, ValidatePlan, AfterCompile
<1>2. ValidAbi(plan)
  BY <1>1, PlanIsValid, RecordAssumption
<1>3. /\ pc = "abi" /\ pc' = "input"
      /\ UNCHANGED <<request, failure, spec, plan, input, contract, launched, mismatches,
                     workload, stdout, result>>
  BY <1>2 DEF ValidatePlan, Goto
<1>4. Planned' /\ ContractHolds'
  BY <1>3, PlannedStands, ContractStands DEF RecordIInv, AfterCompile, AfterInput, AfterOpen
<1>5. ShapeChosen' /\ LaunchedAsPlanned' /\ Described' /\ Printed'
  BY <1>3 DEF ShapeChosen, LaunchedAsPlanned, Described, Printed, AfterInput, AfterOpen
<1>6. Recorded'
  BY <1>3, NotRecordedYet DEF RecordIInv
<1>. QED BY <1>3, <1>4, <1>5, <1>6, RequestStands DEF RecordIInv, PlannedRunGoesThrough

LEMMA BuildInputKeeps == RecordIInv /\ BuildInput => RecordIInv'
<1>. SUFFICES ASSUME RecordIInv, BuildInput PROVE RecordIInv'
  OBVIOUS
<1>. DEFINE compiled == plan.runtime.compiled
            shape == Extents(plan.runtime.default, compiled)
<1>1. op \in Ops /\ plan = Plan(op) /\ CompileError(op, target) = "none"
  BY DEF RecordIInv, Planned, BuildInput, AfterCompile
<1>2. /\ pc = "input" /\ pc' \in {"open", "failed"}
      /\ UNCHANGED <<request, spec, plan, contract, launched, mismatches, workload,
                     stdout, result>>
      /\ failure' \in {failure, "input"}
      /\ pc' = "open" => ExtentsAllowed(compiled) /\ shape = spec /\ input' = shape
  BY DEF BuildInput, Goto, Fail
<1>3. ShapeChosen'
  <2>1. SUFFICES ASSUME pc' = "open"
                 PROVE  /\ input' = spec'
                        /\ input'[1] \in 1..op'.sequence /\ input'[2] \in 1..op'.head_dim
    BY <1>2 DEF ShapeChosen, AfterInput, AfterOpen
  <2>2. \A axis \in 1..2 : shape[axis] \in 1..compiled[axis]
    <3>1. \A axis \in 1..2 : plan.runtime.default[axis] \in 1..compiled[axis]
      BY <1>1, PlanIsValid, RecordAssumption
    <3>2. \A axis \in 1..2 : asked[axis] = Unset \/ asked[axis] \in 1..compiled[axis]
      BY <1>2, <2>1 DEF ExtentsAllowed, ExtentInRange
    <3>3. \A axis \in 1..2 :
            shape[axis] = IF asked[axis] = Unset THEN plan.runtime.default[axis]
                                                 ELSE asked[axis]
      BY DEF Extents
    <3>. HIDE DEF shape
    <3>. QED BY <3>1, <3>2, <3>3
  <2>3. compiled = <<op.sequence, op.head_dim>>
    BY <1>1 DEF Plan
  <2>4. input' = shape /\ input' = spec' /\ op' = op
    BY <1>2, <2>1, RequestStands
  <2>. HIDE DEF shape, compiled
  <2>. QED BY <2>2, <2>3, <2>4
<1>4. Planned' /\ ContractHolds'
  BY <1>2, PlannedStands, ContractStands DEF RecordIInv, AfterCompile, AfterInput, AfterOpen
<1>5. LaunchedAsPlanned' /\ Described' /\ Printed'
  BY <1>2 DEF LaunchedAsPlanned, Described, Printed, AfterOpen
<1>6. Recorded'
  BY <1>2, NotRecordedYet DEF RecordIInv
<1>. QED BY <1>2, <1>3, <1>4, <1>5, <1>6, RequestStands DEF RecordIInv, PlannedRunGoesThrough

LEMMA OpenDeviceKeeps == RecordIInv /\ OpenDevice => RecordIInv'
<1>. SUFFICES ASSUME RecordIInv, OpenDevice PROVE RecordIInv'
  OBVIOUS
<1>1. /\ pc = "open" /\ pc' \in {"launch", "failed"}
      /\ UNCHANGED <<request, spec, plan, input, launched, mismatches, workload,
                     stdout, result>>
      /\ failure' \in {failure, "runtime", "unsupported_target", "target_overflow"}
      /\ \/ pc' = "failed" /\ UNCHANGED contract
         \/ /\ Observable /\ contract' = Contract(target, ObservedFacts)
            /\ pc' = "launch" => Mismatched(target, ObservedFacts) = {}
  BY DEF OpenDevice, Goto, Fail
<1>2. ContractHolds'
  <2>1. CASE pc' = "failed" /\ UNCHANGED contract
    BY <1>1, <2>1, ContractStands DEF RecordIInv, AfterOpen
  <2>2. CASE /\ Observable /\ contract' = Contract(target, ObservedFacts)
             /\ pc' = "launch" => Mismatched(target, ObservedFacts) = {}
    <3>1. launched' # Absent \/ pc' \in AfterOpen => Mismatched(target, ObservedFacts) = {}
      BY <1>1, <2>2 DEF RecordIInv, ContractHolds, AfterOpen
    <3>2. /\ target' = target /\ ObservedFacts' = ObservedFacts /\ Observable'
      BY <1>1, <2>2, RequestStands
    <3>. QED BY <2>2, <3>1, <3>2 DEF ContractHolds
  <2>. QED BY <1>1, <2>1, <2>2
<1>3. Planned' /\ ShapeChosen'
  BY <1>1, PlannedStands, ShapeStands DEF RecordIInv, AfterCompile, AfterInput, AfterOpen
<1>4. LaunchedAsPlanned' /\ Described' /\ Printed'
  BY <1>1 DEF LaunchedAsPlanned, Described, Printed, AfterOpen
<1>5. Recorded'
  BY <1>1, NotRecordedYet DEF RecordIInv
<1>. QED BY <1>1, <1>2, <1>3, <1>4, <1>5, RequestStands DEF RecordIInv, PlannedRunGoesThrough

LEMMA LaunchKeeps == RecordIInv /\ Launch => RecordIInv'
<1>. SUFFICES ASSUME RecordIInv, Launch PROVE RecordIInv'
  OBVIOUS
<1>1. pc = "launch"
  BY DEF Launch
<1>2. LaunchAccepted(RuntimeDims, device)
  BY <1>1, LaunchIsAccepted
<1>3. /\ pc' \in {"describe", "failed"}
      /\ UNCHANGED <<request, spec, plan, input, contract, workload, stdout, result>>
      /\ failure' \in {failure, "runtime"}
      /\ \/ pc' = "failed" /\ UNCHANGED <<launched, mismatches>>
         \/ launched' = RuntimeDims /\ mismatches' \in {0, 1, Elements}
  BY <1>2 DEF Launch, Goto, Fail
<1>4. Elements \in Nat
  <2>1. /\ op \in Ops /\ input[1] \in 1..op.sequence /\ input[2] \in 1..op.head_dim
    BY <1>1 DEF RecordIInv, ShapeChosen, AfterInput, AfterOpen
  <2>2. input[1] \in Nat /\ input[2] \in Nat
    BY <2>1, RecordAssumption
  <2>. QED BY <2>2, ProductMonotone DEF Elements
<1>5. LaunchedAsPlanned'
  <2>1. CASE pc' = "failed"
    BY <2>1 DEF LaunchedAsPlanned, AfterOpen
  <2>2. CASE launched' = RuntimeDims /\ mismatches' \in {0, 1, Elements}
    <3>1. RuntimeDims' = RuntimeDims
      BY <1>3, RequestStands DEF RuntimeDims
    <3>. QED BY <1>4, <2>2, <3>1 DEF LaunchedAsPlanned
  <2>. QED BY <1>3, <2>1, <2>2
<1>6. Planned'
  BY <1>1, <1>3, RequestStands DEF RecordIInv, Planned, AfterCompile, AfterInput, AfterOpen
<1>7. ContractHolds'
  BY <1>1, <1>3, RequestStands DEF RecordIInv, ContractHolds, AfterOpen
<1>8. ShapeChosen'
  BY <1>1, <1>3, ShapeStands DEF RecordIInv, AfterInput, AfterOpen
<1>9. Described' /\ Printed'
  BY <1>3 DEF Described, Printed
<1>10. Recorded'
  BY <1>1, <1>3, NotRecordedYet DEF RecordIInv
<1>. QED BY <1>3, <1>5, <1>6, <1>7, <1>8, <1>9, <1>10, RequestStands
         DEF RecordIInv, PlannedRunGoesThrough

LEMMA DescribeKeeps == RecordIInv /\ Describe => RecordIInv'
<1>. SUFFICES ASSUME RecordIInv, Describe PROVE RecordIInv'
  OBVIOUS
<1>1. pc = "describe"
  BY DEF Describe
<1>2. ~WorkloadOverflows
  BY <1>1, WorkloadFits
<1>3. /\ pc' = "compare" /\ workload' = Workload
      /\ UNCHANGED <<request, failure, spec, plan, input, contract, launched, mismatches,
                     stdout, result>>
  BY <1>2 DEF Describe, Goto
<1>4. Planned' /\ ShapeChosen' /\ ContractHolds' /\ LaunchedAsPlanned'
  BY <1>1, <1>3, PlannedStands, ShapeStands, ContractStands, LaunchStands
     DEF RecordIInv, AfterCompile, AfterInput, AfterOpen, AfterLaunch
<1>5. Described'
  BY <1>3, WorkloadStands DEF Described
<1>6. Printed'
  BY <1>3 DEF Printed
<1>7. Recorded'
  BY <1>1, <1>3, NotRecordedYet DEF RecordIInv
<1>. QED BY <1>3, <1>4, <1>5, <1>6, <1>7, RequestStands DEF RecordIInv, PlannedRunGoesThrough

LEMMA CompareAndPrintKeeps == RecordIInv /\ CompareAndPrint => RecordIInv'
<1>. SUFFICES ASSUME RecordIInv, CompareAndPrint PROVE RecordIInv'
  OBVIOUS
<1>1. /\ pc = "compare" /\ pc' \in {"collect", "failed"}
      /\ UNCHANGED <<request, spec, plan, input, contract, launched, mismatches, workload,
                     result>>
      /\ failure' \in {failure, "mismatch", "exit"}
      /\ pc' = "collect" =>
           /\ ~Differs(mismatches)
           /\ \E perf \in PerfOutput :
                stdout' = [perf |-> perf,
                           compare |-> [elements |-> Elements, mismatches |-> mismatches],
                           trace |-> [launch |-> launched, workload |-> workload,
                                      to_device |-> 3 * Elements, from_device |-> Elements]]
  BY DEF CompareAndPrint, Goto, Fail
<1>2. Printed'
  <2>1. CASE pc' = "failed"
    BY <2>1 DEF Printed
  <2>2. CASE pc' = "collect"
    <3>1. mismatches = 0 /\ mismatches' = mismatches
      <4>1. mismatches \in Nat
        BY <1>1 DEF RecordIInv, LaunchedAsPlanned, AfterOpen
      <4>. QED BY <1>1, <2>2, <4>1 DEF Differs
    <3>2. PICK perf \in PerfOutput :
            stdout' = [perf |-> perf,
                       compare |-> [elements |-> Elements, mismatches |-> 0],
                       trace |-> [launch |-> launched, workload |-> workload,
                                  to_device |-> 3 * Elements, from_device |-> Elements]]
      BY <1>1, <2>2, <3>1
    <3>3. PerfOutput' = PerfOutput /\ Elements' = Elements
      BY <1>1, WorkloadStands
    <3>. QED BY <1>1, <3>1, <3>2, <3>3 DEF Printed
  <2>. QED BY <1>1, <2>1, <2>2
<1>3. Planned' /\ ShapeChosen' /\ ContractHolds' /\ LaunchedAsPlanned'
  BY <1>1, PlannedStands, ShapeStands, ContractStands, LaunchStands
     DEF RecordIInv, AfterCompile, AfterInput, AfterOpen, AfterLaunch
<1>4. Described'
  BY <1>1, DescriptionStands DEF RecordIInv
<1>5. Recorded'
  BY <1>1, NotRecordedYet DEF RecordIInv
<1>. QED BY <1>1, <1>2, <1>3, <1>4, <1>5, RequestStands DEF RecordIInv, PlannedRunGoesThrough

(* The trace line is the child's own workload: the parent's checks hold.   *)
LEMMA TraceAgrees ==
  ASSUME RecordIInv, pc \in AfterPrint
  PROVE  LET traced == stdout.trace.workload IN
         /\ traced.shape = input /\ traced.shape = spec
         /\ traced.contract = Contract(target, ObservedFacts)
         /\ TracedContract(traced) = traced.contract
         /\ traced.contract.requested = target
         /\ traced.contract.observed = ObservedFacts /\ traced.contract.mismatched = {}
<1>. DEFINE traced == stdout.trace.workload
<1>1. traced = Workload
  BY DEF RecordIInv, Printed, Described, AfterPrint
<1>2. traced.shape = input /\ traced.contract = contract
  BY <1>1 DEF Workload
<1>3. /\ input = spec /\ contract = Contract(target, ObservedFacts)
      /\ Mismatched(target, ObservedFacts) = {}
  BY DEF RecordIInv, ShapeChosen, ContractHolds, AfterPrint, AfterInput, AfterOpen
<1>4. /\ contract.requested = target /\ contract.observed = ObservedFacts
      /\ contract.mismatched = {}
  BY <1>3 DEF Contract
<1>. HIDE DEF traced
<1>5. TracedContract(traced) = Contract(target, ObservedFacts)
  BY <1>2, <1>4 DEF TracedContract
<1>. QED BY <1>2, <1>3, <1>4, <1>5 DEF traced

LEMMA CollectKeeps == RecordIInv /\ Collect => RecordIInv'
<1>. SUFFICES ASSUME RecordIInv, Collect PROVE RecordIInv'
  OBVIOUS
<1>1. pc = "collect"
  BY DEF Collect
<1>2. /\ pc' = "done" /\ result' = MakeResult
      /\ UNCHANGED <<request, failure, spec, plan, input, contract, launched, mismatches,
                     workload, stdout>>
  BY <1>1, TraceAgrees DEF Collect, Goto, AfterPrint
<1>3. Planned' /\ ShapeChosen' /\ ContractHolds' /\ LaunchedAsPlanned'
  BY <1>1, <1>2, PlannedStands, ShapeStands, ContractStands, LaunchStands
     DEF RecordIInv, AfterCompile, AfterInput, AfterOpen, AfterLaunch
<1>4. Described' /\ Printed'
  BY <1>1, <1>2, DescriptionStands, PrintStands DEF RecordIInv, AfterPrint
<1>5. Recorded'
  <2>1. MakeResult' = MakeResult
    BY <1>2 DEF MakeResult
  <2>. QED BY <1>2, <2>1 DEF Recorded
<1>. QED BY <1>2, <1>3, <1>4, <1>5, RequestStands DEF RecordIInv, PlannedRunGoesThrough

LEMMA RecordStep == RecordIInv /\ [RecordNext]_recordVars => RecordIInv'
<1>. SUFFICES ASSUME RecordIInv, [RecordNext]_recordVars PROVE RecordIInv'
  OBVIOUS
<1>1. CASE RecordNext
  BY <1>1, ReadSpecKeeps, CompilePlanKeeps, ValidatePlanKeeps, BuildInputKeeps,
     OpenDeviceKeeps, LaunchKeeps, DescribeKeeps, CompareAndPrintKeeps, CollectKeeps
     DEF RecordNext
<1>2. CASE UNCHANGED recordVars
  <2>1. /\ UNCHANGED <<request, pc, failure, spec, plan, input, contract, launched,
                       mismatches, workload, stdout, result>>
    BY <1>2 DEF recordVars
  <2>2. Planned' /\ ShapeChosen' /\ ContractHolds' /\ LaunchedAsPlanned'
    BY <2>1, PlannedStands, ShapeStands, ContractStands, LaunchStands DEF RecordIInv
  <2>3. Described' /\ Printed'
    BY <2>1, DescriptionStands, PrintStands DEF RecordIInv
  <2>4. Recorded'
    <3>1. MakeResult' = MakeResult
      BY <2>1 DEF MakeResult
    <3>. QED BY <2>1, <3>1 DEF RecordIInv, Recorded
  <2>. QED BY <2>1, <2>2, <2>3, <2>4, RequestStands DEF RecordIInv, PlannedRunGoesThrough
<1>. QED BY <1>1, <1>2

LEMMA RecordInvariant == RecordSpec => []RecordIInv
BY RecordInitial, RecordStep, PTL DEF RecordSpec

-----------------------------------------------------------------------------
(* A plan that compiled is taken by the code generator, accepted by the    *)
(* backend on every device the contract let through, described without an  *)
(* overflow and recorded: none of those four refusals can end a run.       *)
THEOREM PlannedRunsGoThrough == RecordSpec => []PlannedRunGoesThrough
<1>1. RecordIInv => PlannedRunGoesThrough
  BY DEF RecordIInv
<1>. QED BY <1>1, RecordInvariant, PTL

(* KernelLaunch::workgroup_count, whose u32 product is not checked, is the *)
(* number of workgroups the metrics were computed for, for every plan.     *)
THEOREM WorkgroupCountsExact == RecordSpec => []WorkgroupCountExact
<1>1. RecordIInv => WorkgroupCountExact
  <2>1. SUFFICES ASSUME RecordIInv, plan # Absent
                 PROVE  WorkgroupCount(plan.launch.grid) = plan.metrics.workgroups
    BY DEF WorkgroupCountExact
  <2>2. op \in Ops /\ plan = Plan(op) /\ CompileError(op, target) = "none"
    BY <2>1 DEF RecordIInv, Planned
  <2>. DEFINE g == Grid(op)
              n == g[1] * g[3]
  <2>3. /\ plan.launch.grid = g /\ g[2] = 1 /\ g[1] \in Nat /\ g[3] \in Nat
        /\ n \in 1..MaxU32 /\ n = Workgroups(op.sequence, op.head_dim)
    <3>1. op.sequence \in Nat /\ op.head_dim \in Nat
      BY <2>2, RecordAssumption
    <3>2. /\ Plan(op).launch.grid = g /\ g = <<g[1], 1, g[3]>>
          /\ g[1] \in Nat \ {0} /\ g[3] \in Nat \ {0}
          /\ g[1] * g[3] \in 1..MaxU32
          /\ g[1] * g[3] = Workgroups(op.sequence, op.head_dim)
      BY <2>2, <3>1, PlannedGrid
    <3>. HIDE DEF g
    <3>. QED BY <2>2, <3>2
  <2>4. g[1] * g[2] * g[3] = n
    <3>. HIDE DEF g
    <3>. QED BY <2>3
  <2>5. n % (MaxU32 + 1) = n
    <3>. HIDE DEF n
    <3>. QED BY <2>3, PlanAssumption
  <2>6. plan.metrics.workgroups = Workgroups(op.sequence, op.head_dim)
    BY <2>2 DEF Plan, Estimate
  <2>. HIDE DEF g, n
  <2>. QED BY <2>3, <2>4, <2>5, <2>6 DEF WorkgroupCount
<1>. QED BY <1>1, RecordInvariant, PTL

(* The document's rule of a legal schedule, which nothing evaluates: the   *)
(* scheduler's test and the exact contract together make up for it.        *)
THEOREM LaunchesMeetRequirements == RecordSpec => []LaunchMeetsRequirements
<1>1. RecordIInv => LaunchMeetsRequirements
  BY RequirementsMet
<1>. QED BY <1>1, RecordInvariant, PTL

LEMMA ConcatRange ==
  ASSUME NEW S, NEW s \in Seq(S), NEW t \in Seq(S), NEW e \in Range(s) \cup Range(t)
  PROVE  s \o t \in Seq(S) /\ e \in Range(s \o t)
<1>1. /\ s \o t \in Seq(S) /\ DOMAIN (s \o t) = 1..(Len(s) + Len(t))
      /\ \A i \in 1..Len(s) : (s \o t)[i] = s[i]
      /\ \A i \in 1..Len(t) : (s \o t)[Len(s) + i] = t[i]
  BY ConcatProperties
<1>2. CASE e \in Range(s)
  <2>1. PICK i \in 1..Len(s) : e = s[i]
    BY <1>2 DEF Range
  <2>2. i \in DOMAIN (s \o t) /\ (s \o t)[i] = e
    BY <1>1, <2>1
  <2>. QED BY <1>1, <2>2 DEF Range
<1>3. CASE e \in Range(t)
  <2>1. PICK i \in 1..Len(t) : e = t[i]
    BY <1>3 DEF Range
  <2>2. Len(s) + i \in DOMAIN (s \o t) /\ (s \o t)[Len(s) + i] = e
    BY <1>1, <2>1
  <2>. QED BY <1>1, <2>2 DEF Range
<1>. QED BY <1>2, <1>3

LEMMA LaunchAmongEvents ==
  ASSUME NEW trace, NEW counters, NEW correct
  PROVE  <<"launch", trace.launch>> \in Range(Events(trace, counters, correct))
<1>. DEFINE to == <<"to_device", trace.to_device>>
            launch == <<"launch", trace.launch>>
            sync == <<"sync", "kernel">>
            from == <<"from_device", trace.from_device>>
            counted == <<"counters", counters>>
            check == <<"check", correct>>
            S == {to, launch, sync, from, counted, check}
            p == IF trace.to_device # 0 THEN <<to>> ELSE <<>>
            q == <<launch, sync>>
            r == IF trace.from_device # 0 THEN <<from>> ELSE <<>>
            u == IF counters # NoCounters THEN <<counted>> ELSE <<>>
            v == <<check>>
<1>1. Events(trace, counters, correct) = p \o q \o r \o u \o v
  BY DEF Events
<1>2. to \in S /\ launch \in S /\ sync \in S /\ from \in S /\ counted \in S /\ check \in S
  OBVIOUS
<1>. HIDE DEF S, to, launch, sync, from, counted, check
<1>3. /\ p \in Seq(S) /\ q \in Seq(S) /\ r \in Seq(S) /\ u \in Seq(S) /\ v \in Seq(S)
  BY <1>2
<1>4. launch \in Range(q)
  <2>1. 1 \in DOMAIN q /\ q[1] = launch
    OBVIOUS
  <2>. HIDE DEF q
  <2>. QED BY <2>1 DEF Range
<1>. HIDE DEF p, q, r, u, v
<1>5. p \o q \in Seq(S) /\ launch \in Range(p \o q)
  BY <1>3, <1>4, ConcatRange
<1>6. (p \o q) \o r \in Seq(S) /\ launch \in Range((p \o q) \o r)
  BY <1>3, <1>5, ConcatRange
<1>7. ((p \o q) \o r) \o u \in Seq(S) /\ launch \in Range(((p \o q) \o r) \o u)
  BY <1>3, <1>6, ConcatRange
<1>8. launch \in Range((((p \o q) \o r) \o u) \o v)
  BY <1>3, <1>7, ConcatRange
<1>. QED BY <1>1, <1>8 DEF launch

(* The result the parent makes of the child's output is about the run the  *)
(* child made: its device, shape, dims and bytes, and an equal output.     *)
THEOREM ResultsDescribeRuns == RecordSpec => []ResultDescribesRun
<1>1. RecordIInv => ResultDescribesRun
  <2>1. SUFFICES ASSUME RecordIInv, result # Absent
                 PROVE  /\ result.status = "Succeeded" /\ mismatches = 0
                        /\ result.contract.observed = ObservedFacts
                        /\ result.contract.requested = target
                        /\ result.shape = input
                        /\ <<"launch", launched>> \in Range(result.events)
                        /\ result.transferred = 4 * input[1] * input[2]
    BY DEF ResultDescribesRun
  <2>2. pc = "done" /\ result = MakeResult
    BY <2>1 DEF RecordIInv, Recorded
  <2>. DEFINE traced == stdout.trace.workload
              counters == CountersOf(stdout.perf)
              again == TracedContract(traced)
  <2>3. /\ traced.shape = input
        /\ again.requested = target /\ again.observed = ObservedFacts
        /\ again.mismatched = {}
    BY <2>1, <2>2, TraceAgrees DEF AfterPrint
  <2>4. /\ mismatches = 0 /\ stdout.compare.mismatches = 0
        /\ stdout.trace.launch = launched
        /\ stdout.trace.to_device = 3 * Elements /\ stdout.trace.from_device = Elements
    BY <2>1, <2>2 DEF RecordIInv, Printed
  <2>5. /\ result.shape = traced.shape /\ result.contract = again
        /\ result.status = Status(again, stdout.compare)
        /\ result.events = Events(stdout.trace, counters, stdout.compare)
        /\ result.transferred = stdout.trace.to_device + stdout.trace.from_device
    BY <2>2 DEF MakeResult
  <2>6. result.status = "Succeeded"
    BY <2>3, <2>4, <2>5 DEF Status
  <2>7. result.transferred = 4 * input[1] * input[2]
    <3>1. input[1] \in Nat /\ input[2] \in Nat
      <4>1. op \in Ops /\ input[1] \in 1..op.sequence /\ input[2] \in 1..op.head_dim
        BY <2>1, <2>2 DEF RecordIInv, ShapeChosen, AfterInput, AfterOpen
      <4>. QED BY <4>1, RecordAssumption
    <3>2. Elements \in Nat /\ Elements = input[1] * input[2]
      BY <3>1, ProductMonotone, input[1] <= input[1], input[2] <= input[2] DEF Elements
    <3>. QED BY <2>4, <2>5, <3>1, <3>2
  <2>8. <<"launch", launched>> \in Range(result.events)
    BY <2>4, <2>5, LaunchAmongEvents
  <2>. QED BY <2>3, <2>4, <2>5, <2>6, <2>7, <2>8
<1>. QED BY <1>1, RecordInvariant, PTL

(* The counters of a result are of the whole device, or there are none.    *)
THEOREM CountersAreWhole == RecordSpec => []CountersOfWholeDevice
<1>1. RecordIInv => CountersOfWholeDevice
  <2>1. SUFFICES ASSUME RecordIInv, result # Absent
                 PROVE  result.counters \in {NoCounters, Totals}
    BY DEF CountersOfWholeDevice
  <2>2. stdout.perf \in PerfOutput /\ result.counters = CountersOf(stdout.perf)
    BY <2>1 DEF RecordIInv, Recorded, Printed, MakeResult
  <2>. DEFINE unread == [instrs |-> "total", cycles |-> Garbage]
  <2>3. \/ stdout.perf = <<>> \/ stdout.perf = <<Totals>>
        \/ stdout.perf = <<OfOneCore, Totals>> \/ stdout.perf = <<unread>>
    BY <2>2 DEF PerfOutput
  <2>4. ParsePerf(Totals) \in {NoCounters, Totals}
    BY DEF ParsePerf
  <2>5. ParsePerf(OfOneCore) = NoCounters /\ ParsePerf(unread) = NoCounters
    BY DEF ParsePerf, OfOneCore
  <2>6. CountersOf(<<>>) = NoCounters
    BY DEF CountersOf
  <2>7. /\ CountersOf(<<Totals>>) = ParsePerf(Totals)
        /\ CountersOf(<<OfOneCore, Totals>>) = ParsePerf(OfOneCore)
        /\ CountersOf(<<unread>>) = ParsePerf(unread)
    BY DEF CountersOf
  <2>. QED BY <2>2, <2>3, <2>4, <2>5, <2>6, <2>7
<1>. QED BY <1>1, RecordInvariant, PTL
=============================================================================
