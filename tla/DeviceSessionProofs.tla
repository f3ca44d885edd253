------------------------ MODULE DeviceSessionProofs ------------------------
(***************************************************************************)
(* Every property the run device_session checks, for any images, addresses,*)
(* launch shapes, device limits, number of calls and rebuilds.             *)
(***************************************************************************)
EXTENDS DeviceSession, SequenceTheorems, TLAPS

Serving == CallStep \cup {"return", "unwind"}

-----------------------------------------------------------------------------
(* The invariant.  Handles: what a call makes beyond the caches is in its  *)
(* locals, and a cached module is one that is owned.                       *)
Local ==
  {<<"buffer", r>> : r \in {"q", "k", "v", "out"}}
    \cup {<<"event", e>> : e \in {"launch", "read"}}
Base == {<<"runtime">>, <<"device">>, <<"queue">>}

HandlesOwned ==
  /\ live \subseteq Handle
  /\ locals \in Seq(Local)
  /\ pc \notin Serving => locals = <<>>
  /\ pc \in {"wait_launch", "perf"} => locals # <<>>
  /\ \A h \in live \cap Local : \E i \in 1..Len(locals) : locals[i] = h
  /\ pc = "closed" => live = {}
  /\ pc = "loaded" => live = {<<"runtime">>}
  /\ pc = "opened" => live = {<<"runtime">>, <<"device">>}
  /\ pc \in Serving \cup {"idle"} => Base \subseteq live
  /\ pc # "drop" => \A p \in ImagePath : modules[p] # Absent => <<"module", p>> \in live
  /\ DependentsReleasedFirst

(* Caches: a kernel is of the module of its path, and is there from the    *)
(* lookup on.                                                              *)
CachesAgree ==
  /\ modules \in [ImagePath -> Image \cup {Absent}]
  /\ kernels \in [ImagePath \X Kind -> Image \cup {Absent}]
  /\ \A p \in ImagePath, k \in Kind : kernels[<<p, k>>] \in {Absent, modules[p]}
  /\ pc = "get" => modules[call.path] # Absent
  /\ pc \in {"launch", "wait_launch", "perf", "read", "wait_read", "return"} =>
       kernels[Key] # Absent

(* The call: how many buffers and writes there are at each of its steps.   *)
Calls == [n : 0..MaxCalls, kind : Kind, path : ImagePath, dims : LaunchShape]
Inputs == IF call.kind = "attention" THEN 3 ELSE 0
CallProceeds ==
  /\ call \in Calls
  /\ args \in Seq(Address)
  /\ \A i, j \in 1..Len(args) : args[i] = args[j] => i = j
  /\ written \in 0..3
  /\ pc \in Serving => call.n >= 1
  /\ pc = "buffers" => written = 0 /\ Len(args) <= Inputs
  /\ pc = "writes" => call.kind = "attention" /\ written < 3 /\ Len(args) = 4
  /\ pc = "perf" => call.kind = "attention"
  /\ pc \in {"lookup", "get", "launch", "wait_launch", "perf", "read", "wait_read", "return"} =>
       written = Inputs /\ Len(args) = Inputs + 1

(* The queue: the writes of a call stand right before its launch, or have  *)
(* been executed and nothing has been executed over them since.  StagedIn  *)
(* says so of the first k inputs of call n for position i of a queue q.    *)
WriteOf(n, a, j) == [op |-> "write", call |-> n, to |-> a, data |-> InputOf(n, j)]
StagedIn(q, m, i, n, bufs, k) ==
  \A j \in 1..k :
    IF i - k - 1 + j >= 1 THEN q[i - k - 1 + j] = WriteOf(n, bufs[j], j)
                          ELSE m[bufs[j]] = InputOf(n, j)

Writes == [op : {"write"}, call : 1..MaxCalls, to : Address, data : InputContents]
Launches == {c \in [op : {"launch"}, call : 1..MaxCalls, image : Image,
                    dims : LaunchShape, args : Seq(Address)] :
               /\ Len(c.args) \in {1, 4}
               /\ \A i, j \in 1..Len(c.args) : c.args[i] = c.args[j] => i = j
               /\ LaunchAccepted(c.dims, Caps)}
Reads == [op : {"read"}, call : 1..MaxCalls, from : Address]

QueueStaged ==
  /\ queue \in Seq(Writes \cup Launches \cup Reads)
  /\ mem \in [Address -> Contents \cup {Absent}]
  /\ \A i \in 1..Len(queue) :
       queue[i].op = "launch" =>
         StagedIn(queue, mem, i, queue[i].call, queue[i].args, Len(queue[i].args) - 1)
  /\ pc \in {"writes", "lookup", "get", "launch"} =>
       StagedIn(queue, mem, Len(queue) + 1, call.n, args, written)

(* The output, from the launch to the return.                              *)
LaunchOf == [op |-> "launch", call |-> call.n, image |-> kernels[Key],
             dims |-> call.dims, args |-> args]
ReadOf == [op |-> "read", call |-> call.n, from |-> args[Len(args)]]
Result == ResultOf(kernels[Key], [i \in 1..written |-> InputOf(call.n, i)])
OutputFollows ==
  /\ pc = "wait_launch" =>
       \/ queue = <<>> /\ mem[args[Len(args)]] = Result
       \/ queue # <<>> /\ queue[Len(queue)] = LaunchOf
  /\ pc \in {"perf", "read"} => queue = <<>> /\ mem[args[Len(args)]] = Result
  /\ pc = "wait_read" =>
       \/ queue = <<>> /\ host = Result
       \/ queue = <<ReadOf>> /\ mem[args[Len(args)]] = Result
  /\ pc = "return" => queue = <<>> /\ host = Result

Rest ==
  /\ file \in [ImagePath -> Image \cup {Absent}]
  /\ pc \in Serving \cup {"closed", "loaded", "opened", "idle", "drop"}
  /\ rebuilds \in 0..MaxRebuilds

SessionIInv ==
  HandlesOwned /\ CachesAgree /\ CallProceeds /\ QueueStaged /\ OutputFollows /\ Rest

-----------------------------------------------------------------------------
(* The arithmetic of the validation.                                       *)

LEMMA DivModNat ==
  ASSUME NEW a \in Nat, NEW b \in Nat \ {0}
  PROVE  a \div b \in Nat /\ a % b \in 0..b-1 /\ a = (a \div b) * b + (a % b)
<1>1. a \div b \in Int /\ a % b \in 0..b-1
  OBVIOUS
<1>2. a = b * (a \div b) + (a % b)
  BY <1>1
<1>3. a \div b >= 0
  BY <1>1, <1>2
<1>4. b * (a \div b) = (a \div b) * b
  BY <1>1
<1>. QED BY <1>1, <1>2, <1>3, <1>4

LEMMA MulMonotone ==
  ASSUME NEW x \in Nat, NEW y \in Nat, NEW n \in Nat, x <= y
  PROVE  x * n <= y * n
<1>1. PICK e \in Nat : y = x + e
  <2>1. y - x \in Nat /\ y = x + (y - x)
    OBVIOUS
  <2>. QED BY <2>1
<1>2. y * n = x * n + e * n
  BY <1>1
<1>3. e * n \in Nat /\ x * n \in Nat /\ y * n \in Nat
  OBVIOUS
<1>. QED BY <1>2, <1>3

LEMMA MulReflects ==
  ASSUME NEW x \in Nat, NEW y \in Nat, NEW n \in Nat, x * n < y * n
  PROVE  x < y
<1>1. x * n \in Nat /\ y * n \in Nat
  OBVIOUS
<1>. QED BY <1>1, MulMonotone

LEMMA ProductChecked ==
  ASSUME NEW d \in Triple, CheckedProduct(d) # Overflow, Nonzero(d)
  PROVE  /\ CheckedProduct(d) = d[1] * d[2] * d[3]
         /\ d[1] * d[2] * d[3] \in Nat \ {0}
<1>1. d[1] \in Nat \ {0} /\ d[2] \in Nat \ {0} /\ d[3] \in Nat \ {0}
  BY DEF Triple, Nonzero
<1>2. CheckedProduct(d) = d[1] * d[2] * d[3]
  BY DEF CheckedProduct, CheckedMul
<1>3. d[1] * d[2] \in Nat \ {0}
  BY <1>1
<1>. DEFINE e == d[1] * d[2]
<1>4. e * d[3] \in Nat \ {0}
  <2>. HIDE DEF e
  <2>1. e \in Nat \ {0}
    BY <1>3 DEF e
  <2>. QED BY <1>1, <2>1
<1>. QED BY <1>2, <1>4

(* The warps of a block are as many as its threads need.                   *)
LEMMA WarpsHoldBlock ==
  ASSUME NEW n \in Nat \ {0}, NEW t \in Nat \ {0}, NEW most \in Nat, n <= t * most
  PROVE  /\ DivCeil(n, t) \in 1..most
         /\ n \in ((DivCeil(n, t) - 1) * t + 1)..(DivCeil(n, t) * t)
<1>. DEFINE w == DivCeil(n, t)
            s == (n + t - 1) % t
<1>1. w \in Nat /\ s \in 0..t-1 /\ n + t - 1 = w * t + s
  BY n + t - 1 \in Nat, DivModNat DEF DivCeil
<1>. HIDE DEF w, s
<1>2. w * t \in Nat /\ w # 0
  BY <1>1
<1>3. w - 1 \in Nat /\ (w - 1) * t = w * t - t
  BY <1>1, <1>2
<1>4. (w - 1) * t < n /\ n <= w * t
  BY <1>1, <1>2, <1>3
<1>5. (w - 1) * t < most * t
  <2>1. t * most = most * t /\ most * t \in Nat
    OBVIOUS
  <2>. QED BY <2>1, <1>2, <1>3, <1>4
<1>6. w - 1 < most
  BY <1>3, <1>5, MulReflects
<1>7. n \in ((w - 1) * t + 1)..(w * t) /\ w \in 1..most
  BY <1>1, <1>2, <1>3, <1>4, <1>6
<1>. QED BY <1>7 DEF w

(* However many blocks the warps of a core hold, their shares of its local *)
(* memory are at most all of it.                                           *)
LEMMA SharesFit ==
  ASSUME NEW warps \in Nat, NEW w \in 1..warps, NEW local \in Nat, NEW shared \in Nat,
         NEW resident \in 1..warps, resident * w <= warps,
         shared <= local \div (warps \div w)
  PROVE  resident * shared <= local
<1>. DEFINE q == warps \div w
            r == warps % w
<1>1. q \in Nat /\ r \in 0..w-1 /\ warps = q * w + r
  BY DivModNat, w \in Nat \ {0}, warps \in Nat
<1>. HIDE DEF q, r
<1>2. (q + 1) * w = q * w + w /\ q * w \in Nat /\ resident * w \in Nat
  BY <1>1
<1>3. resident < q + 1
  <2>1. resident * w < (q + 1) * w
    BY <1>1, <1>2
  <2>. QED BY <2>1, <1>1, MulReflects
<1>. DEFINE u == local \div q
            v == local % q
<1>4. u \in Nat /\ v \in 0..q-1 /\ local = u * q + v
  <2>1. q \in Nat \ {0}
    BY <1>1, <1>3
  <2>. QED BY <2>1, DivModNat
<1>. HIDE DEF u, v
<1>5. shared <= u
  BY DEF u, q
<1>6. resident * shared <= q * shared
  BY <1>1, <1>3, MulMonotone
<1>7. shared * q <= u * q
  BY <1>1, <1>4, <1>5, MulMonotone
<1>8. q * shared = shared * q /\ shared * q \in Nat /\ u * q \in Nat
  BY <1>1, <1>4
<1>9. resident * shared \in Nat
  OBVIOUS
<1>. QED BY <1>4, <1>6, <1>7, <1>8, <1>9

(* What validate_launch_dims_against_caps lets through fits the device.    *)
LEMMA AcceptedFits ==
  ASSUME NEW dims \in LaunchShape, NEW caps \in DeviceLimits, LaunchAccepted(dims, caps)
  PROVE  LaunchFits(dims, caps)
<1>1. /\ caps.threads \in Nat \ {0} /\ caps.warps \in Nat \ {0}
      /\ caps.local \in Nat /\ dims.shared \in Nat /\ dims.block \in Triple
  BY DEF LaunchAccepted, LaunchShape, DeviceLimits
<1>. DEFINE n == dims.block[1] * dims.block[2] * dims.block[3]
            w == DivCeil(n, caps.threads)
<1>2. CheckedProduct(dims.block) = n /\ n \in Nat \ {0}
  BY <1>1, ProductChecked DEF LaunchAccepted
<1>3. n <= caps.threads * caps.warps
  BY <1>2 DEF LaunchAccepted
<1>4. w = WarpsPerBlock(dims, caps)
  BY <1>2 DEF WarpsPerBlock
<1>5. w \in 1..caps.warps /\ n \in ((w - 1) * caps.threads + 1)..(w * caps.threads)
  <2>. HIDE DEF n
  <2>. QED BY <1>1, <1>2, <1>3, WarpsHoldBlock
<1>6. ASSUME NEW resident \in 1..caps.warps, resident * w <= caps.warps
      PROVE  resident * dims.shared <= caps.local
  <2>1. CASE dims.shared = 0
    BY <2>1, <1>1
  <2>2. CASE dims.shared # 0
    <3>1. dims.shared <= caps.local \div (caps.warps \div w)
      BY <2>2, <1>4 DEF LaunchAccepted, SharedFits
    <3>. HIDE DEF w
    <3>. QED BY <3>1, <1>1, <1>5, <1>6, SharesFit
  <2>. QED BY <2>1, <2>2
<1>. HIDE DEF w
<1>. QED BY <1>5, <1>6 DEF LaunchFits

-----------------------------------------------------------------------------
(* How staged writes fare when the queue moves.                            *)

LEMMA StagedTail ==
  ASSUME NEW S, NEW q \in Seq(S), q # <<>>, NEW M, NEW m \in [Address -> M], NEW m2,
         NEW i \in 2..Len(q)+1, NEW n, NEW bufs \in Seq(Address), NEW k \in 0..Len(bufs),
         \A x, y \in 1..Len(bufs) : bufs[x] = bufs[y] => x = y,
         StagedIn(q, m, i, n, bufs, k),
         Head(q).op = "write" => m2 = [m EXCEPT ![Head(q).to] = Head(q).data]
  PROVE  StagedIn(Tail(q), m2, i - 1, n, bufs, k)
<1>. SUFFICES ASSUME NEW j \in 1..k
     PROVE  IF i - 1 - k - 1 + j >= 1
            THEN Tail(q)[i - 1 - k - 1 + j] = WriteOf(n, bufs[j], j)
            ELSE m2[bufs[j]] = InputOf(n, j)
  BY DEF StagedIn
<1>. DEFINE p == i - k - 1 + j
            own == k + 2 - i
<1>0. Len(q) \in Nat /\ Len(bufs) \in Nat
  OBVIOUS
<1>1. p \in Int /\ p <= Len(q) /\ own \in Int /\ own <= k /\ j \in 1..Len(bufs)
  BY <1>0
<1>2. IF p >= 1 THEN q[p] = WriteOf(n, bufs[j], j) ELSE m[bufs[j]] = InputOf(n, j)
  BY DEF StagedIn
<1>3. CASE p >= 2
  <2>1. Tail(q)[p - 1] = q[p]
    BY <1>1, <1>3
  <2>. QED BY <2>1, <1>1, <1>2, <1>3
<1>4. CASE p < 2
  <2>1. own \in 1..k /\ i - k - 1 + own = 1
    BY <1>1, <1>4
  <2>2. q[1] = WriteOf(n, bufs[own], own)
    BY <2>1 DEF StagedIn
  <2>3. m2 = [m EXCEPT ![bufs[own]] = InputOf(n, own)]
    <3>1. Head(q) = WriteOf(n, bufs[own], own)
      BY <2>2
    <3>. QED BY <3>1 DEF WriteOf
  <2>4. bufs[own] \in Address /\ bufs[j] \in Address /\ (own # j => bufs[own] # bufs[j])
    BY <1>1, <2>1
  <2>5. own = j <=> p = 1
    BY <1>1
  <2>6. m2[bufs[j]] = InputOf(n, j)
    <3>1. CASE own = j
      BY <3>1, <2>3, <2>4
    <3>2. CASE own # j
      BY <3>2, <1>1, <1>2, <1>4, <2>3, <2>4, <2>5
    <3>. QED BY <3>1, <3>2
  <2>. QED BY <2>6, <1>1, <1>4
<1>. QED BY <1>1, <1>3, <1>4

LEMMA StagedAppend ==
  ASSUME NEW S, NEW q \in Seq(S), NEW e, NEW m, NEW i \in 1..Len(q)+1, NEW n,
         NEW bufs, NEW k \in Nat, StagedIn(q, m, i, n, bufs, k)
  PROVE  StagedIn(Append(q, e), m, i, n, bufs, k)
<1>. SUFFICES ASSUME NEW j \in 1..k
     PROVE  IF i - k - 1 + j >= 1
            THEN Append(q, e)[i - k - 1 + j] = WriteOf(n, bufs[j], j)
            ELSE m[bufs[j]] = InputOf(n, j)
  BY DEF StagedIn
<1>. DEFINE p == i - k - 1 + j
<1>1. p \in Int /\ p <= Len(q)
  OBVIOUS
<1>2. p >= 1 => Append(q, e)[p] = q[p]
  BY <1>1
<1>3. IF p >= 1 THEN q[p] = WriteOf(n, bufs[j], j) ELSE m[bufs[j]] = InputOf(n, j)
  BY DEF StagedIn
<1>. QED BY <1>2, <1>3

LEMMA StagedWrite ==
  ASSUME NEW S, NEW q \in Seq(S), NEW m, NEW n, NEW bufs, NEW k \in Nat,
         StagedIn(q, m, Len(q) + 1, n, bufs, k),
         NEW e, e = WriteOf(n, bufs[k+1], k+1)
  PROVE  StagedIn(Append(q, e), m, Len(q) + 2, n, bufs, k + 1)
<1>. DEFINE r == Append(q, e)
            p(j) == Len(q) + 2 - (k + 1) - 1 + j
<1>1. StagedIn(r, m, Len(q) + 1, n, bufs, k)
  BY Len(q) + 1 \in 1..Len(q)+1, StagedAppend
<1>2. r[Len(q) + 1] = e
  OBVIOUS
<1>3. ASSUME NEW j \in 1..k+1
      PROVE  IF p(j) >= 1 THEN r[p(j)] = WriteOf(n, bufs[j], j) ELSE m[bufs[j]] = InputOf(n, j)
  <2>1. CASE j = k + 1
    <3>1. p(j) = Len(q) + 1 /\ p(j) >= 1
      BY <2>1
    <3>2. e = WriteOf(n, bufs[j], j)
      BY <2>1
    <3>. HIDE DEF r, p
    <3>. QED BY <3>1, <3>2, <1>2
  <2>2. CASE j # k + 1
    <3>1. j \in 1..k /\ p(j) = Len(q) + 1 - k - 1 + j
      BY <2>2
    <3>. HIDE DEF r, p
    <3>. QED BY <3>1, <1>1 DEF StagedIn
  <2>. QED BY <2>1, <2>2
<1>. HIDE DEF r
<1>4. StagedIn(r, m, Len(q) + 2, n, bufs, k + 1)
  BY <1>3 DEF StagedIn
<1>. QED BY <1>4 DEF r

-----------------------------------------------------------------------------
(* The steps, conjunct by conjunct.                                        *)

LEMMA SessionInitially ==
  ASSUME SessionInit
  PROVE  SessionIInv
<1>1. HandlesOwned
  BY DEF SessionInit, HandlesOwned, DependentsReleasedFirst, Serving, CallStep
<1>2. CachesAgree
  BY DEF SessionInit, CachesAgree
<1>3. CallProceeds
  <2>1. call \in Calls
    BY SessionAssumption
       DEF SessionInit, Calls, ProbeDims, LaunchShape, Triple, Kind
  <2>. QED BY <2>1 DEF SessionInit, CallProceeds, Serving, CallStep
<1>4. QueueStaged
  BY DEF SessionInit, QueueStaged
<1>5. OutputFollows
  BY DEF SessionInit, OutputFollows
<1>6. Rest
  BY SessionAssumption DEF SessionInit, Rest
<1>. QED BY <1>1, <1>2, <1>3, <1>4, <1>5, <1>6 DEF SessionIInv

LEMMA RestStep ==
  ASSUME Rest, [SessionNext]_vars
  PROVE  Rest'
<1>. USE DEF Rest, Serving, CallStep
<1>1. ASSUME HostStep PROVE Rest'
  BY <1>1
     DEF HostStep, LoadRuntime, OpenDevice, CreateQueue, Open, DropBackend, ReleaseField,
         BackendDropped, BeginCall, CreateBuffer, EnqueueWrite, FindKernel, LoadModule,
         GetKernel, EnqueueLaunch, WaitLaunch, DumpPerf, EnqueueRead, WaitRead,
         CallFails, ReleaseLocal, CallReturns
<1>2. ASSUME ExecuteCommand PROVE Rest'
  BY <1>2 DEF ExecuteCommand
<1>3. ASSUME NEW p \in ImagePath, RebuildImage(p) PROVE Rest'
  BY <1>3, SessionAssumption DEF RebuildImage
<1>4. ASSUME UNCHANGED vars PROVE Rest'
  BY <1>4 DEF vars
<1>. QED BY <1>1, <1>2, <1>3, <1>4 DEF SessionNext

LEMMA CachesStep ==
  ASSUME CachesAgree, CallProceeds, Rest, [SessionNext]_vars
  PROVE  CachesAgree'
<1>. USE DEF CachesAgree, session, serving, Key
<1>0. call.path \in ImagePath /\ call.kind \in Kind
  BY DEF CallProceeds, Calls
<1>1. CASE LoadRuntime \/ OpenDevice \/ CreateQueue
  BY <1>1 DEF LoadRuntime, OpenDevice, CreateQueue, Open
<1>2. CASE DropBackend \/ ReleaseField \/ CallFails \/ ReleaseLocal \/ CallReturns
  BY <1>2 DEF DropBackend, ReleaseField, CallFails, ReleaseLocal, CallReturns, CallStep
<1>3. CASE BackendDropped
  BY <1>3 DEF BackendDropped
<1>4. ASSUME NEW kind \in Kind, NEW path \in ImagePath, NEW dims \in Dims \cup {ProbeDims},
             BeginCall(kind, path, dims)
      PROVE  CachesAgree'
  BY <1>4 DEF BeginCall
<1>5. ASSUME NEW a \in Address, CreateBuffer(a)
      PROVE  CachesAgree'
  BY <1>5 DEF CreateBuffer
<1>6. CASE EnqueueWrite
  BY <1>6 DEF EnqueueWrite
<1>7. CASE FindKernel
  BY <1>7 DEF FindKernel
<1>8. CASE LoadModule
  BY <1>0, <1>8 DEF LoadModule, ModuleMissing, Rest
<1>9. CASE GetKernel
  BY <1>0, <1>9 DEF GetKernel
<1>10. CASE EnqueueLaunch \/ WaitLaunch \/ DumpPerf \/ EnqueueRead \/ WaitRead
  BY <1>10 DEF EnqueueLaunch, WaitLaunch, DumpPerf, EnqueueRead, WaitRead
<1>11. CASE ExecuteCommand
  BY <1>11 DEF ExecuteCommand
<1>12. ASSUME NEW p \in ImagePath, RebuildImage(p)
       PROVE  CachesAgree'
  BY <1>12 DEF RebuildImage
<1>13. CASE UNCHANGED vars
  BY <1>13 DEF vars
<1>. QED BY <1>1, <1>2, <1>3, <1>4, <1>5, <1>6, <1>7, <1>8, <1>9, <1>10, <1>11, <1>12,
            <1>13 DEF SessionNext, HostStep

LEMMA ProbeShape == ProbeDims \in LaunchShape
BY DEF ProbeDims, LaunchShape, Triple

LEMMA CallStepPreserved ==
  ASSUME CallProceeds, Rest, [SessionNext]_vars
  PROVE  CallProceeds'
<1>. USE DEF CallProceeds, session, device, serving, Serving, CallStep, Inputs
<1>1. CASE LoadRuntime \/ OpenDevice \/ CreateQueue
  BY <1>1 DEF LoadRuntime, OpenDevice, CreateQueue, Open
<1>2. CASE DropBackend \/ ReleaseField \/ BackendDropped
  BY <1>2 DEF DropBackend, ReleaseField, BackendDropped
<1>3. ASSUME NEW kind \in Kind, NEW path \in ImagePath, NEW dims \in Dims \cup {ProbeDims},
             BeginCall(kind, path, dims)
      PROVE  CallProceeds'
  <2>1. dims \in LaunchShape
    BY ProbeShape, SessionAssumption
  <2>2. call.n \in 0..MaxCalls /\ call.n < MaxCalls
    BY <1>3 DEF BeginCall, Calls
  <2>3. call' \in Calls /\ call.n' >= 1
    BY <1>3, <2>1, <2>2, SessionAssumption DEF BeginCall, Calls
  <2>. QED BY <1>3, <2>3 DEF BeginCall
<1>4. ASSUME NEW a \in Address, CreateBuffer(a)
      PROVE  CallProceeds'
  <2>1. /\ pc = "buffers" /\ args' = Append(args, a) /\ UNCHANGED <<call, written>>
        /\ \A i \in 1..Len(args) : args[i] # a
    BY <1>4 DEF CreateBuffer
  <2>2. /\ args' \in Seq(Address) /\ Len(args') = Len(args) + 1
        /\ \A i \in 1..Len(args) : args'[i] = args[i]
        /\ args'[Len(args) + 1] = a
    BY <2>1
  <2>3. \A i, j \in 1..Len(args') : args'[i] = args'[j] => i = j
    BY <2>1, <2>2
  <2>4. Len(Roles) = Inputs + 1
    BY DEF Roles, Input
  <2>5. CASE Len(args') < Len(Roles)
    BY <1>4, <2>1, <2>2, <2>3, <2>4, <2>5 DEF CreateBuffer
  <2>6. CASE ~(Len(args') < Len(Roles))
    <3>1. pc' = IF call.kind = "attention" THEN "writes" ELSE "lookup"
      BY <1>4, <2>6 DEF CreateBuffer
    <3>2. Len(args') = Inputs + 1
      BY <2>1, <2>2, <2>4, <2>6
    <3>. QED BY <2>1, <2>2, <2>3, <3>1, <3>2
  <2>. QED BY <2>5, <2>6
<1>5. CASE EnqueueWrite
  BY <1>5 DEF EnqueueWrite, Input
<1>6. CASE FindKernel \/ LoadModule \/ GetKernel
  BY <1>6 DEF FindKernel, LoadModule, GetKernel
<1>7. CASE EnqueueLaunch \/ EnqueueRead
  BY <1>7 DEF EnqueueLaunch, EnqueueRead
<1>8. CASE WaitLaunch \/ WaitRead \/ DumpPerf
  BY <1>8 DEF WaitLaunch, WaitRead, DumpPerf
<1>9. CASE CallFails \/ ReleaseLocal \/ CallReturns
  BY <1>9 DEF CallFails, ReleaseLocal, CallReturns
<1>10. CASE ExecuteCommand
  BY <1>10 DEF ExecuteCommand
<1>11. ASSUME NEW p \in ImagePath, RebuildImage(p)
       PROVE  CallProceeds'
  BY <1>11 DEF RebuildImage
<1>12. CASE UNCHANGED vars
  BY <1>12 DEF vars
<1>. QED BY <1>1, <1>2, <1>3, <1>4, <1>5, <1>6, <1>7, <1>8, <1>9, <1>10, <1>11, <1>12
         DEF SessionNext, HostStep

(* A handle of a call's locals keeps nothing else alive.                   *)
LEMMA LocalNeeded ==
  ASSUME NEW h \in Handle, NEW l \in Local
  PROVE  l \notin Needs(h) /\ l \notin Base /\ \A p \in ImagePath : l # <<"module", p>>
BY DEF Handle, Local, Needs, Base

LEMMA LocalHandles == Local \subseteq Handle
BY DEF Local, Handle

LEMMA PopLocal ==
  ASSUME HandlesOwned, Pop, locals # <<>>, pc \in Serving
  PROVE  /\ live' \subseteq Handle /\ locals' \in Seq(Local)
         /\ Len(locals') = Len(locals) - 1
         /\ \A h \in live' \cap Local : \E i \in 1..Len(locals') : locals'[i] = h
         /\ Base \subseteq live'
         /\ \A p \in ImagePath : <<"module", p>> \in live => <<"module", p>> \in live'
         /\ DependentsReleasedFirst'
<1>. DEFINE l == Last(locals)
<1>1. l \in Local /\ live' = live \ {l} /\ locals' = SubSeq(locals, 1, Len(locals) - 1)
  BY DEF Pop, Last, HandlesOwned
<1>2. /\ locals' \in Seq(Local) /\ Len(locals') = Len(locals) - 1
      /\ \A i \in 1..Len(locals) - 1 : locals'[i] = locals[i]
  <2>. DEFINE n == Len(locals) - 1
  <2>1. n \in Nat /\ \A i \in 1..n : locals[i] \in Local
    BY DEF HandlesOwned
  <2>. HIDE DEF n
  <2>2. /\ SubSeq(locals, 1, n) \in Seq(Local)
        /\ Len(SubSeq(locals, 1, n)) = IF 1 <= n THEN n - 1 + 1 ELSE 0
        /\ \A i \in 1..n - 1 + 1 : SubSeq(locals, 1, n)[i] = locals[1 + i - 1]
    BY <2>1, 1 \in Int, n \in Int, SubSeqProperties
  <2>3. Len(SubSeq(locals, 1, n)) = n /\ n - 1 + 1 = n
    BY <2>1, <2>2
  <2>4. \A i \in 1..n : SubSeq(locals, 1, n)[i] = locals[i]
    BY <2>1, <2>2, <2>3
  <2>5. locals' = SubSeq(locals, 1, n)
    BY <1>1 DEF n
  <2>. QED BY <2>2, <2>3, <2>4, <2>5 DEF n
<1>3. ASSUME NEW h \in live' \cap Local
      PROVE  \E i \in 1..Len(locals') : locals'[i] = h
  <2>1. PICK i \in 1..Len(locals) : locals[i] = h
    BY <1>1, <1>3 DEF HandlesOwned
  <2>2. i # Len(locals)
    BY <1>1, <1>3, <2>1 DEF Last
  <2>3. i \in 1..Len(locals')
    BY <1>2, <2>2 DEF HandlesOwned
  <2>. QED BY <1>2, <2>1, <2>3
<1>4. /\ live' \subseteq Handle /\ Base \subseteq live'
      /\ \A p \in ImagePath : <<"module", p>> \in live => <<"module", p>> \in live'
  <2>. HIDE DEF l
  <2>1. \A p \in ImagePath : l # <<"module", p>>
    BY <1>1, LocalNeeded, LocalHandles
  <2>2. l \notin Base
    BY <1>1, LocalNeeded, LocalHandles
  <2>. QED BY <1>1, <2>1, <2>2 DEF HandlesOwned
<1>5. DependentsReleasedFirst'
  BY <1>1, LocalNeeded DEF HandlesOwned, DependentsReleasedFirst
<1>. QED BY <1>2, <1>3, <1>4, <1>5

LEMMA PushLocal ==
  ASSUME HandlesOwned, NEW l \in Local, Push(l), pc \in Serving
  PROVE  /\ live' \subseteq Handle /\ locals' \in Seq(Local)
         /\ \A h \in live' \cap Local : \E i \in 1..Len(locals') : locals'[i] = h
         /\ Base \subseteq live' /\ live \subseteq live' /\ locals' # <<>>
         /\ DependentsReleasedFirst'
<1>1. live' = live \cup {l} /\ locals' = Append(locals, l)
  BY DEF Push
<1>2. /\ locals' \in Seq(Local) /\ Len(locals') = Len(locals) + 1
      /\ locals'[Len(locals) + 1] = l
      /\ \A i \in 1..Len(locals) : locals'[i] = locals[i]
  BY <1>1 DEF HandlesOwned
<1>3. ASSUME NEW h \in live' \cap Local
      PROVE  \E i \in 1..Len(locals') : locals'[i] = h
  <2>1. CASE h = l
    <3>1. Len(locals) + 1 \in 1..Len(locals')
      BY <1>2 DEF HandlesOwned
    <3>. QED BY <3>1, <2>1, <1>2
  <2>2. CASE h # l
    <3>1. PICK i \in 1..Len(locals) : locals[i] = h
      BY <1>1, <1>3, <2>2 DEF HandlesOwned
    <3>2. i \in 1..Len(locals')
      BY <1>2 DEF HandlesOwned
    <3>. QED BY <3>1, <3>2, <1>2
  <2>. QED BY <2>1, <2>2
<1>4. live' \subseteq Handle /\ Base \subseteq live' /\ live \subseteq live'
  BY <1>1, LocalHandles DEF HandlesOwned
<1>5. DependentsReleasedFirst'
  <2>1. Needs(l) \subseteq Base
    BY DEF Needs, Local, Base
  <2>. QED BY <1>1, <1>4, <2>1 DEF HandlesOwned, DependentsReleasedFirst
<1>. QED BY <1>2, <1>3, <1>4, <1>5

(* The field order releases a handle only after those made from it.        *)
LEMMA RankOrder ==
  ASSUME NEW h \in Handle \ Local, NEW other \in Handle \ Local, h \in Needs(other)
  PROVE  Rank(h) \in 1..5 /\ Rank(other) \in 1..5 /\ Rank(other) < Rank(h)
<1>. DEFINE order == FieldOrder
<1>1. /\ Len(order) = 5
      /\ order[1] = "kernel" /\ order[2] = "module" /\ order[3] = "queue"
      /\ order[4] = "device" /\ order[5] = "runtime"
  BY DEF FieldOrder
<1>2. ASSUME NEW g \in Handle, NEW i \in 1..5, g[1] = order[i]
      PROVE  Rank(g) = i
  BY <1>1, <1>2 DEF Rank
<1>3. CASE other[1] = "kernel"
  <2>1. h[1] = "module"
    BY <1>3 DEF Needs
  <2>. QED BY <2>1, <1>1, <1>2, <1>3
<1>4. CASE other[1] \in {"queue", "module"}
  <2>1. h[1] = "device"
    BY <1>4 DEF Needs
  <2>. QED BY <2>1, <1>1, <1>2, <1>4
<1>5. CASE other[1] = "device"
  <2>1. h[1] = "runtime"
    BY <1>5 DEF Needs
  <2>. QED BY <2>1, <1>1, <1>2, <1>5
<1>6. CASE other[1] = "runtime"
  BY <1>6 DEF Needs
<1>7. other[1] \in {"kernel", "queue", "module", "device", "runtime"}
  BY DEF Handle, Local
<1>. QED BY <1>3, <1>4, <1>5, <1>6, <1>7

LEMMA ReleaseFieldStep ==
  ASSUME HandlesOwned, ReleaseField
  PROVE  HandlesOwned'
<1>. PICK h \in live : /\ \A other \in live : Rank(h) <= Rank(other)
                       /\ live' = live \ {h}
  BY DEF ReleaseField
<1>1. pc = "drop" /\ pc' = "drop" /\ UNCHANGED <<modules, serving>>
  BY DEF ReleaseField
<1>2. locals = <<>> /\ live \cap Local = {}
  <2>1. locals = <<>>
    BY <1>1 DEF HandlesOwned, Serving, CallStep
  <2>. QED BY <2>1 DEF HandlesOwned
<1>3. \A other \in live : h \notin Needs(other)
  <2>1. SUFFICES ASSUME NEW other \in live, h \in Needs(other)
                 PROVE  FALSE
    OBVIOUS
  <2>2. h \in Handle \ Local /\ other \in Handle \ Local
    BY <1>2 DEF HandlesOwned
  <2>3. Rank(h) \in 1..5 /\ Rank(other) \in 1..5 /\ Rank(other) < Rank(h)
    BY <2>1, <2>2, RankOrder
  <2>. QED BY <2>3
<1>4. DependentsReleasedFirst'
  BY <1>3 DEF HandlesOwned, DependentsReleasedFirst
<1>. QED BY <1>1, <1>2, <1>4 DEF HandlesOwned, serving, Serving, CallStep

LEMMA KernelHandle ==
  ASSUME NEW p \in ImagePath, NEW k \in Kind
  PROVE  /\ <<"kernel">> \o <<p, k>> = <<"kernel", p, k>>
         /\ <<"kernel", p, k>> \in Handle \ Local
         /\ Needs(<<"kernel", p, k>>) = {<<"module", p>>}
<1>1. <<"kernel">> \o <<p, k>> = <<"kernel", p, k>>
  <2>. DEFINE S == {"kernel", p, k}
              s == <<"kernel">> \o <<p, k>>
              t == <<"kernel", p, k>>
  <2>1. <<"kernel">> \in Seq(S) /\ <<p, k>> \in Seq(S) /\ t \in Seq(S)
    OBVIOUS
  <2>2. /\ Len(s) = 3 /\ s \in Seq(S)
        /\ \A i \in 1..3 : s[i] = IF i <= 1 THEN <<"kernel">>[i] ELSE <<p, k>>[i - 1]
    BY <2>1, ConcatProperties
  <2>3. s[1] = t[1] /\ s[2] = t[2] /\ s[3] = t[3] /\ Len(t) = 3
    BY <2>2
  <2>. HIDE DEF s, t, S
  <2>4. \A i \in 1..Len(s) : s[i] = t[i]
    BY <2>2, <2>3
  <2>5. s = t
    BY <2>1, <2>2, <2>3, <2>4, SeqEqual
  <2>. QED BY <2>5 DEF s, t
<1>2. <<"kernel", p, k>> \in Handle \ Local
  BY DEF Handle, Local
<1>3. Needs(<<"kernel", p, k>>) = {<<"module", p>>}
  BY DEF Needs
<1>. QED BY <1>1, <1>2, <1>3

LEMMA ModuleHandle ==
  ASSUME NEW p \in ImagePath
  PROVE  /\ <<"module", p>> \in Handle \ Local
         /\ Needs(<<"module", p>>) = {<<"device">>}
BY DEF Handle, Local, Needs

LEMMA BaseHandles ==
  /\ Base \subseteq Handle /\ Base \cap Local = {}
  /\ Needs(<<"runtime">>) = {} /\ Needs(<<"device">>) = {<<"runtime">>}
  /\ Needs(<<"queue">>) = {<<"device">>}
  /\ <<"runtime">> # <<"device">> /\ <<"runtime">> # <<"queue">>
  /\ <<"device">> # <<"queue">>
BY DEF Base, Handle, Local, Needs

LEMMA HandlesStep ==
  ASSUME HandlesOwned, CachesAgree, CallProceeds, Rest, [SessionNext]_vars
  PROVE  HandlesOwned'
<1>. USE DEF session, device, serving
<1>1. CASE LoadRuntime \/ OpenDevice \/ CreateQueue
  <2>1. PICK from \in {"closed", "loaded", "opened"} :
          pc = from /\ UNCHANGED <<modules, locals>>
          /\ locals = <<>> /\ live \cap Local = {}
    BY <1>1 DEF LoadRuntime, OpenDevice, CreateQueue, Open, HandlesOwned, Serving, CallStep
  <2>2. CASE LoadRuntime
    <3>1. pc = "closed" /\ live = {} /\ live' = {<<"runtime">>} /\ pc' = "loaded"
      BY <2>2 DEF LoadRuntime, Open, HandlesOwned
    <3>. QED BY <2>1, <3>1, BaseHandles
             DEF HandlesOwned, DependentsReleasedFirst, Base, Serving, CallStep
  <2>3. CASE OpenDevice
    <3>1. /\ pc = "loaded" /\ live = {<<"runtime">>}
          /\ live' = {<<"runtime">>, <<"device">>} /\ pc' = "opened"
      BY <2>3 DEF OpenDevice, Open, HandlesOwned
    <3>. QED BY <2>1, <3>1, BaseHandles
             DEF HandlesOwned, DependentsReleasedFirst, Base, Serving, CallStep
  <2>4. CASE CreateQueue
    <3>1. /\ pc = "opened" /\ live = {<<"runtime">>, <<"device">>}
          /\ live' = Base /\ pc' = "idle"
      BY <2>4 DEF CreateQueue, Open, HandlesOwned, Base
    <3>. QED BY <2>1, <3>1, BaseHandles
             DEF HandlesOwned, DependentsReleasedFirst, Base, Serving, CallStep
  <2>. QED BY <1>1, <2>2, <2>3, <2>4
<1>2. CASE DropBackend
  BY <1>2 DEF DropBackend, HandlesOwned, DependentsReleasedFirst, Serving, CallStep
<1>3. CASE ReleaseField
  BY <1>3, ReleaseFieldStep
<1>4. CASE BackendDropped
  BY <1>4 DEF BackendDropped, HandlesOwned, DependentsReleasedFirst, Serving, CallStep
<1>5. ASSUME NEW kind \in Kind, NEW path \in ImagePath, NEW dims \in Dims \cup {ProbeDims},
             BeginCall(kind, path, dims)
      PROVE  HandlesOwned'
  BY <1>5 DEF BeginCall, HandlesOwned, DependentsReleasedFirst, Serving, CallStep
<1>6. ASSUME NEW a \in Address, CreateBuffer(a)
      PROVE  HandlesOwned'
  <2>1. /\ pc = "buffers" /\ Push(<<"buffer", Roles[Len(args) + 1]>>) /\ modules' = modules
        /\ pc' \in {"buffers", "writes", "lookup"}
    BY <1>6 DEF CreateBuffer
  <2>2. Len(args) + 1 \in 1..Len(Roles)
    BY <2>1 DEF CallProceeds, Roles, Input, Inputs
  <2>3. Roles[Len(args) + 1] \in {"q", "k", "v", "out"}
    BY <2>2 DEF Roles, Input
  <2>4. <<"buffer", Roles[Len(args) + 1]>> \in Local
    BY <2>3 DEF Local
  <2>5. pc \in Serving
    BY <2>1 DEF Serving, CallStep
  <2>6. /\ live' \subseteq Handle /\ locals' \in Seq(Local)
        /\ \A h \in live' \cap Local : \E i \in 1..Len(locals') : locals'[i] = h
        /\ Base \subseteq live' /\ live \subseteq live'
        /\ DependentsReleasedFirst'
    BY <2>1, <2>4, <2>5, PushLocal
  <2>. QED BY <2>1, <2>6 DEF HandlesOwned, Serving, CallStep
<1>7. CASE EnqueueWrite \/ FindKernel \/ WaitLaunch \/ WaitRead \/ CallFails
  BY <1>7
     DEF EnqueueWrite, FindKernel, WaitLaunch, WaitRead, CallFails, HandlesOwned,
         DependentsReleasedFirst, Serving, CallStep
<1>8. CASE LoadModule
  <2>. DEFINE m == <<"module", call.path>>
  <2>1. /\ pc = "lookup" /\ pc' = "get" /\ live' = live \cup {m} /\ locals' = locals
        /\ modules' = [modules EXCEPT ![call.path] = file[call.path]]
    BY <1>8 DEF LoadModule
  <2>2. call.path \in ImagePath
    BY DEF CallProceeds, Calls
  <2>3. m \in Handle \ Local /\ Needs(m) = {<<"device">>}
    BY <2>2, ModuleHandle
  <2>4. Base \subseteq live
    BY <2>1 DEF HandlesOwned, Serving, CallStep
  <2>5. \A p \in ImagePath : modules'[p] # Absent => <<"module", p>> \in live'
    BY <2>1, <2>2 DEF HandlesOwned, CachesAgree
  <2>. HIDE DEF m
  <2>6. DependentsReleasedFirst'
    BY <2>1, <2>3, <2>4 DEF HandlesOwned, DependentsReleasedFirst, Base
  <2>. QED BY <2>1, <2>3, <2>4, <2>5, <2>6 DEF HandlesOwned, Serving, CallStep
<1>9. CASE GetKernel
  <2>. DEFINE g == <<"kernel", call.path, call.kind>>
  <2>1. call.path \in ImagePath /\ call.kind \in Kind
    BY DEF CallProceeds, Calls
  <2>2. g \in Handle \ Local /\ Needs(g) = {<<"module", call.path>>}
    BY <2>1, KernelHandle
  <2>3. /\ pc = "get" /\ pc' = "launch" /\ live' = live \cup {g}
        /\ locals' = locals /\ modules' = modules
    BY <1>9, <2>1, KernelHandle DEF GetKernel, Key
  <2>4. <<"module", call.path>> \in live
    BY <2>1, <2>3 DEF HandlesOwned, CachesAgree
  <2>. HIDE DEF g
  <2>5. DependentsReleasedFirst'
    BY <2>2, <2>3, <2>4 DEF HandlesOwned, DependentsReleasedFirst
  <2>. QED BY <2>2, <2>3, <2>5 DEF HandlesOwned, Serving, CallStep
<1>10. CASE EnqueueLaunch \/ EnqueueRead
  <2>1. /\ pc \in {"launch", "read"} /\ modules' = modules
        /\ \/ \E e \in {"launch", "read"} : Push(<<"event", e>>)
              /\ pc' \in {"wait_launch", "wait_read"}
           \/ pc' = "unwind" /\ UNCHANGED <<live, locals>>
    BY <1>10 DEF EnqueueLaunch, EnqueueRead
  <2>2. pc \in Serving
    BY <2>1 DEF Serving, CallStep
  <2>3. CASE pc' = "unwind" /\ UNCHANGED <<live, locals>>
    BY <2>1, <2>3 DEF HandlesOwned, DependentsReleasedFirst, Serving, CallStep
  <2>4. ASSUME NEW e \in {"launch", "read"}, Push(<<"event", e>>),
               pc' \in {"wait_launch", "wait_read"}
        PROVE  HandlesOwned'
    <3>1. <<"event", e>> \in Local
      BY DEF Local
    <3>2. /\ live' \subseteq Handle /\ locals' \in Seq(Local)
          /\ \A h \in live' \cap Local : \E i \in 1..Len(locals') : locals'[i] = h
          /\ Base \subseteq live' /\ live \subseteq live' /\ locals' # <<>>
          /\ DependentsReleasedFirst'
      BY <2>2, <2>4, <3>1, PushLocal
    <3>. QED BY <2>1, <2>4, <3>2 DEF HandlesOwned, Serving, CallStep
  <2>. QED BY <2>1, <2>3, <2>4
<1>11. CASE DumpPerf
  <2>1. pc = "perf" /\ pc' = "read" /\ Pop /\ modules' = modules
    BY <1>11 DEF DumpPerf
  <2>2. pc \in Serving
    BY <2>1 DEF Serving, CallStep
  <2>3. locals # <<>>
    BY <2>1 DEF HandlesOwned
  <2>. QED BY <2>1, <2>2, <2>3, PopLocal DEF HandlesOwned, Serving, CallStep
<1>12. CASE ReleaseLocal
  <2>1. pc \in {"return", "unwind"} /\ pc' = pc /\ Pop /\ locals # <<>> /\ modules' = modules
    BY <1>12 DEF ReleaseLocal
  <2>2. pc \in Serving
    BY <2>1 DEF Serving
  <2>. QED BY <2>1, <2>2, PopLocal DEF HandlesOwned, Serving, CallStep
<1>13. CASE CallReturns
  BY <1>13 DEF CallReturns, HandlesOwned, DependentsReleasedFirst, Serving, CallStep
<1>14. CASE ExecuteCommand
  BY <1>14 DEF ExecuteCommand, HandlesOwned, DependentsReleasedFirst
<1>15. ASSUME NEW p \in ImagePath, RebuildImage(p)
       PROVE  HandlesOwned'
  BY <1>15 DEF RebuildImage, HandlesOwned, DependentsReleasedFirst
<1>16. CASE UNCHANGED vars
  BY <1>16 DEF vars, HandlesOwned, DependentsReleasedFirst
<1>. QED BY <1>1, <1>2, <1>3, <1>4, <1>5, <1>6, <1>7, <1>8, <1>9, <1>10, <1>11, <1>12,
            <1>13, <1>14, <1>15, <1>16 DEF SessionNext, HostStep

-----------------------------------------------------------------------------
(* The queue and the output.                                               *)

Commands == Writes \cup Launches \cup Reads

LEMMA CommandsByOp ==
  ASSUME NEW c \in Commands
  PROVE  /\ c.op = "write" => c \in Writes
         /\ c.op = "launch" => c \in Launches
         /\ c.op = "read" => c \in Reads
BY DEF Commands, Writes, Launches, Reads

(* When a launch is the next command, the inputs it reads are there.       *)
LEMMA HeadLaunch ==
  ASSUME QueueStaged, queue # <<>>, Head(queue).op = "launch",
         NEW j \in 1..Len(Head(queue).args) - 1
  PROVE  mem[Head(queue).args[j]] = InputOf(Head(queue).call, j)
<1>. DEFINE c == Head(queue)
            k == Len(c.args) - 1
<1>1. queue \in Seq(Commands) /\ c = queue[1] /\ 1 \in 1..Len(queue) /\ c \in Commands
  BY DEF QueueStaged, Commands
<1>2. StagedIn(queue, mem, 1, c.call, c.args, k)
  BY <1>1 DEF QueueStaged
<1>3. k \in Nat
  BY <1>1, CommandsByOp DEF Launches
<1>. HIDE DEF c, k
<1>4. j \in 1..k
  BY DEF k, c
<1>5. ~(1 - k - 1 + j >= 1)
  BY <1>3, <1>4
<1>6. mem[c.args[j]] = InputOf(c.call, j)
  BY <1>2, <1>4, <1>5 DEF StagedIn
<1>. QED BY <1>6 DEF c

LEMMA InputTyped ==
  ASSUME NEW n \in 1..MaxCalls, NEW j \in 1..3
  PROVE  InputOf(n, j) \in InputContents
BY DEF InputOf, InputContents, Input

LEMMA MemoryTyped ==
  ASSUME QueueStaged, ExecuteCommand
  PROVE  mem' \in [Address -> Contents \cup {Absent}]
<1>. DEFINE c == Head(queue)
<1>1. queue # <<>> /\ queue \in Seq(Commands) /\ c \in Commands
  BY DEF ExecuteCommand, QueueStaged, Commands
<1>2. mem \in [Address -> Contents \cup {Absent}]
  BY DEF QueueStaged
<1>3. CASE c.op = "write"
  <2>1. mem' = [mem EXCEPT ![c.to] = c.data]
    BY <1>3 DEF ExecuteCommand
  <2>2. c.data \in Contents
    BY <1>1, <1>3, CommandsByOp DEF Writes, Contents
  <2>. QED BY <1>2, <2>1, <2>2
<1>4. CASE c.op = "launch"
  <2>. DEFINE in == [i \in 1..(Len(c.args) - 1) |-> mem[c.args[i]]]
              a == Last(c.args)
              r == ResultOf(c.image, in)
  <2>1. mem' = [mem EXCEPT ![a] = r]
    BY <1>4 DEF ExecuteCommand
  <2>2. c \in Launches
    BY <1>1, <1>4, CommandsByOp
  <2>3. Len(c.args) \in {1, 4} /\ c.image \in Image /\ c.call \in 1..MaxCalls
    BY <2>2 DEF Launches
  <2>4. in \in {<<>>} \cup [1..3 -> InputContents \cup {Absent}]
    <3>. DEFINE k == Len(c.args) - 1
    <3>1. k \in {0, 3} /\ in = [i \in 1..k |-> mem[c.args[i]]]
      BY <2>3
    <3>. HIDE DEF in, k, c
    <3>2. CASE k = 0
      <4>1. 1..k = {}
        BY <3>2
      <4>2. in = <<>>
        BY <3>1, <4>1
      <4>. QED BY <4>2
    <3>3. CASE k = 3
      <4>1. \A i \in 1..3 : mem[c.args[i]] = InputOf(c.call, i)
        BY <1>1, <1>4, <3>3, HeadLaunch DEF k, c
      <4>2. \A i \in 1..3 : mem[c.args[i]] \in InputContents
        BY <2>3, <4>1, InputTyped
      <4>. QED BY <3>1, <3>3, <4>2
    <3>. QED BY <3>1, <3>2, <3>3
  <2>5. r \in Contents
    <3>. HIDE DEF in
    <3>. QED BY <2>3, <2>4 DEF ResultOf, Contents
  <2>. HIDE DEF a, r
  <2>. QED BY <1>2, <2>1, <2>5
<1>5. CASE c.op = "read"
  BY <1>2, <1>5 DEF ExecuteCommand
<1>6. c.op \in {"write", "launch", "read"}
  BY DEF ExecuteCommand
<1>. QED BY <1>3, <1>4, <1>5, <1>6

LEMMA ExecuteQueue ==
  ASSUME QueueStaged, CallProceeds, ExecuteCommand
  PROVE  QueueStaged'
<1>. DEFINE c == Head(queue)
<1>1. /\ queue # <<>> /\ queue \in Seq(Commands) /\ c \in Commands /\ queue' = Tail(queue)
      /\ mem \in [Address -> Contents \cup {Absent}]
      /\ c.op = "write" => mem' = [mem EXCEPT ![c.to] = c.data]
      /\ UNCHANGED <<pc, call, args, written>>
  BY DEF ExecuteCommand, QueueStaged, Commands, serving
<1>2. /\ queue' \in Seq(Commands) /\ Len(queue') = Len(queue) - 1 /\ Len(queue) \in Nat \ {0}
      /\ \A i \in 1..Len(queue') : queue'[i] = queue[i + 1]
  BY <1>1, HeadTailProperties
<1>. HIDE DEF c
<1>3. ASSUME NEW i \in 2..Len(queue) + 1, NEW n, NEW bufs \in Seq(Address),
             NEW k \in 0..Len(bufs),
             \A x, y \in 1..Len(bufs) : bufs[x] = bufs[y] => x = y,
             StagedIn(queue, mem, i, n, bufs, k)
      PROVE  StagedIn(queue', mem', i - 1, n, bufs, k)
  BY <1>1, <1>3, StagedTail DEF c
<1>4. ASSUME NEW i \in 1..Len(queue'), queue'[i].op = "launch"
      PROVE  StagedIn(queue', mem', i, queue'[i].call, queue'[i].args, Len(queue'[i].args) - 1)
  <2>. DEFINE l == queue[i + 1]
              k == Len(l.args) - 1
  <2>1. l = queue'[i] /\ i + 1 \in 2..Len(queue) + 1 /\ i + 1 \in 1..Len(queue)
        /\ i + 1 - 1 = i
    BY <1>2
  <2>2. l \in Launches
    BY <1>1, <1>4, <2>1, CommandsByOp
  <2>3. StagedIn(queue, mem, i + 1, l.call, l.args, k)
    BY <1>4, <2>1 DEF QueueStaged
  <2>. HIDE DEF l
  <2>4. /\ l.args \in Seq(Address) /\ k \in 0..Len(l.args)
        /\ \A x, y \in 1..Len(l.args) : l.args[x] = l.args[y] => x = y
    <3>1. l.args \in Seq(Address) /\ Len(l.args) \in {1, 4}
      BY <2>2 DEF Launches
    <3>2. \A x, y \in 1..Len(l.args) : l.args[x] = l.args[y] => x = y
      BY <2>2 DEF Launches
    <3>3. k \in 0..Len(l.args)
      <4>. DEFINE size == Len(l.args)
      <4>1. size \in {1, 4}
        BY <3>1
      <4>. HIDE DEF size
      <4>2. size - 1 \in 0..size
        BY <4>1
      <4>. QED BY <4>2 DEF size
    <3>. HIDE DEF k
    <3>. QED BY <3>1, <3>2, <3>3
  <2>. HIDE DEF k
  <2>5. StagedIn(queue', mem', i + 1 - 1, l.call, l.args, k)
    BY <1>3, <2>1, <2>3, <2>4
  <2>. QED BY <2>1, <2>5 DEF k
<1>5. ASSUME pc \in {"writes", "lookup", "get", "launch"}
      PROVE  StagedIn(queue', mem', Len(queue') + 1, call.n, args, written)
  <2>1. StagedIn(queue, mem, Len(queue) + 1, call.n, args, written)
    BY <1>5 DEF QueueStaged
  <2>2. /\ args \in Seq(Address) /\ written \in 0..Len(args)
        /\ \A x, y \in 1..Len(args) : args[x] = args[y] => x = y
    <3>1. written \in 0..3 /\ written <= Len(args)
      <4>1. CASE pc = "writes"
        BY <4>1 DEF CallProceeds
      <4>2. CASE pc # "writes"
        <5>1. written = Inputs /\ Len(args) = Inputs + 1 /\ written \in 0..3
          BY <1>5, <4>2 DEF CallProceeds
        <5>2. Inputs \in {0, 3}
          BY DEF Inputs
        <5>. QED BY <5>1, <5>2
      <4>. QED BY <4>1, <4>2
    <3>2. \A x, y \in 1..Len(args) : args[x] = args[y] => x = y
      BY DEF CallProceeds
    <3>3. args \in Seq(Address) /\ Len(args) \in Nat
      BY DEF CallProceeds
    <3>. QED BY <3>1, <3>2, <3>3
  <2>3. Len(queue) + 1 \in 2..Len(queue) + 1 /\ Len(queue) + 1 - 1 = Len(queue') + 1
    BY <1>2
  <2>4. StagedIn(queue', mem', Len(queue) + 1 - 1, call.n, args, written)
    BY <1>3, <2>1, <2>2, <2>3
  <2>. QED BY <2>3, <2>4
<1>6. mem' \in [Address -> Contents \cup {Absent}]
  BY MemoryTyped
<1>. QED BY <1>1, <1>2, <1>4, <1>5, <1>6 DEF QueueStaged, Commands

(* Appending a command leaves what stands in the queue as it is.           *)
LEMMA QueueAppend ==
  ASSUME QueueStaged, NEW e \in Commands, queue' = Append(queue, e), mem' = mem,
         e.op = "launch" =>
           StagedIn(queue, mem, Len(queue) + 1, e.call, e.args, Len(e.args) - 1)
  PROVE  /\ queue' \in Seq(Commands) /\ Len(queue') = Len(queue) + 1
         /\ \A i \in 1..Len(queue') :
              queue'[i].op = "launch" =>
                StagedIn(queue', mem', i, queue'[i].call, queue'[i].args,
                         Len(queue'[i].args) - 1)
<1>1. /\ queue \in Seq(Commands) /\ queue' \in Seq(Commands) /\ Len(queue) \in Nat
      /\ Len(queue') = Len(queue) + 1
      /\ queue'[Len(queue) + 1] = e
      /\ \A i \in 1..Len(queue) : queue'[i] = queue[i]
  BY DEF QueueStaged, Commands
<1>2. ASSUME NEW i \in 1..Len(queue'), queue'[i].op = "launch"
      PROVE  StagedIn(queue', mem', i, queue'[i].call, queue'[i].args, Len(queue'[i].args) - 1)
  <2>. DEFINE l == queue'[i]
              size == Len(l.args)
  <2>1. l \in Launches
    <3>1. l \in Commands
      BY <1>1, ElementOfSeq
    <3>. QED BY <1>2, <3>1, CommandsByOp
  <2>2. size \in {1, 4}
    BY <2>1 DEF Launches
  <2>3. StagedIn(queue, mem, i, l.call, l.args, size - 1)
    <3>1. CASE i \in 1..Len(queue)
      <4>1. l = queue[i]
        BY <1>1, <3>1
      <4>. QED BY <4>1, <1>2, <3>1 DEF QueueStaged
    <3>2. CASE i \notin 1..Len(queue)
      <4>1. i = Len(queue) + 1
        BY <1>1, <3>2
      <4>2. l = e
        BY <1>1, <4>1
      <4>. QED BY <4>1, <4>2, <1>2
    <3>. QED BY <3>1, <3>2
  <2>4. i \in 1..Len(queue) + 1
    BY <1>1
  <2>. HIDE DEF l, size
  <2>5. size - 1 \in Nat
    BY <2>2
  <2>6. StagedIn(Append(queue, e), mem, i, l.call, l.args, size - 1)
    BY <1>1, <2>3, <2>4, <2>5, StagedAppend
  <2>. QED BY <2>6 DEF l, size
<1>. QED BY <1>1, <1>2

LEMMA CallKernel ==
  ASSUME CachesAgree, CallProceeds, pc = "launch"
  PROVE  kernels[Key] \in Image
<1>1. Key \in ImagePath \X Kind
  BY DEF CallProceeds, Calls, Key
<1>2. kernels[Key] \in Image \cup {Absent} /\ kernels[Key] # Absent
  BY <1>1 DEF CachesAgree
<1>. QED BY <1>2

LEMMA QueueStep ==
  ASSUME QueueStaged, CachesAgree, CallProceeds, Rest, [SessionNext]_vars
  PROVE  QueueStaged'
<1>. USE DEF session, device, serving
<1>1. ASSUME UNCHANGED <<queue, mem, call, args, written>>,
             pc' \in {"writes", "lookup", "get", "launch"} =>
               pc \in {"writes", "lookup", "get", "launch"}
      PROVE  QueueStaged'
  BY <1>1 DEF QueueStaged
<1>2. CASE LoadRuntime \/ OpenDevice \/ CreateQueue
  BY <1>1, <1>2 DEF LoadRuntime, OpenDevice, CreateQueue, Open
<1>3. CASE DropBackend \/ BackendDropped
  BY <1>1, <1>3 DEF DropBackend, BackendDropped
<1>4. CASE ReleaseField
  <2>1. pc' = "drop" /\ UNCHANGED <<mem, serving>> /\ (queue' = queue \/ queue' = <<>>)
    BY <1>4 DEF ReleaseField
  <2>2. CASE queue' = queue
    BY <2>1, <2>2, <1>1
  <2>3. CASE queue' = <<>>
    BY <2>1, <2>3 DEF QueueStaged
  <2>. QED BY <2>1, <2>2, <2>3
<1>5. ASSUME NEW kind \in Kind, NEW path \in ImagePath, NEW dims \in Dims \cup {ProbeDims},
             BeginCall(kind, path, dims)
      PROVE  QueueStaged'
  BY <1>5 DEF BeginCall, QueueStaged
<1>6. ASSUME NEW a \in Address, CreateBuffer(a)
      PROVE  QueueStaged'
  <2>1. UNCHANGED <<queue, mem, call, written>> /\ pc = "buffers"
    BY <1>6 DEF CreateBuffer
  <2>2. written' = 0
    BY <2>1 DEF CallProceeds
  <2>3. StagedIn(queue', mem', Len(queue') + 1, call'.n, args', written')
    BY <2>2 DEF StagedIn
  <2>. QED BY <2>1, <2>3 DEF QueueStaged
<1>7. CASE EnqueueWrite
  <2>. DEFINE k == written + 1
              e == WriteOf(call.n, args[k], k)
  <2>1. /\ pc = "writes" /\ written' = k /\ queue' = Append(queue, e)
        /\ pc' \in {"lookup", "writes"} /\ UNCHANGED <<mem, call, args>>
    BY <1>7 DEF EnqueueWrite, WriteOf, WriteTarget
  <2>2. k \in 1..3 /\ args[k] \in Address /\ call.n \in 1..MaxCalls /\ written \in Nat
    <3>1. written \in 0..2 /\ args \in Seq(Address) /\ Len(args) = 4
      BY <2>1 DEF CallProceeds
    <3>2. call.n \in 0..MaxCalls /\ call.n >= 1
      BY <2>1 DEF CallProceeds, Calls, Serving, CallStep
    <3>3. k \in 1..3 /\ k \in 1..Len(args) /\ written \in Nat
      BY <3>1
    <3>4. args[k] \in Address
      BY <3>1, <3>3, ElementOfSeq
    <3>5. call.n \in 1..MaxCalls
      BY <3>2, SessionAssumption
    <3>. QED BY <3>3, <3>4, <3>5
  <2>3. e \in Commands /\ e.op = "write"
    BY <2>2, InputTyped DEF WriteOf, Commands, Writes
  <2>4. StagedIn(queue, mem, Len(queue) + 1, call.n, args, written)
    BY <2>1 DEF QueueStaged
  <2>5. StagedIn(Append(queue, e), mem, Len(queue) + 2, call.n, args, written + 1)
    <3>1. queue \in Seq(Commands)
      BY DEF QueueStaged, Commands
    <3>2. e = WriteOf(call.n, args[written + 1], written + 1)
      OBVIOUS
    <3>. HIDE DEF e
    <3>. QED BY <2>2, <2>4, <3>1, <3>2, StagedWrite
  <2>. HIDE DEF e
  <2>6. /\ queue' \in Seq(Commands) /\ Len(queue') = Len(queue) + 1
        /\ \A i \in 1..Len(queue') :
             queue'[i].op = "launch" =>
               StagedIn(queue', mem', i, queue'[i].call, queue'[i].args,
                        Len(queue'[i].args) - 1)
    BY <2>1, <2>3, QueueAppend
  <2>7. Len(queue') + 1 = Len(queue) + 2
    <3>1. Len(queue) \in Nat
      BY DEF QueueStaged
    <3>. QED BY <3>1, <2>6
  <2>8. StagedIn(queue', mem', Len(queue') + 1, call'.n, args', written')
    BY <2>1, <2>5, <2>7
  <2>. QED BY <2>1, <2>6, <2>8 DEF QueueStaged, Commands
<1>8. CASE FindKernel \/ LoadModule \/ GetKernel
  BY <1>1, <1>8 DEF FindKernel, LoadModule, GetKernel
<1>9. CASE EnqueueLaunch
  <2>1. /\ pc = "launch" /\ pc' \in {"wait_launch", "unwind"}
        /\ queue' = Append(queue, LaunchOf) /\ mem' = mem /\ LaunchAccepted(call.dims, Caps)
    BY <1>9 DEF EnqueueLaunch, LaunchOf
  <2>2. /\ call.n \in 1..MaxCalls /\ call.dims \in LaunchShape /\ args \in Seq(Address)
        /\ written = Inputs /\ Len(args) = Inputs + 1
        /\ \A i, j \in 1..Len(args) : args[i] = args[j] => i = j
    <3>1. call.n \in 0..MaxCalls /\ call.n >= 1 /\ call.dims \in LaunchShape
      BY <2>1 DEF CallProceeds, Calls, Serving, CallStep
    <3>2. /\ args \in Seq(Address) /\ written = Inputs /\ Len(args) = Inputs + 1
          /\ \A i, j \in 1..Len(args) : args[i] = args[j] => i = j
      BY <2>1 DEF CallProceeds
    <3>. QED BY <3>1, <3>2, SessionAssumption
  <2>3. Len(args) \in {1, 4} /\ Len(args) - 1 = written
    BY <2>2 DEF Inputs
  <2>4. LaunchOf \in Launches
    BY <2>1, <2>2, <2>3, CallKernel DEF LaunchOf, Launches
  <2>5. LaunchOf.call = call.n /\ LaunchOf.args = args /\ LaunchOf \in Commands
    BY <2>4 DEF LaunchOf, Commands
  <2>6. StagedIn(queue, mem, Len(queue) + 1, call.n, args, written)
    BY <2>1 DEF QueueStaged
  <2>7. /\ queue' \in Seq(Commands) /\ Len(queue') = Len(queue) + 1
        /\ \A i \in 1..Len(queue') :
             queue'[i].op = "launch" =>
               StagedIn(queue', mem', i, queue'[i].call, queue'[i].args,
                        Len(queue'[i].args) - 1)
    BY <2>1, <2>3, <2>5, <2>6, QueueAppend
  <2>8. mem' \in [Address -> Contents \cup {Absent}]
    BY <2>1 DEF QueueStaged
  <2>. QED BY <2>1, <2>7, <2>8 DEF QueueStaged, Commands
<1>10. CASE EnqueueRead
  <2>1. /\ pc = "read" /\ pc' \in {"wait_read", "unwind"}
        /\ queue' = Append(queue, ReadOf) /\ mem' = mem
    BY <1>10 DEF EnqueueRead, ReadOf
  <2>2. call.n \in 1..MaxCalls /\ args[Len(args)] \in Address
    <3>1. call.n \in 0..MaxCalls /\ call.n >= 1
      BY <2>1 DEF CallProceeds, Calls, Serving, CallStep
    <3>2. args \in Seq(Address) /\ Len(args) = Inputs + 1 /\ Inputs \in {0, 3}
      BY <2>1 DEF CallProceeds, Inputs
    <3>3. Len(args) \in 1..Len(args)
      BY <3>2
    <3>. QED BY <3>1, <3>2, <3>3, SessionAssumption
  <2>3. ReadOf \in Commands /\ ReadOf.op = "read"
    BY <2>2 DEF ReadOf, Commands, Reads
  <2>4. /\ queue' \in Seq(Commands)
        /\ \A i \in 1..Len(queue') :
             queue'[i].op = "launch" =>
               StagedIn(queue', mem', i, queue'[i].call, queue'[i].args,
                        Len(queue'[i].args) - 1)
    BY <2>1, <2>3, QueueAppend
  <2>5. mem' \in [Address -> Contents \cup {Absent}]
    BY <2>1 DEF QueueStaged
  <2>. QED BY <2>1, <2>4, <2>5 DEF QueueStaged, Commands
<1>11. CASE WaitLaunch \/ WaitRead \/ DumpPerf
  BY <1>1, <1>11 DEF WaitLaunch, WaitRead, DumpPerf
<1>12. CASE CallFails \/ ReleaseLocal \/ CallReturns
  BY <1>1, <1>12 DEF CallFails, ReleaseLocal, CallReturns
<1>13. CASE ExecuteCommand
  BY <1>13, ExecuteQueue
<1>14. ASSUME NEW p \in ImagePath, RebuildImage(p)
       PROVE  QueueStaged'
  BY <1>1, <1>14 DEF RebuildImage
<1>15. CASE UNCHANGED vars
  BY <1>1, <1>15 DEF vars
<1>. QED BY <1>2, <1>3, <1>4, <1>5, <1>6, <1>7, <1>8, <1>9, <1>10, <1>11, <1>12,
            <1>13, <1>14, <1>15 DEF SessionNext, HostStep

(* The launch of the current call, executed, leaves its result at the      *)
(* address of its output.                                                  *)
LEMMA LaunchExecuted ==
  ASSUME QueueStaged, CallProceeds, ExecuteCommand, pc = "wait_launch",
         Head(queue) = LaunchOf
  PROVE  mem'[args[Len(args)]] = Result
<1>. DEFINE k == Len(args) - 1
            in == [i \in 1..k |-> mem[args[i]]]
            out == args[Len(args)]
<1>1. /\ LaunchOf.op = "launch" /\ LaunchOf.args = args /\ LaunchOf.image = kernels[Key]
      /\ LaunchOf.call = call.n
  BY DEF LaunchOf
<1>2. mem' = [mem EXCEPT ![out] = ResultOf(kernels[Key], in)]
  BY <1>1 DEF ExecuteCommand, Last
<1>3. /\ args \in Seq(Address) /\ written = Inputs /\ Len(args) = Inputs + 1
      /\ Inputs \in {0, 3}
  BY DEF CallProceeds, Inputs
<1>4. k = written /\ Len(args) \in 1..Len(args)
  BY <1>3
<1>5. out \in Address
  BY <1>3, <1>4, ElementOfSeq
<1>6. \A i \in 1..k : mem[args[i]] = InputOf(call.n, i)
  <2>1. queue # <<>>
    BY DEF ExecuteCommand
  <2>. QED BY <1>1, <2>1, HeadLaunch
<1>7. in = [i \in 1..written |-> InputOf(call.n, i)]
  <2>. HIDE DEF k
  <2>. QED BY <1>4, <1>6
<1>8. mem \in [Address -> Contents \cup {Absent}]
  BY DEF QueueStaged
<1>. HIDE DEF in, out
<1>9. mem'[out] = ResultOf(kernels[Key], in)
  BY <1>2, <1>5, <1>8
<1>. QED BY <1>7, <1>9 DEF Result, out

LEMMA OutputExecute ==
  ASSUME OutputFollows, QueueStaged, CallProceeds, ExecuteCommand
  PROVE  OutputFollows'
<1>1. /\ queue # <<>> /\ queue \in Seq(Commands) /\ queue' = Tail(queue)
      /\ UNCHANGED <<pc, call, args, written, kernels>>
  BY DEF ExecuteCommand, QueueStaged, Commands, session
<1>2. /\ queue' \in Seq(Commands) /\ Len(queue') = Len(queue) - 1 /\ Len(queue) \in Nat \ {0}
      /\ \A i \in 1..Len(queue') : queue'[i] = queue[i + 1]
      /\ Head(queue) = queue[1]
  BY <1>1, HeadTailProperties
<1>3. Result' = Result /\ LaunchOf' = LaunchOf /\ ReadOf' = ReadOf
  BY <1>1 DEF Result, LaunchOf, ReadOf, Key
<1>4. CASE pc = "wait_launch"
  <2>1. queue[Len(queue)] = LaunchOf
    BY <1>1, <1>4 DEF OutputFollows
  <2>2. CASE Len(queue) = 1
    <3>1. queue' = <<>> /\ Head(queue) = LaunchOf
      BY <1>2, <2>1, <2>2
    <3>2. mem'[args[Len(args)]] = Result
      BY <1>4, <3>1, LaunchExecuted
    <3>. QED BY <1>1, <1>3, <1>4, <3>1, <3>2 DEF OutputFollows
  <2>3. CASE Len(queue) # 1
    <3>1. Len(queue') \in 1..Len(queue') /\ Len(queue') + 1 = Len(queue)
      BY <1>2, <2>3
    <3>2. queue'[Len(queue')] = LaunchOf /\ queue' # <<>>
      BY <1>2, <2>1, <3>1
    <3>. QED BY <1>1, <1>3, <1>4, <3>2 DEF OutputFollows
  <2>. QED BY <2>2, <2>3
<1>5. CASE pc = "wait_read"
  <2>1. queue = <<ReadOf>> /\ mem[args[Len(args)]] = Result
    BY <1>1, <1>5 DEF OutputFollows
  <2>2. /\ Head(queue) = ReadOf /\ queue' = <<>>
        /\ ReadOf.op = "read" /\ ReadOf.call = call.n /\ ReadOf.from = args[Len(args)]
    BY <1>1, <2>1 DEF ReadOf
  <2>3. host' = mem[args[Len(args)]]
    BY <1>5, <2>2 DEF ExecuteCommand
  <2>. QED BY <1>1, <1>3, <1>5, <2>1, <2>2, <2>3 DEF OutputFollows
<1>6. CASE pc \in {"perf", "read", "return"}
  BY <1>1, <1>6 DEF OutputFollows
<1>7. CASE pc \notin {"wait_launch", "wait_read", "perf", "read", "return"}
  BY <1>1, <1>7 DEF OutputFollows
<1>. QED BY <1>4, <1>5, <1>6, <1>7

LEMMA OutputStep ==
  ASSUME OutputFollows, QueueStaged, CachesAgree, CallProceeds, Rest, [SessionNext]_vars
  PROVE  OutputFollows'
<1>. USE DEF session, device, serving
<1>1. ASSUME pc' \notin {"wait_launch", "wait_read", "perf", "read", "return"}
      PROVE  OutputFollows'
  BY <1>1 DEF OutputFollows
<1>2. CASE LoadRuntime \/ OpenDevice \/ CreateQueue
  BY <1>1, <1>2 DEF LoadRuntime, OpenDevice, CreateQueue, Open
<1>3. CASE DropBackend \/ ReleaseField \/ BackendDropped
  BY <1>1, <1>3 DEF DropBackend, ReleaseField, BackendDropped
<1>4. ASSUME NEW kind \in Kind, NEW path \in ImagePath, NEW dims \in Dims \cup {ProbeDims},
             BeginCall(kind, path, dims)
      PROVE  OutputFollows'
  BY <1>1, <1>4 DEF BeginCall
<1>5. ASSUME NEW a \in Address, CreateBuffer(a)
      PROVE  OutputFollows'
  <2>1. pc' \in {"buffers", "writes", "lookup"}
    BY <1>5 DEF CreateBuffer
  <2>. QED BY <2>1, <1>1
<1>6. CASE EnqueueWrite
  <2>1. pc' \in {"lookup", "writes"}
    BY <1>6 DEF EnqueueWrite
  <2>. QED BY <2>1, <1>1
<1>7. CASE FindKernel \/ LoadModule \/ GetKernel
  <2>1. pc' \in {"launch", "get"}
    BY <1>7 DEF FindKernel, LoadModule, GetKernel
  <2>. QED BY <2>1, <1>1
<1>8. CASE EnqueueLaunch
  <2>1. /\ pc' \in {"wait_launch", "unwind"} /\ queue' = Append(queue, LaunchOf)
        /\ UNCHANGED <<kernels, call, args>>
    BY <1>8 DEF EnqueueLaunch, LaunchOf
  <2>2. LaunchOf' = LaunchOf
    BY <2>1 DEF LaunchOf, Key
  <2>3. queue \in Seq(Commands)
    BY DEF QueueStaged, Commands
  <2>4. queue' # <<>> /\ queue'[Len(queue')] = LaunchOf
    <3>. DEFINE l == LaunchOf
    <3>. HIDE DEF l
    <3>1. queue' = Append(queue, l)
      BY <2>1 DEF l
    <3>2. queue' # <<>> /\ queue'[Len(queue')] = l
      BY <2>3, <3>1
    <3>. QED BY <3>2 DEF l
  <2>. QED BY <2>1, <2>2, <2>4 DEF OutputFollows
<1>9. CASE WaitLaunch
  <2>1. /\ pc = "wait_launch" /\ pc' \in {"perf", "read"} /\ Executed("launch")
        /\ UNCHANGED <<queue, mem, kernels, call, args, written>>
    BY <1>9 DEF WaitLaunch
  <2>2. Result' = Result
    BY <2>1 DEF Result, Key
  <2>3. ~(queue # <<>> /\ queue[Len(queue)] = LaunchOf)
    <3>1. SUFFICES ASSUME queue # <<>>, queue[Len(queue)] = LaunchOf
                   PROVE  FALSE
      OBVIOUS
    <3>2. Len(queue) \in 1..Len(queue)
      BY <3>1 DEF QueueStaged
    <3>. QED BY <2>1, <3>1, <3>2 DEF Executed, LaunchOf
  <2>4. queue = <<>> /\ mem[args[Len(args)]] = Result
    BY <2>1, <2>3 DEF OutputFollows
  <2>. QED BY <2>1, <2>2, <2>4 DEF OutputFollows
<1>10. CASE DumpPerf
  <2>1. /\ pc = "perf" /\ pc' = "read"
        /\ UNCHANGED <<queue, mem, kernels, call, args, written>>
    BY <1>10 DEF DumpPerf
  <2>2. Result' = Result
    BY <2>1 DEF Result, Key
  <2>. QED BY <2>1, <2>2 DEF OutputFollows
<1>11. CASE EnqueueRead
  <2>1. /\ pc = "read" /\ pc' \in {"wait_read", "unwind"} /\ queue' = Append(queue, ReadOf)
        /\ UNCHANGED <<mem, kernels, call, args, written>>
    BY <1>11 DEF EnqueueRead, ReadOf
  <2>2. Result' = Result /\ ReadOf' = ReadOf
    BY <2>1 DEF Result, ReadOf, Key
  <2>3. queue = <<>> /\ mem[args[Len(args)]] = Result
    BY <2>1 DEF OutputFollows
  <2>4. queue' = <<ReadOf>>
    BY <2>1, <2>3
  <2>. QED BY <2>1, <2>2, <2>3, <2>4 DEF OutputFollows
<1>12. CASE WaitRead
  <2>1. /\ pc = "wait_read" /\ pc' = "return" /\ Executed("read")
        /\ UNCHANGED <<queue, host, kernels, call, written>>
    BY <1>12 DEF WaitRead
  <2>2. Result' = Result
    BY <2>1 DEF Result, Key
  <2>3. queue # <<ReadOf>>
    <3>1. SUFFICES ASSUME queue = <<ReadOf>>
                   PROVE  FALSE
      OBVIOUS
    <3>2. 1 \in 1..Len(queue) /\ queue[1] = ReadOf
      BY <3>1
    <3>3. ReadOf.op = "read" /\ ReadOf.call = call.n
      BY DEF ReadOf
    <3>. QED BY <2>1, <3>2, <3>3 DEF Executed
  <2>4. queue = <<>> /\ host = Result
    BY <2>1, <2>3 DEF OutputFollows
  <2>. QED BY <2>1, <2>2, <2>4 DEF OutputFollows
<1>13. CASE CallFails \/ CallReturns
  BY <1>1, <1>13 DEF CallFails, CallReturns
<1>14. CASE ReleaseLocal
  <2>1. /\ pc \in {"return", "unwind"}
        /\ UNCHANGED <<pc, queue, host, kernels, call, written>>
    BY <1>14 DEF ReleaseLocal
  <2>2. Result' = Result
    BY <2>1 DEF Result, Key
  <2>. QED BY <2>1, <2>2 DEF OutputFollows
<1>15. CASE ExecuteCommand
  BY <1>15, OutputExecute
<1>16. CASE UNCHANGED vars
  <2>1. UNCHANGED <<pc, queue, mem, host, kernels, call, args, written>>
    BY <1>16 DEF vars
  <2>2. Result' = Result /\ LaunchOf' = LaunchOf /\ ReadOf' = ReadOf
    BY <2>1 DEF Result, LaunchOf, ReadOf, Key
  <2>. QED BY <2>1, <2>2 DEF OutputFollows
<1>17. ASSUME NEW p \in ImagePath, RebuildImage(p)
       PROVE  OutputFollows'
  <2>1. UNCHANGED <<pc, queue, mem, host, kernels, call, args, written>>
    BY <1>17 DEF RebuildImage
  <2>2. Result' = Result /\ LaunchOf' = LaunchOf /\ ReadOf' = ReadOf
    BY <2>1 DEF Result, LaunchOf, ReadOf, Key
  <2>. QED BY <2>1, <2>2 DEF OutputFollows
<1>. QED BY <1>2, <1>3, <1>4, <1>5, <1>6, <1>7, <1>8, <1>9, <1>10, <1>11, <1>12,
            <1>13, <1>14, <1>15, <1>16, <1>17 DEF SessionNext, HostStep

LEMMA SessionStep ==
  ASSUME SessionIInv, [SessionNext]_vars
  PROVE  SessionIInv'
BY HandlesStep, CachesStep, CallStepPreserved, QueueStep, OutputStep, RestStep
   DEF SessionIInv

LEMMA SessionInductive == SessionSpec => []SessionIInv
<1>1. SessionInit => SessionIInv
  BY SessionInitially
<1>2. SessionIInv /\ [SessionNext]_vars => SessionIInv'
  BY SessionStep
<1>. QED BY <1>1, <1>2, PTL DEF SessionSpec

-----------------------------------------------------------------------------
(* What a session promises.                                                *)

(* Every variable keeps to its values: the handles, the caches, the device *)
(* memory, which holds only inputs and results computed from inputs, and   *)
(* the step a call is at.                                                  *)
THEOREM SessionTypeCorrect == SessionSpec => []SessionTypeOK
<1>1. ASSUME SessionIInv
      PROVE  SessionTypeOK
  <2>1. live \subseteq Handle /\ \A i \in 1..Len(locals) : locals[i] \in Handle
    <3>1. locals \in Seq(Local) /\ live \subseteq Handle
      BY <1>1 DEF SessionIInv, HandlesOwned
    <3>. QED BY <3>1, LocalHandles, ElementOfSeq
  <2>2. /\ modules \in [ImagePath -> Image \cup {Absent}]
        /\ kernels \in [ImagePath \X Kind -> Image \cup {Absent}]
    BY <1>1 DEF SessionIInv, CachesAgree
  <2>3. \A a \in Address : mem[a] = Absent \/ mem[a] \in Contents
    BY <1>1 DEF SessionIInv, QueueStaged
  <2>4. /\ call.n \in 0..MaxCalls /\ call.kind \in Kind /\ call.path \in ImagePath
        /\ written \in 0..3 /\ \A i \in 1..Len(args) : args[i] \in Address
    BY <1>1 DEF SessionIInv, CallProceeds, Calls
  <2>5. /\ file \in [ImagePath -> Image \cup {Absent}] /\ rebuilds \in 0..MaxRebuilds
        /\ pc \in CallStep \cup {"closed", "loaded", "opened", "idle", "drop",
                               "return", "unwind"}
    BY <1>1 DEF SessionIInv, Rest, Serving
  <2>. QED BY <2>1, <2>2, <2>3, <2>4, <2>5 DEF SessionTypeOK
<1>. QED BY <1>1, SessionInductive, PTL

(* However opening, a call or the drop of the backend is cut short, a      *)
(* handle outlives those made from it.                                     *)
THEOREM HandlesReleasedInOrder == SessionSpec => []DependentsReleasedFirst
<1>1. SessionIInv => DependentsReleasedFirst
  BY DEF SessionIInv, HandlesOwned
<1>. QED BY <1>1, SessionInductive, PTL

(* Whatever earlier calls left in the queue, a call that returns an output *)
(* returns what its kernel's image computes of its own inputs.             *)
THEOREM CallReturnsOwnOutput == SessionSpec => []OutputIsOfOwnCall
<1>1. SessionIInv => OutputIsOfOwnCall
  BY DEF SessionIInv, OutputFollows, OutputIsOfOwnCall, Result
<1>. QED BY <1>1, SessionInductive, PTL

(* A call that returns normally leaves no command behind.                  *)
THEOREM ReturnedCallIsSettled == SessionSpec => []SettledOnReturn
<1>1. SessionIInv => SettledOnReturn
  BY DEF SessionIInv, OutputFollows, SettledOnReturn
<1>. QED BY <1>1, SessionInductive, PTL

(* For any launch shapes and any device limits, u64 overflow included,     *)
(* every launch the validation lets into the queue fits the device.        *)
THEOREM AcceptedLaunchesFit == SessionSpec => []QueuedLaunchFits
<1>1. ASSUME SessionIInv, NEW i \in 1..Len(queue), queue[i].op = "launch"
      PROVE  LaunchFits(queue[i].dims, Caps)
  <2>1. queue[i] \in Launches
    <3>1. queue \in Seq(Commands)
      BY <1>1 DEF SessionIInv, QueueStaged, Commands
    <3>. QED BY <1>1, <3>1, ElementOfSeq, CommandsByOp
  <2>2. queue[i].dims \in LaunchShape /\ LaunchAccepted(queue[i].dims, Caps)
    BY <2>1 DEF Launches
  <2>. QED BY <2>2, AcceptedFits, SessionAssumption
<1>2. SessionIInv => QueuedLaunchFits
  BY <1>1 DEF QueuedLaunchFits
<1>. QED BY <1>2, SessionInductive, PTL

(* As long as the backend is not being dropped a path's module stays the   *)
(* one that was loaded first, and its kernels are of that module.          *)
THEOREM PathLoadedOnce == SessionSpec => ModuleLoadedOnce
<1>. DEFINE Once == \A p \in ImagePath :
                      /\ modules[p] # Absent /\ pc # "drop" => modules'[p] = modules[p]
                      /\ \A k \in Kind : kernels'[<<p, k>>] \in {Absent, modules'[p]}
<1>1. ASSUME SessionIInv, [SessionNext]_vars, NEW p \in ImagePath,
             modules[p] # Absent, pc # "drop"
      PROVE  modules'[p] = modules[p]
  <2>1. CASE UNCHANGED modules
    BY <2>1
  <2>2. CASE BackendDropped
    BY <1>1, <2>2 DEF BackendDropped
  <2>3. CASE LoadModule
    <3>1. modules[call.path] = Absent
      BY <2>3 DEF LoadModule, ModuleMissing
    <3>2. /\ modules' = [modules EXCEPT ![call.path] = file[call.path]]
          /\ modules \in [ImagePath -> Image \cup {Absent}]
      BY <1>1, <2>3 DEF LoadModule, SessionIInv, CachesAgree
    <3>. QED BY <1>1, <3>1, <3>2
  <2>4. UNCHANGED modules \/ BackendDropped \/ LoadModule
    BY <1>1
       DEF SessionNext, HostStep, LoadRuntime, OpenDevice, CreateQueue, Open, DropBackend,
           ReleaseField, BeginCall, CreateBuffer, EnqueueWrite, FindKernel, GetKernel,
           EnqueueLaunch, WaitLaunch, DumpPerf, EnqueueRead, WaitRead, CallFails,
           ReleaseLocal, CallReturns, ExecuteCommand, RebuildImage, session, vars
  <2>. QED BY <2>1, <2>2, <2>3, <2>4
<1>2. SessionIInv /\ SessionIInv' /\ [SessionNext]_vars => [Once]_vars
  BY <1>1 DEF SessionIInv, CachesAgree
<1>. QED BY <1>2, SessionInductive, PTL DEF SessionSpec, ModuleLoadedOnce
=============================================================================
