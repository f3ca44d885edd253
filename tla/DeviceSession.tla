---------------------------- MODULE DeviceSession ----------------------------
(***************************************************************************)
(* One VortexBackend of crates/vortex-backend: it opens the device, serves *)
(* calls one at a time (an attention launch or the hardware identity       *)
(* probe), and is dropped.                                                 *)
(*                                                                         *)
(* A call fills a command queue that the device works off on its own; it   *)
(* may fail at every call of the Vortex C API, before or after that call   *)
(* has taken effect, and its locals are then released at once, whatever is *)
(* still in the queue.  The runtime behind the C API is external: the      *)
(* queue is taken to be in order (the writes of a call carry no event the  *)
(* launch could wait for) and a released buffer's address to be free for   *)
(* the next one.                                                           *)
(***************************************************************************)
EXTENDS LaunchLimits, Sequences

CONSTANTS
  ImagePath,   \* where vxbin images lie
  Config,      \* the path configured for the attention kernel
  Image,       \* contents of images
  Address,     \* device addresses, one buffer each
  Dims, Caps,  \* launch shapes calls may ask for; the device's limits
  Absent,      \* no image, no handle, no contents
  MaxCalls,    \* bound: calls of a session
  MaxRebuilds  \* bound: images rebuilt during a session

ASSUME SessionAssumption ==
  /\ Config \in ImagePath /\ Absent \notin Image
  /\ MaxCalls \in Nat /\ MaxRebuilds \in Nat
  /\ Dims \subseteq LaunchShape /\ Caps \in DeviceLimits

VARIABLES
  file,        \* the images on disk
  live,        \* handles owned and not yet released
  modules,     \* executor.modules: the image loaded for a path
  kernels,     \* executor.kernels: the image a (path, symbol) came from
  queue,       \* commands the device has not executed
  mem,         \* contents of device memory
  pc,          \* what the host does next
  call,        \* the call being served: number, kind, path, dims
  args,        \* the addresses of its buffers, in the order of Roles
  written,     \* how many of its inputs it has enqueued
  locals,      \* its handles in the order they were made
  host,        \* its output vector
  rebuilds

session == <<live, modules, kernels>>
device == <<queue, mem>>
serving == <<call, args, written, locals, host>>
vars == <<file, session, device, pc, serving, rebuilds>>

Kind == {"attention", "probe"}
Input == <<"q", "k", "v">>

(* The buffers of a call in the order they are created.  Mutant: none for v*)
RolesWithoutV == IF call.kind = "attention" THEN <<"q", "k", "out">> ELSE <<"out">>
Roles == IF call.kind = "attention" THEN Input \o <<"out">> ELSE <<"out">>

ProbeDims == [grid |-> <<1, 1, 1>>, block |-> <<1, 1, 1>>, shared |-> 0]

Handle ==
  {<<h>> : h \in {"runtime", "device", "queue"}}
    \cup {<<"module", p>> : p \in ImagePath}
    \cup {<<"kernel", p, k>> : p \in ImagePath, k \in Kind}
    \cup {<<"buffer", r>> : r \in {"q", "k", "v", "out"}}
    \cup {<<"event", e>> : e \in {"launch", "read"}}

Key == <<call.path, call.kind>>

CallStep == {"buffers", "writes", "lookup", "get", "launch", "wait_launch",
             "perf", "read", "wait_read"}

SessionInit ==
  /\ file \in [ImagePath -> Image]
  /\ live = {} /\ queue = <<>>
  /\ modules = [p \in ImagePath |-> Absent]
  /\ kernels = [key \in ImagePath \X Kind |-> Absent]
  /\ mem = [a \in Address |-> Absent]
  /\ pc = "closed" /\ locals = <<>> /\ host = Absent
  /\ args = <<>> /\ written = 0
  /\ call = [n |-> 0, kind |-> "probe", path |-> Config, dims |-> ProbeDims]
  /\ rebuilds = 0

-----------------------------------------------------------------------------
(* Opening: Runtime::load, open_device, create_queue.                      *)

Open(from, handle, to) ==
  /\ pc = from
  /\ live' = live \cup {<<handle>>}
  /\ pc' = to
  /\ UNCHANGED <<file, modules, kernels, device, serving, rebuilds>>

LoadRuntime == call.n < MaxCalls /\ Open("closed", "runtime", "loaded")
OpenDevice == Open("loaded", "device", "opened")
CreateQueue == Open("opened", "queue", "idle")

(* An error while opening drops what there is of the backend; so does the  *)
(* owner, or mandrel_vortex_backend_destroy, when it is done with it.      *)
DropBackend ==
  /\ pc \in {"loaded", "opened", "idle"}
  /\ pc' = "drop"
  /\ UNCHANGED <<file, session, device, serving, rebuilds>>

(* The fields of VortexBackend and of its executor in declaration order;   *)
(* the device library stays loaded until the last handle is gone.          *)
(* Mutant: the modules declared before the kernels.                        *)
ModulesFirst == <<"module", "kernel", "queue", "device", "runtime">>
FieldOrder == <<"kernel", "module", "queue", "device", "runtime">>

Rank(h) == CHOOSE i \in 1..Len(FieldOrder) : FieldOrder[i] = h[1]

ReleaseField ==
  /\ pc = "drop"
  /\ \E h \in live :
       /\ \A other \in live : Rank(h) <= Rank(other)
       /\ live' = live \ {h}
       /\ queue' = IF h = <<"queue">> THEN <<>> ELSE queue
  /\ UNCHANGED <<file, modules, kernels, mem, pc, serving, rebuilds>>

BackendDropped ==
  /\ pc = "drop" /\ live = {}
  /\ pc' = "closed"
  /\ modules' = [p \in ImagePath |-> Absent]
  /\ kernels' = [key \in ImagePath \X Kind |-> Absent]
  /\ UNCHANGED <<file, live, device, serving, rebuilds>>

-----------------------------------------------------------------------------
(* run_attention_prefill_i8 and run_hardware_identity_probe.               *)

Push(h) == live' = live \cup {h} /\ locals' = Append(locals, h)

(* A call with a wrong symbol or ill-sized input returns before it does    *)
(* anything and is left out.                                               *)
BeginCall(kind, path, dims) ==
  /\ pc = "idle" /\ call.n < MaxCalls
  /\ CASE kind = "attention" -> path = Config
       [] kind = "probe" -> dims = ProbeDims
  /\ call' = [n |-> call.n + 1, kind |-> kind, path |-> path, dims |-> dims]
  /\ args' = <<>> /\ written' = 0 /\ host' = Absent
  /\ pc' = "buffers"
  /\ UNCHANGED <<file, session, device, locals, rebuilds>>

(* create_buffer; the address the runtime gives it is asked for later, by  *)
(* a call that may fail but changes nothing.                               *)
CreateBuffer(a) ==
  /\ pc = "buffers" /\ a \notin {args[i] : i \in 1..Len(args)}
  /\ Push(<<"buffer", Roles[Len(args) + 1]>>)
  /\ args' = Append(args, a)
  /\ pc' = IF Len(args') < Len(Roles) THEN "buffers"
           ELSE IF call.kind = "attention" THEN "writes" ELSE "lookup"
  /\ UNCHANGED <<file, modules, kernels, device, call, written, host, rebuilds>>

(* What the host wrote, or what a kernel made of the contents it was given.*)
InputOf(n, i) == [call |-> n, role |-> Input[i]]
ResultOf(image, in) == [image |-> image, in |-> in]

(* enqueue_write of q, k and v in turn; the data is staged before it       *)
(* returns.  Mutant: k goes to the buffer of v, and v to that of k.        *)
SwappedTarget(i) == args[<<1, 3, 2>>[i]]
WriteTarget(i) == args[i]

EnqueueWrite ==
  /\ pc = "writes"
  /\ written' = written + 1
  /\ queue' = Append(queue, [op |-> "write", call |-> call.n,
                             to |-> WriteTarget(written'),
                             data |-> InputOf(call.n, written')])
  /\ pc' = IF written' = Len(Input) THEN "lookup" ELSE "writes"
  /\ UNCHANGED <<file, session, mem, call, args, locals, host, rebuilds>>

(* ensure_kernel: a cached kernel is used as it is; a module is loaded only*)
(* if its path is not cached, and is cached before the kernel is asked for.*)
FindKernel ==
  /\ pc = "lookup"
  /\ pc' = IF kernels[Key] # Absent THEN "launch" ELSE "get"
  /\ kernels[Key] = Absent => modules[call.path] # Absent
  /\ UNCHANGED <<file, session, device, serving, rebuilds>>

(* Mutant: the module cache is not consulted.                              *)
AlwaysMissing(path) == path \in ImagePath
ModuleMissing(path) == modules[path] = Absent

LoadModule ==
  /\ pc = "lookup" /\ kernels[Key] = Absent /\ ModuleMissing(call.path)
  /\ file[call.path] # Absent
  /\ modules' = [modules EXCEPT ![call.path] = file[call.path]]
  /\ live' = live \cup {<<"module", call.path>>}
  /\ pc' = "get"
  /\ UNCHANGED <<file, kernels, device, serving, rebuilds>>

GetKernel ==
  /\ pc = "get"
  /\ kernels' = [kernels EXCEPT ![Key] = modules[call.path]]
  /\ live' = live \cup {<<"kernel">> \o Key}
  /\ pc' = "launch"
  /\ UNCHANGED <<file, modules, device, serving, rebuilds>>

(* launch_cached_kernel.                                                   *)
EnqueueLaunch ==
  /\ pc = "launch" /\ LaunchAccepted(call.dims, Caps)
  /\ queue' = Append(queue, [op |-> "launch", call |-> call.n,
                             image |-> kernels[Key], dims |-> call.dims,
                             args |-> args])
  /\ \/ Push(<<"event", "launch">>) /\ pc' = "wait_launch"
     \/ pc' = "unwind" /\ UNCHANGED <<live, locals>>  \* a null event
  /\ UNCHANGED <<file, modules, kernels, mem, call, args, written, host, rebuilds>>

(* Event::wait.  Mutant: the events are dropped without a wait.            *)
NotAwaited(op) == op \in {"read", "launch"}
Executed(op) ==
  \A i \in 1..Len(queue) : queue[i].op = op => queue[i].call # call.n

WaitLaunch ==
  /\ pc = "wait_launch" /\ Executed("launch")
  /\ pc' = IF call.kind = "attention" THEN "perf" ELSE "read"
  /\ UNCHANGED <<file, session, device, serving, rebuilds>>

Last(s) == s[Len(s)]
Pop == /\ live' = live \ {Last(locals)}
       /\ locals' = SubSeq(locals, 1, Len(locals) - 1)

(* dump_perf; launch_kernel_with_args returns and drops its event.         *)
DumpPerf ==
  /\ pc = "perf"
  /\ Pop /\ pc' = "read"
  /\ UNCHANGED <<file, modules, kernels, device, call, args, written, host, rebuilds>>

EnqueueRead ==
  /\ pc = "read"
  /\ queue' = Append(queue, [op |-> "read", call |-> call.n,
                             from |-> args[Len(args)]])
  /\ \/ Push(<<"event", "read">>) /\ pc' = "wait_read"
     \/ pc' = "unwind" /\ UNCHANGED <<live, locals>>  \* a null event
  /\ UNCHANGED <<file, modules, kernels, mem, call, args, written, host, rebuilds>>

WaitRead ==
  /\ pc = "wait_read" /\ Executed("read")
  /\ pc' = "return"
  /\ UNCHANGED <<file, session, device, serving, rebuilds>>

(* A C API call fails, the launch is refused, or no image is configured.   *)
CallFails ==
  /\ pc \in CallStep
  /\ pc' = "unwind"
  /\ UNCHANGED <<file, session, device, serving, rebuilds>>

(* Either way the locals are dropped, the last one made first.             *)
ReleaseLocal ==
  /\ pc \in {"return", "unwind"} /\ locals # <<>>
  /\ Pop
  /\ UNCHANGED <<file, modules, kernels, device, pc, call, args, written, host,
                 rebuilds>>

CallReturns ==
  /\ pc \in {"return", "unwind"} /\ locals = <<>>
  /\ pc' = "idle"
  /\ UNCHANGED <<file, session, device, serving, rebuilds>>

-----------------------------------------------------------------------------
(* The device executes the command at the head of the queue.  A read whose *)
(* call has given up has no vector of the program's to fill.               *)
ExecuteCommand ==
  /\ queue # <<>>
  /\ LET c == Head(queue) IN
       \/ /\ c.op = "write"
          /\ mem' = [mem EXCEPT ![c.to] = c.data]
          /\ UNCHANGED host
       \/ /\ c.op = "launch"
          /\ LET in == [i \in 1..(Len(c.args) - 1) |-> mem[c.args[i]]]
             IN mem' = [mem EXCEPT ![Last(c.args)] = ResultOf(c.image, in)]
          /\ UNCHANGED host
       \/ /\ c.op = "read"
          /\ host' = IF c.call = call.n /\ pc # "idle" THEN mem[c.from] ELSE host
          /\ UNCHANGED mem
  /\ queue' = Tail(queue)
  /\ UNCHANGED <<file, session, pc, call, args, written, locals, rebuilds>>

(* Somebody rebuilds or removes an image while the session is open.        *)
RebuildImage(p) ==
  /\ rebuilds < MaxRebuilds
  /\ \E image \in (Image \cup {Absent}) \ {file[p]} :
       file' = [file EXCEPT ![p] = image]
  /\ rebuilds' = rebuilds + 1
  /\ UNCHANGED <<session, device, pc, serving>>

HostStep ==
  \/ LoadRuntime \/ OpenDevice \/ CreateQueue
  \/ DropBackend \/ ReleaseField \/ BackendDropped
  \/ \E kind \in Kind, path \in ImagePath, dims \in Dims \cup {ProbeDims} :
       BeginCall(kind, path, dims)
  \/ \E a \in Address : CreateBuffer(a)
  \/ EnqueueWrite \/ FindKernel \/ LoadModule \/ GetKernel
  \/ EnqueueLaunch \/ WaitLaunch \/ DumpPerf \/ EnqueueRead \/ WaitRead
  \/ CallFails \/ ReleaseLocal \/ CallReturns

SessionNext ==
  HostStep \/ ExecuteCommand \/ \E p \in ImagePath : RebuildImage(p)

SessionSpec == SessionInit /\ [][SessionNext]_vars

-----------------------------------------------------------------------------
(* Properties.                                                             *)

InputContents == [call : 1..MaxCalls, role : {"q", "k", "v"}]
Contents ==
  InputContents
    \cup [image : Image, in : {<<>>} \cup [1..3 -> InputContents \cup {Absent}]]

SessionTypeOK ==
  /\ file \in [ImagePath -> Image \cup {Absent}]
  /\ live \subseteq Handle
  /\ modules \in [ImagePath -> Image \cup {Absent}]
  /\ kernels \in [ImagePath \X Kind -> Image \cup {Absent}]
  /\ \A a \in Address : mem[a] = Absent \/ mem[a] \in Contents
  /\ pc \in CallStep \cup {"closed", "loaded", "opened", "idle", "drop",
                         "return", "unwind"}
  /\ call.n \in 0..MaxCalls /\ call.kind \in Kind /\ call.path \in ImagePath
  /\ \A i \in 1..Len(args) : args[i] \in Address
  /\ \A i \in 1..Len(locals) : locals[i] \in Handle
  /\ written \in 0..3 /\ rebuilds \in 0..MaxRebuilds

Needs(h) ==
  CASE h[1] = "runtime" -> {}
    [] h[1] = "device" -> {<<"runtime">>}
    [] h[1] \in {"queue", "module", "buffer"} -> {<<"device">>}
    [] h[1] = "kernel" -> {<<"module", h[2]>>}
    [] h[1] = "event" -> {<<"queue">>}

(* Wherever opening, a call or the drop of the backend is cut short, no    *)
(* handle is released while one that was made from it is still owned: the  *)
(* field order of VortexBackend and VortexExecutor does that.              *)
DependentsReleasedFirst == \A h \in live : Needs(h) \subseteq live

(* A call that returns an output returns what the image its kernel was     *)
(* taken from computes of this call's own inputs, each in its place,       *)
(* although a failed call before it may have left commands in the queue    *)
(* that write to addresses it now owns.                                    *)
OutputIsOfOwnCall ==
  pc = "return" =>
    host = ResultOf(kernels[Key], [i \in 1..written |-> InputOf(call.n, i)])

(* A call that returns normally leaves nothing in the queue, so nothing    *)
(* that still uses the buffers and the vector it gives up.                 *)
SettledOnReturn == pc = "return" => queue = <<>>

(* While the backend lives, the module of a path is loaded once: a failure *)
(* between loading it and finding the kernel does not load it again, and   *)
(* all kernels of a path are of that one module.                           *)
ModuleLoadedOnce ==
  [][\A p \in ImagePath :
       /\ modules[p] # Absent /\ pc # "drop" => modules'[p] = modules[p]
       /\ \A k \in Kind : kernels'[<<p, k>>] \in {Absent, modules'[p]}]_vars

(* Whatever the validation lets into the queue fits the device.            *)
QueuedLaunchFits ==
  \A i \in 1..Len(queue) :
    queue[i].op = "launch" => LaunchFits(queue[i].dims, Caps)
=============================================================================
