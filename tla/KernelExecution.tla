-------------------------- MODULE KernelExecution --------------------------
(* What a device kernel promises: its blocks are walked from the first one, *)
(* each performs its operations in order and leaves by one edge of its      *)
(* terminator; what can be observed is the trace of stores, barriers and    *)
(* branches with the terms they were given.                                 *)
EXTENDS DeviceIr

VARIABLES kernel, at, env, trace

executionVars == <<kernel, at, env, trace>>

ExecutionInit ==
  /\ at = kernel[1].label
  /\ env = [n \in {Name("arg")} |-> <<"arg">>]
  /\ trace = <<>>

WalkBlock ==
  /\ at # "done"
  /\ LET block == BlockAt(kernel, at)
         exit == block.terminator
         s == FoldLeft(Perform, [env |-> env, trace |-> trace], Work(block))
     IN IF exit.kind = "return"
        THEN at' = "done" /\ env' = s.env /\ trace' = s.trace
        ELSE \E edge \in DOMAIN exit.labels :
               /\ at' = exit.labels[edge]
               /\ env' = EnterBlock(s.env, BlockAt(kernel, exit.labels[edge]), at)
               /\ trace' = Took(s, exit.cond, IF edge = 1 THEN "yes" ELSE "no")
  /\ UNCHANGED kernel

ExecutionSpec == ExecutionInit /\ [][WalkBlock]_executionVars
=============================================================================
