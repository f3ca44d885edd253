-------------------------- MODULE MCAttentionWork --------------------------
(* The inputs of MCAttentionKernel under the counted kernel.                *)
EXTENDS MCAttentionKernel, AttentionWork
=============================================================================
