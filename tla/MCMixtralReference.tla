------------------------ MODULE MCMixtralReference ------------------------
(* Upstream moves to a revision that routes to two experts instead of one,  *)
(* with the same expert tensors, and whose head counts fit no layer: a      *)
(* block can be loaded from files of both.  Each has layer 0 only.          *)
EXTENDS MixtralReference

Config(topK, heads, kvHeads) ==
  [type |-> "mixtral", hidden |-> 2, intermediate |-> 3,
   experts |-> 3, top_k |-> topK, heads |-> heads, kv_heads |-> kvHeads]
Tensors(config) ==
  [name \in DOMAIN Required("layer", config) |->
     [shape |-> Required("layer", config)[name], dtype |-> "BF16"]]
Revision(config) == [config |-> config, tensors |-> [layer \in {0} |-> Tensors(config)]]

MCRevisions == <<Revision(Config(1, 2, 1)), Revision(Config(2, 1, 2))>>
MCRows == {<<4, 3, 3, 2, 2, 1, 1, 1>>}
MCLogits == {1, 2, NaN}
=============================================================================
