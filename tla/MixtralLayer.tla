---------------------------- MODULE MixtralLayer ----------------------------
(***************************************************************************)
(* The host reference of one Mixtral decoder layer: what the loader of a   *)
(* Hugging Face directory accepts (crates/runtime), what the reference     *)
(* kernels assert and index (crates/kernels), and the choice of experts.   *)
(* Tensors are their shapes; of all float values only the router's logits  *)
(* are looked at.  Products of sizes stay below usize.                     *)
(***************************************************************************)
EXTENDS Integers, Sequences, FiniteSetsExt

CONSTANTS NaN, NegInf, NoExpert   \* two floats; usize::MAX

-----------------------------------------------------------------------------
(* The loader.  A config.json is [type, hidden, intermediate, experts,     *)
(* top_k, heads, kv_heads]; tokens and layer come from the environment.    *)
Product(shape) ==
  LET product[i \in 0..Len(shape)] == IF i = 0 THEN 1 ELSE product[i - 1] * shape[i]
  IN product
Elements(shape) == Product(shape)[Len(shape)]

Sized(config) ==
  /\ config.hidden \in Nat /\ config.intermediate \in Nat /\ config.experts \in Nat
  /\ config.top_k \in Nat /\ config.heads \in Nat /\ config.kv_heads \in Nat

ValidBlock(config, tokens) ==
  /\ config.type = "mixtral"
  /\ tokens # 0
  /\ config.hidden # 0 /\ config.intermediate # 0 /\ config.experts # 0
  /\ config.top_k \in 1..config.experts

AnyHeads(config) == config.heads # 0 /\ config.kv_heads # 0  \* mutant
ValidHeads(config) ==
  /\ config.heads # 0 /\ config.kv_heads # 0
  /\ config.hidden % config.heads = 0
  /\ config.heads % config.kv_heads = 0

HeadDim(config) == config.hidden \div config.heads
QueryWidth(config) == config.heads * HeadDim(config)
KeyValueWidth(config) == config.kv_heads * HeadDim(config)

(* The tensors a fixture is made of, with the shape each must have.  A name *)
(* is of a weight and an expert, 0 for the weights that experts share.      *)
Shapes(config) ==
  [router |-> <<config.experts, config.hidden>>,
   w1 |-> <<config.intermediate, config.hidden>>,
   w3 |-> <<config.intermediate, config.hidden>>,
   w2 |-> <<config.hidden, config.intermediate>>,
   input_norm |-> <<config.hidden>>, post_norm |-> <<config.hidden>>,
   q |-> <<QueryWidth(config), config.hidden>>, o |-> <<config.hidden, QueryWidth(config)>>,
   k |-> <<KeyValueWidth(config), config.hidden>>,
   v |-> <<KeyValueWidth(config), config.hidden>>]
LayerWeights == {"input_norm", "post_norm", "q", "k", "v", "o"}
Names(kind, config) ==
  {<<"router", 0>>} \cup ({"w1", "w2", "w3"} \X (0..(config.experts - 1)))
    \cup (IF kind = "layer" THEN LayerWeights \X {0} ELSE {})
Required(kind, config) == [name \in Names(kind, config) |-> Shapes(config)[name[1]]]

SameShape(tensor, shape) == tensor.shape = shape

(* load_required_tensor_f32, for every tensor of one layer.                 *)
Loadable(kind, config, tensors) ==
  \A name \in DOMAIN Required(kind, config) :
    /\ name \in DOMAIN tensors
    /\ SameShape(tensors[name], Required(kind, config)[name])
    /\ tensors[name].dtype \in {"F32", "F16", "BF16"}

(* A fixture: the config, the tokens and the length of each vector.  The    *)
(* expert tensors w1, w3 and w2 are appended to one vector each.            *)
Lengths(weight, config, shapes) ==
  LET length[n \in 0..config.experts] ==
        IF n = 0 THEN 0 ELSE length[n - 1] + Elements(shapes[<<weight, n - 1>>])
  IN length
Appended(weight, config, shapes) == Lengths(weight, config, shapes)[config.experts]
Fixture(kind, config, tokens, shapes) ==
  [kind |-> kind, config |-> config, tokens |-> tokens,
   len |-> [input |-> tokens * config.hidden, router |-> Elements(shapes[<<"router", 0>>]),
            gate |-> Appended("w1", config, shapes), up |-> Appended("w3", config, shapes),
            down |-> Appended("w2", config, shapes)],
   layer |-> [weight \in IF kind = "layer" THEN LayerWeights ELSE {} |->
                Elements(shapes[<<weight, 0>>])]]

(* TinyMoeFixture and TinyMixtralLayerFixture ::deterministic, of a config  *)
(* that is fixed but for the tokens and is not validated.                   *)
DeterministicConfig ==
  [type |-> "mixtral", hidden |-> 4, intermediate |-> 8, experts |-> 8, top_k |-> 2,
   heads |-> 4, kv_heads |-> 2]
Deterministic(kind, tokens) ==
  Fixture(kind, DeterministicConfig, tokens, Required("layer", DeterministicConfig))

-----------------------------------------------------------------------------
(* The runner: what it asserts and the ranges it slices and indexes.        *)

(* causal_self_attention_f32: heads share a key and value head in groups.   *)
QueryOffset(c, token, head, dim) == (token * c.heads + head) * HeadDim(c) + dim
KeyValueOffset(c, token, head, dim) == (token * c.kv_heads + head) * HeadDim(c) + dim
KeyValueHead(c, head) == (head * c.kv_heads) \div c.heads
AttentionRuns(c, tokens) ==
  /\ c.heads >= c.kv_heads /\ c.heads % c.kv_heads = 0
  /\ \A token \in 0..(tokens - 1), head \in 0..(c.heads - 1), dim \in 0..(HeadDim(c) - 1) :
       /\ QueryOffset(c, token, head, dim) < tokens * QueryWidth(c)
       /\ \A key \in 0..token :
            KeyValueOffset(c, key, KeyValueHead(c, head), dim) < tokens * KeyValueWidth(c)

LayerRuns(f) ==
  LET c == f.config
  IN /\ f.len.input = f.tokens * c.hidden
     /\ f.layer.input_norm = c.hidden /\ f.layer.post_norm = c.hidden
     /\ f.layer.q = QueryWidth(c) * c.hidden /\ f.layer.o = c.hidden * QueryWidth(c)
     /\ f.layer.k = KeyValueWidth(c) * c.hidden /\ f.layer.v = f.layer.k
     /\ AttentionRuns(c, f.tokens)

(* The rows of an expert in the vectors of all of them; routing has the     *)
(* top_k experts of each token.                                             *)
ExpertRuns(f, expert) ==
  LET stride == f.config.intermediate * f.config.hidden
  IN /\ expert # NoExpert
     /\ \A vector \in {"gate", "up", "down"} : (expert + 1) * stride <= f.len[vector]
BlockRuns(f, routing) ==
  LET c == f.config
      experts == c.experts * c.intermediate * c.hidden
  IN /\ c.top_k <= c.experts
     /\ f.len.input = f.tokens * c.hidden /\ f.len.router = c.experts * c.hidden
     /\ f.len.gate = experts /\ f.len.up = experts /\ f.len.down = experts
     /\ \A token \in 1..f.tokens : \A slot \in 1..c.top_k : ExpertRuns(f, routing[token].experts[slot])

(* The report prints the first row of the output.                           *)
PrintRuns(f) == f.config.hidden <= f.tokens * f.config.hidden

-----------------------------------------------------------------------------
(* The router: insert_topk for one expert after another, from a row of      *)
(* minus infinities.  No comparison holds of a NaN.                         *)
NotSmaller(a, b) == a \notin {NaN, NegInf} /\ b # NaN /\ (b = NegInf \/ a >= b)   \* mutant
Greater(a, b) == a \notin {NaN, NegInf} /\ b # NaN /\ (b = NegInf \/ a > b)

Beaten(kept, candidate) ==
  {slot \in DOMAIN kept : Greater(candidate.logit, kept[slot].logit)}
InsertTopK(kept, candidate) ==
  IF Beaten(kept, candidate) = {} THEN kept
  ELSE LET at == Min(Beaten(kept, candidate))
       IN [slot \in DOMAIN kept |->
             IF slot < at THEN kept[slot] ELSE IF slot = at THEN candidate ELSE kept[slot - 1]]

(* What is kept after each expert, the i-th of which has index i - 1.       *)
NoneKept == [logit |-> NegInf, expert |-> NoExpert]
Candidate(logits, i) == [logit |-> logits[i], expert |-> i - 1]
Kept(logits, k) ==
  LET kept[i \in 0..Len(logits)] ==
        IF i = 0 THEN [slot \in 1..k |-> NoneKept]
        ELSE InsertTopK(kept[i - 1], Candidate(logits, i))
  IN kept
RouterTopK(logits, k) ==
  LET kept == Kept(logits, k)[Len(logits)]
  IN [slot \in 1..k |-> kept[slot].expert]

(* What it should be: the slot of an expert is its rank, by falling logit   *)
(* and then rising index.                                                   *)
RanksBefore(logits, a, b) ==
  \/ logits[a + 1] > logits[b + 1]
  \/ logits[a + 1] = logits[b + 1] /\ a < b
IsTopK(selected, logits) ==
  \A slot \in DOMAIN selected :
    /\ selected[slot] # NoExpert
    /\ Cardinality({e \in 0..(Len(logits) - 1) : RanksBefore(logits, e, selected[slot])}) = slot - 1
=============================================================================
