-------------------------- MODULE MixtralReference --------------------------
(***************************************************************************)
(* `cargo xtask moe-fetch-tiny-mixtral` and, in another terminal, the      *)
(* reference runs of xtask/src/moe.rs on the directory it fills.  Upstream *)
(* is a branch (resolve/main) that may move between two downloads; curl    *)
(* may fail, and a fetch may be stopped, anywhere.                         *)
(***************************************************************************)
EXTENDS MixtralLayer

CONSTANTS
  Revisions,     \* upstream: a sequence of [config, tensors : by layer]
  Attempts,      \* bound: MANDREL_FETCH_RETRIES, zero taken as one
  TokenCounts,   \* values of MANDREL_MOE_TOKENS
  Layers,        \* values of MANDREL_MOE_LAYER
  Logits,        \* values of a router logit of loaded weights
  DeterministicRows,   \* rows of logits of the deterministic fixture, finite
  Absent

ASSUME ReferenceAssumption ==
  /\ NaN \notin Int /\ NegInf \notin Int /\ NaN # NegInf
  /\ NoExpert \notin Nat                  \* no vector has usize::MAX rows
  /\ Len(Revisions) \in Nat \ {0}
  /\ \A i \in 1..Len(Revisions) : Sized(Revisions[i].config)
  /\ Logits \subseteq Int \cup {NaN, NegInf}
  /\ DeterministicRows \subseteq [1..DeterministicConfig.experts -> Int]
  /\ TokenCounts \subseteq Nat /\ Absent \notin Layers

VARIABLES
  upstream,      \* index of the revision at resolve/main
  files, temps,  \* of each file the published one and its download.tmp
  fetch,         \* [pc, file, attempt] of the fetch
  run,           \* [pc, kind, tokens, layer] of the reference run; no layer: no directory
  fixture,       \* what it loaded
  routing        \* of each token the router's logits and its experts

vars == <<upstream, files, temps, fetch, run, fixture, routing>>

Files == <<"config", "weights">>   \* TINY_MIXTRAL_FILES, in their order
Whole(revision) == [revision |-> revision, whole |-> TRUE]
Torn == [revision |-> 0, whole |-> FALSE]

Idle == [pc |-> "idle", file |-> 1, attempt |-> 0]

Init ==
  /\ upstream = 1
  /\ files = [f \in Range(Files) |-> Absent] /\ temps = files
  /\ fetch = Idle
  /\ run = [pc |-> "idle", kind |-> Absent, tokens |-> 0, layer |-> Absent]
  /\ fixture = Absent /\ routing = <<>>

UpstreamMoves ==
  /\ upstream < Len(Revisions) /\ upstream' = upstream + 1
  /\ UNCHANGED <<files, temps, fetch, run, fixture, routing>>

-----------------------------------------------------------------------------
(* fetch_tiny_mixtral, one file after the other.                           *)
reader == <<run, fixture, routing>>
File == Files[fetch.file]

StartFetch ==
  /\ fetch.pc = "idle" /\ fetch' = [Idle EXCEPT !.pc = "stale"]
  /\ UNCHANGED <<upstream, files, temps, reader>>

RemoveStale ==
  /\ fetch.pc = "stale"
  /\ temps' = [temps EXCEPT ![File] = Absent]
  /\ fetch' = [fetch EXCEPT !.pc = "curl", !.attempt = 1]
  /\ UNCHANGED <<upstream, files, reader>>

(* run_checked_with_retries: curl overwrites what an earlier attempt left. *)
CurlSucceeds ==
  /\ fetch.pc = "curl"
  /\ temps' = [temps EXCEPT ![File] = Whole(upstream)]
  /\ fetch' = [fetch EXCEPT !.pc = "rename"]
  /\ UNCHANGED <<upstream, files, reader>>
(* Mutant: the last failure is not reported.                               *)
GivesUpQuietly(attempt) == IF attempt < Attempts THEN "curl" ELSE "rename"
AfterFailure(attempt) == IF attempt < Attempts THEN "curl" ELSE "idle"
CurlFails ==
  /\ fetch.pc = "curl"
  /\ \/ UNCHANGED temps
     \/ temps' = [temps EXCEPT ![File] = Torn]
  /\ fetch' = [fetch EXCEPT !.pc = AfterFailure(fetch.attempt), !.attempt = @ + 1]
  /\ UNCHANGED <<upstream, files, reader>>

Publish ==
  /\ fetch.pc = "rename"
  /\ files' = [files EXCEPT ![File] = temps[File]]
  /\ temps' = [temps EXCEPT ![File] = Absent]
  /\ fetch' = IF fetch.file = Len(Files) THEN Idle
              ELSE [Idle EXCEPT !.pc = "stale", !.file = fetch.file + 1]
  /\ UNCHANGED <<upstream, reader>>

(* A signal, a failing removal or a failing rename.                        *)
StopFetch ==
  /\ fetch.pc # "idle" /\ fetch' = Idle
  /\ \/ UNCHANGED temps
     \/ fetch.pc = "curl" /\ temps' = [temps EXCEPT ![File] = Torn]
  /\ UNCHANGED <<upstream, files, reader>>

-----------------------------------------------------------------------------
(* run_moe_reference_baseline ("block") and run_moe_layer_reference_-      *)
(* baseline ("layer").  Without a directory the fixture is deterministic.  *)
fetcher == <<upstream, files, temps, fetch>>

StartRun ==
  /\ run.pc = "idle"
  /\ \E kind \in {"block", "layer"}, tokens \in TokenCounts :
       \/ /\ run' = [run EXCEPT !.pc = "route", !.kind = kind, !.tokens = tokens]
          /\ fixture' = Deterministic(kind, tokens)
       \/ /\ \E layer \in Layers :
               run' = [pc |-> "config", kind |-> kind, tokens |-> tokens, layer |-> layer]
          /\ UNCHANGED fixture
  /\ UNCHANGED <<fetcher, routing>>

Goto(pc) == run' = [run EXCEPT !.pc = pc] /\ UNCHANGED routing
(* The process ends, and what it held is gone.                             *)
End(pc) ==
  /\ run' = [run EXCEPT !.pc = pc]
  /\ fixture' = Absent /\ routing' = <<>>
Panic == Goto("panicked") /\ UNCHANGED fixture

ReadConfig ==
  /\ run.pc = "config"
  /\ IF files["config"] # Absent /\ files["config"].whole
     THEN LET config == Revisions[files["config"].revision].config
          IN IF ValidBlock(config, run.tokens) /\ (run.kind = "layer" => ValidHeads(config))
             THEN Goto("weights") /\ fixture' = [config |-> config]
             ELSE End("error")
     ELSE End("error")
  /\ UNCHANGED fetcher

ReadWeights ==
  /\ run.pc = "weights"
  /\ LET held == files["weights"]
         tensors == Revisions[held.revision].tensors
         shapes == [name \in DOMAIN tensors[run.layer] |-> tensors[run.layer][name].shape]
     IN IF /\ held # Absent /\ held.whole
           /\ run.layer \in DOMAIN tensors
           /\ Loadable(run.kind, fixture.config, tensors[run.layer])
        THEN Goto("route") /\ fixture' = Fixture(run.kind, fixture.config, run.tokens, shapes)
        ELSE End("error")
  /\ UNCHANGED fetcher

(* The attention half of a layer, and the router's logits of each token.   *)
Rows(f) == IF run.layer = Absent THEN DeterministicRows
           ELSE [1..f.config.experts -> Logits]
Routed(f) ==
  {[logits |-> row, experts |-> RouterTopK(row, f.config.top_k)] : row \in Rows(f)}

Route ==
  /\ run.pc = "route"
  /\ IF fixture.kind = "layer" /\ ~LayerRuns(fixture)
     THEN Panic
     ELSE /\ routing' \in [1..fixture.tokens -> Routed(fixture)]
          /\ run' = [run EXCEPT !.pc = "experts"]
          /\ UNCHANGED fixture
  /\ UNCHANGED fetcher

(* The selected experts, their combination, and the report.                *)
RunExperts ==
  /\ run.pc = "experts"
  /\ IF BlockRuns(fixture, routing) /\ PrintRuns(fixture) THEN End("printed") ELSE Panic
  /\ UNCHANGED fetcher

Next ==
  \/ UpstreamMoves
  \/ StartFetch \/ RemoveStale \/ CurlSucceeds \/ CurlFails \/ Publish \/ StopFetch
  \/ StartRun \/ ReadConfig \/ ReadWeights \/ Route \/ RunExperts

Spec == Init /\ [][Next]_vars

-----------------------------------------------------------------------------
(* Properties.                                                             *)
Finite(row) == \A i \in DOMAIN row : row[i] \notin {NaN, NegInf}

(* However a fetch fails or is stopped, a file under its own name is one   *)
(* complete download: the loader meets torn bytes only under *.tmp.        *)
PublishedWhole == \A f \in DOMAIN files : files[f] # Absent => files[f].whole

(* What the loader accepts, the kernels run: none of their assertions and  *)
(* slices fails, files of two revisions included, unless a token has a     *)
(* logit that is no finite number (then fewer than top_k experts may be    *)
(* kept) or there are no tokens, which only the loader refuses.            *)
LoadedFixtureRuns ==
  run.pc = "panicked" =>
    run.tokens = 0 \/ \E t \in DOMAIN routing : ~Finite(routing[t].logits)

(* The slots of a token hold its top_k experts in the order of their rank. *)
RoutingIsTopK ==
  \A t \in DOMAIN routing :
    Finite(routing[t].logits) => IsTopK(routing[t].experts, routing[t].logits)
=============================================================================
