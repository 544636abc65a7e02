------------------------------ MODULE MCGuards ------------------------------
(* Manifests for Guards: five that are run, and some four hundred that vary a  *)
(* section or two of one of them.                                             *)
EXTENDS Guards, TLC

Symmetric == Permutations(Contents)

Strategy(name, on_error) ==
  [name |-> name, on_error |-> on_error, canonical |-> TRUE, config |-> TRUE, prompt |-> "none"]
Guard(name) == Strategy(name, "isolate")
Before == <<Guard("guard/cost_budget"), Guard("guard/timeout"), Guard("guard/health")>>
Watch(h, on_error) == [name |-> h, handler |-> h, point |-> "post_tool_use", shaped |-> TRUE, on_error |-> on_error]
Tool(name, handler) == [name |-> name, handler |-> handler, shaped |-> TRUE]

Base ==
  [shaped |-> TRUE, harnas_version |-> "0.1", named |-> TRUE,
   provider |-> [kind |-> "mock", model |-> FALSE, shaped |-> TRUE],
   tools |-> <<Tool("read_file", "read"), Tool("write_file", "write")>>,
   strategies |-> Before \o <<Guard("guard/repetition"), Guard("sandbox/write")>>,
   hooks |-> <<>>]

\* A manifest is named by how it differs from Base.  Repetition comes before a
\* boundary that is isolated, and behind one that is not.
RunSources == {<<"run", b, e>> : b \in Boundaries, e \in OnErrors} \ {<<"run", "sandbox/write", "fail_turn">>}
NetworkSources == {src \in RunSources : src[2] = "sandbox/network"}
RunStrategies(b, e) ==
  Before \o IF e = "isolate" THEN <<Guard("guard/repetition"), Guard(b)>>
            ELSE <<Strategy(b, e), Guard("guard/repetition")>>

Kinds == PROVIDER_KINDS \cup {"unknown"}
Tools ==
  << <<>>, <<Tool("read_file", "read"), Tool("read_file", "write")>>,
     <<Tool("read_file", "read"), Tool("view", "read")>>, <<Tool("read_file", "gone")>>,
     <<[Tool("read_file", "read") EXCEPT !.shaped = FALSE]>> >>
Odd ==
  << Guard("guard/repetition"), Guard("own/strategy"), [Guard("plain") EXCEPT !.canonical = FALSE],
     [Guard("sandbox/write") EXCEPT !.config = FALSE], Strategy("guard/health", "retry"),
     [Guard("Permission::HumanApproval") EXCEPT !.prompt = "ask"],
     [Guard("Permission::HumanApproval") EXCEPT !.prompt = "gone"] >>
Watched ==
  << <<>>, <<Watch("audit", "isolate"), Watch("audit", "fail_turn")>>, <<Watch("gone", "isolate")>>,
     <<Watch("audit", "retry")>>, <<[Watch("audit", "isolate") EXCEPT !.shaped = FALSE]>> >>

Sources ==
  RunSources
  \cup {<<"top", a, v, b>> : a, b \in BOOLEAN, v \in {"0.1", "0.2"}}
  \cup {<<"build", k, m, s, t>> : k \in Kinds, m, s \in BOOLEAN, t \in DOMAIN Tools}
  \cup {<<"listen", j, k, h>> : j, k \in DOMAIN Odd, h \in DOMAIN Watched}

MCManifests ==
  [src \in Sources |->
    CASE src[1] = "run" -> [Base EXCEPT !.strategies = RunStrategies(src[2], src[3])]
      [] src[1] = "top" -> [Base EXCEPT !.shaped = src[2], !.harnas_version = src[3], !.named = src[4]]
      [] src[1] = "build" -> [Base EXCEPT !.provider = [kind |-> src[2], model |-> src[3], shaped |-> src[4]],
                                          !.tools = Tools[src[5]]]
      [] OTHER -> [Base EXCEPT !.strategies = <<Odd[src[2]], Odd[src[3]]>>, !.hooks = Watched[src[4]]]]
=============================================================================
