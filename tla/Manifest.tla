------------------------------ MODULE Manifest ------------------------------
(***************************************************************************)
(* Loading a manifest into an agent (manifest.py, Agent.from_manifest,     *)
(* Runtime.build): validate it, build the registry, the providers, the     *)
(* strategies and the hooks, create a session and install on it.  Each of  *)
(* these may refuse, and installing may fail halfway.  What no property    *)
(* tells apart in a section is a flag of it: "shaped" when it has the      *)
(* fields it must have and no others, "config" when its class takes it.    *)
(***************************************************************************)
EXTENDS Naturals, Sequences, FiniteSets

CONSTANTS
  Manifests,          \* the manifests there are: source -> what it parses to
  ToolHandlers, StrategyHandlers, HookHandlers,   \* names the host resolves
  Providers, StreamProviders, ApiKeys             \* provider kinds it has one for

VARIABLES
  source,        \* the manifest that is loaded
  facade,        \* who loads it: "agent" (from_manifest) or "runtime" (build)
  stage,         \* where load is; "ready" and "refused" are its ends
  refusal,       \* class of the exception load or install raised
  registry,      \* tool name -> handler
  streaming,     \* the agent has a stream provider
  installed,     \* how many of Loaded.strategies and .hooks are installed
  hooks          \* session.hooks: point -> handlers with their on_error

manifestVars == <<source, facade, stage, refusal, registry, streaming, installed, hooks>>

\* What parse_source returns, whatever validation then makes of it.
ManifestsAssumption ==
  \A src \in DOMAIN Manifests :
    /\ Manifests[src].tools \in Seq([name : STRING, handler : STRING, shaped : BOOLEAN])
    /\ Manifests[src].strategies \in
         Seq([name : STRING, on_error : STRING, canonical : BOOLEAN, config : BOOLEAN, prompt : STRING])
    /\ Manifests[src].hooks \in
         Seq([name : STRING, handler : STRING, point : STRING, shaped : BOOLEAN, on_error : STRING])
ASSUME ManifestsAssumption

SUPPORTED_VERSIONS == {"0.1"}
PROVIDER_KINDS == {"anthropic", "openai", "gemini", "ollama", "mock"}
Points == {"pre_projection", "pre_tool_use", "post_tool_use"}
OnErrors == {"isolate", "fail_turn"}

\* STRATEGY_CLASSES, and the points at which a class listens.
STRATEGY_CLASSES ==
  {"guard/timeout", "guard/health", "guard/cost_budget", "guard/repetition",
   "sandbox/write", "sandbox/network", "credential/proxy", "Permission::HumanApproval"}
ListensAt ==
  [s \in STRATEGY_CLASSES |->
    CASE s \in {"guard/timeout", "guard/health", "guard/cost_budget"} -> {"pre_projection"}
      [] s = "guard/repetition" -> {"pre_tool_use", "post_tool_use"}
      [] OTHER -> {"pre_tool_use"}]

ManifestInit ==
  /\ source \in DOMAIN Manifests /\ facade \in {"agent", "runtime"}
  /\ stage = "validate" /\ refusal = "none"
  /\ registry = <<>> /\ streaming = FALSE
  /\ installed = 0 /\ hooks = [p \in Points |-> <<>>]

\* parse_source.
manifest == Manifests[source]
Installing == manifest.strategies \o manifest.hooks

-----------------------------------------------------------------------------
(* Validation                                                                *)

ValidProvider(p) == p.shaped /\ (p.kind = "mock" \/ p.model)

\* A name that was seen before is refused.
ValidTools(tools) ==
  /\ \A k \in DOMAIN tools : tools[k].shaped
  /\ \A k, j \in DOMAIN tools : tools[k].name = tools[j].name => k = j

\* The name only has to look canonical; config is not looked at.
ValidStrategies(strategies) ==
  \A k \in DOMAIN strategies : strategies[k].canonical /\ strategies[k].on_error \in OnErrors

ValidHooks(hs) == \A k \in DOMAIN hs : hs[k].shaped /\ hs[k].on_error \in OnErrors

Refuse(class) ==
  /\ stage' = "refused" /\ refusal' = class
  /\ UNCHANGED <<source, facade, registry, streaming, installed, hooks>>

Validate ==
  LET m == manifest
      accepted == /\ m.shaped /\ m.harnas_version \in SUPPORTED_VERSIONS /\ m.named
                  /\ m.provider.kind \in PROVIDER_KINDS /\ ValidProvider(m.provider)
                  /\ ValidTools(m.tools) /\ ValidStrategies(m.strategies) /\ ValidHooks(m.hooks)
  IN
  /\ stage = "validate"
  /\ \/ ~m.shaped /\ Refuse("ValidationError")
     \/ m.shaped /\ m.harnas_version \notin SUPPORTED_VERSIONS /\ Refuse("UnsupportedVersionError")
     \/ /\ m.shaped /\ m.harnas_version \in SUPPORTED_VERSIONS /\ ~accepted
        /\ Refuse(IF m.named /\ m.provider.shaped /\ m.provider.kind \notin PROVIDER_KINDS
                  THEN "UnknownProviderError" ELSE "ValidationError")
     \/ /\ accepted /\ stage' = "registry"
        /\ UNCHANGED <<source, facade, refusal, registry, streaming, installed, hooks>>

-----------------------------------------------------------------------------
(* Building                                                                  *)

BuildRegistry ==
  LET named == {manifest.tools[k].name : k \in DOMAIN manifest.tools}
      HandlerOf(n) == (CHOOSE k \in DOMAIN manifest.tools : manifest.tools[k].name = n)
  IN
  /\ stage = "registry"
  /\ IF \E k \in DOMAIN manifest.tools : manifest.tools[k].handler \notin ToolHandlers
     THEN Refuse("UnresolvedHandlerError")
     ELSE /\ registry' = [n \in named |-> manifest.tools[HandlerOf(n)].handler]
          /\ stage' = "provider"
          /\ UNCHANGED <<source, facade, refusal, streaming, installed, hooks>>

\* What the host gave for the kind is taken; the local kinds need no key.
HasProvider(kind) == kind \in Providers \cup {"mock", "ollama"} \cup ApiKeys
HasStream(kind) == kind \in StreamProviders \cup {"mock", "ollama"} \cup ApiKeys

\* A provider of the host's own does not do: without a stream provider or a
\* key for its kind the agent is refused.
BuildProvider ==
  LET kind == manifest.provider.kind IN
  /\ stage = "provider"
  /\ IF HasProvider(kind) /\ HasStream(kind)
     THEN /\ streaming' = (kind # "mock" \/ kind \in StreamProviders)
          /\ stage' = "strategies"
          /\ UNCHANGED <<source, facade, refusal, registry, installed, hooks>>
     ELSE Refuse("ManifestError")

\* The first strategy, in order, that is unknown or names an unknown handler.
BuildStrategies ==
  LET ss == manifest.strategies
      Unresolved(s) == s.prompt # "none" /\ s.prompt \notin StrategyHandlers
      Bad == {k \in DOMAIN ss : ss[k].name \notin STRATEGY_CLASSES \/ Unresolved(ss[k])}
      First == CHOOSE k \in Bad : \A j \in Bad : k <= j
  IN
  /\ stage = "strategies"
  /\ IF Bad = {}
     THEN /\ stage' = "hooks"
          /\ UNCHANGED <<source, facade, refusal, registry, streaming, installed, hooks>>
     ELSE Refuse(IF ss[First].name \notin STRATEGY_CLASSES
                 THEN "UnknownStrategyError" ELSE "UnresolvedHandlerError")

\* from_manifest takes no hook_handlers: it refuses every manifest with a hook.
HandlersGiven == IF facade = "runtime" THEN HookHandlers ELSE {}

\* The session is created last; Runtime.build may put one it loaded in its
\* place.  It does not install; from_manifest does.
BuildHooks ==
  /\ stage = "hooks"
  /\ IF \E k \in DOMAIN manifest.hooks : manifest.hooks[k].handler \notin HandlersGiven
     THEN Refuse("UnresolvedHandlerError")
     ELSE /\ stage' = IF facade = "agent" THEN "install" ELSE "built"
          /\ UNCHANGED <<source, facade, refusal, registry, streaming, installed, hooks>>

-----------------------------------------------------------------------------
(* Installing                                                                *)

\* The host may call install_strategies on what Runtime.build loaded.
InstallStrategies ==
  /\ stage = "built" /\ stage' = "install"
  /\ UNCHANGED <<source, facade, refusal, registry, streaming, installed, hooks>>

Handler(s) == [name |-> s.name, on_error |-> s.on_error]

\* Mutant: a strategy keeps the metadata its class registered it with.
ListenIsolated(s, points) ==
  hooks' = [p \in Points |-> IF p \in points
                             THEN Append(hooks[p], [name |-> s.name, on_error |-> "isolate"])
                             ELSE hooks[p]]
\* Hooks.on, and for a strategy off and on again with its on_error.
Listen(s, points) ==
  hooks' = [p \in Points |-> IF p \in points THEN Append(hooks[p], Handler(s)) ELSE hooks[p]]

\* Each class checks its own config.
TakesConfig(s) == s.config

\* klass.install(session, **config) builds the instance before it registers
\* anything, and raises if the config is not one of the class.
InstallStrategy ==
  LET s == manifest.strategies[installed + 1] IN
  /\ stage = "install" /\ installed < Len(manifest.strategies)
  /\ IF TakesConfig(s)
     THEN /\ Listen(s, ListensAt[s.name])
          /\ installed' = installed + 1
          /\ UNCHANGED <<source, facade, stage, refusal, registry, streaming>>
     ELSE Refuse("TypeError")

InstallHook ==
  LET h == Installing[installed + 1] IN
  /\ stage = "install" /\ installed >= Len(manifest.strategies) /\ installed < Len(Installing)
  /\ Listen(h, {h.point})
  /\ installed' = installed + 1
  /\ UNCHANGED <<source, facade, stage, refusal, registry, streaming>>

Return ==
  /\ stage = "install" /\ installed = Len(Installing)
  /\ stage' = "ready"
  /\ UNCHANGED <<source, facade, refusal, registry, streaming, installed, hooks>>

Loading ==
  \/ Validate \/ BuildRegistry \/ BuildProvider \/ BuildStrategies \/ BuildHooks
  \/ InstallStrategies \/ InstallStrategy \/ InstallHook \/ Return

-----------------------------------------------------------------------------
(* Properties                                                                *)

ManifestTypeOK ==
  /\ facade \in {"agent", "runtime"}
  /\ stage \in {"validate", "registry", "provider", "strategies", "hooks", "built", "install",
                "ready", "refused"}
  /\ (stage = "refused") = (refusal # "none")
  /\ streaming \in BOOLEAN /\ installed \in Nat
  /\ DOMAIN hooks = Points /\ \A p \in Points : \A k \in DOMAIN hooks[p] : hooks[p][k].on_error \in OnErrors

\* Who among the first k installed listens at a point: a strategy where its
\* class does, a hook where the manifest says.
ListensTo(k, point) ==
  IF k <= Len(manifest.strategies) THEN point \in ListensAt[Installing[k].name]
  ELSE point = Installing[k].point
Upto(k, point) == {j \in 1..k : ListensTo(j, point)}

\* An agent that was handed out is the whole of its manifest: every point of
\* its session has exactly the declared handlers, in the declared order, the
\* hooks behind the strategies, each with the on_error it was declared with;
\* every declared tool has its own handler; and a streaming agent has a stream.
\* (manifest.load, StrategyInstallation.install, HookInstallation.install)
AsDeclared ==
  stage = "ready" =>
    /\ \A p \in Points :
         LET declared == Upto(Len(Installing), p) IN
         /\ Len(hooks[p]) = Cardinality(declared)
         /\ \A k \in declared : hooks[p][Cardinality(Upto(k, p))] = Handler(Installing[k])
    /\ \A k \in DOMAIN manifest.tools :
         /\ manifest.tools[k].name \in DOMAIN registry
         /\ registry[manifest.tools[k].name] = manifest.tools[k].handler
    /\ Cardinality(DOMAIN registry) = Len(manifest.tools)
    /\ (manifest.provider.kind # "mock" => streaming)

Listening(point, name) == \E k \in DOMAIN hooks[point] : hooks[point][k].name = name
=============================================================================
