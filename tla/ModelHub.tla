------------------------------ MODULE ModelHub ------------------------------
(***************************************************************************)
(* The choice of a model provider (src/argus/model/hub.py): which of the   *)
(* registered providers are available, and which of those a strategy       *)
(* takes.  Providers are numbered in the order of their registration.      *)
(*                                                                         *)
(* A provider is a record [enabled, known, free, on, models, priority,     *)
(* window, tags, tools]; a request is [tags, tools, large], what           *)
(* TaskClassifier finds in its text, or NoRequest.  Scores, priorities and *)
(* windows are small numbers; a window below 32000 tokens is 0, any other  *)
(* is positive.                                                            *)
(***************************************************************************)
EXTENDS Integers, Sequences, FiniteSets, FiniteSetsExt

CONSTANT NoRequest

Strategies == {"free_first", "balanced", "quality_first", "manual",
               "local_first", "capability_first"}
NoProvider == 0

\* create_router_from_config: providers that are disabled, or that cannot be
\* created, are passed over
RouterFrom(configured) == SelectSeq(configured, LAMBDA p : p.enabled /\ p.known)

IsAvailableToAll(p, cooling, allowPaid) == p.on /\ ~cooling

IsAvailable(p, cooling, allowPaid) == p.on /\ ~cooling /\ (allowPaid \/ p.free)
\* ProviderRegistry.available, and the free ones of those
Available(config, cooling, allowPaid) == {i \in DOMAIN config : IsAvailable(config[i], i \in cooling, allowPaid)}
FreeOnes(config, able) == {i \in able : config[i].free}

\* The first of the providers of a set with the greatest value of f
Best(set, f) ==
    LET top == Max({f[i] : i \in set})
    IN  Min({i \in set : f[i] = top})

\* _pick_best: by priority, those that serve the model before the others.  An
\* order the candidates already have (f) breaks ties of priority.
PickBest(config, set, target, f) ==
    IF set = {} THEN NoProvider
    ELSE LET serving == {i \in set : target \in config[i].models}
             pool == IF serving # {} THEN serving ELSE set
             top == Max({config[i].priority : i \in pool})
         IN  Best({i \in pool : config[i].priority = top}, f)

InOrder(config) == [i \in DOMAIN config |-> 0]

\* the score of a provider for a request, as CAPABILITY_FIRST counts it
Score(p, request) ==
      10 * Cardinality(request.tags \cap p.tags)
    - (IF request.tools /\ ~p.tools THEN 20 ELSE 0)
    - (IF request.large /\ p.window = 0 THEN 10 ELSE 0)

\* Budget.can_spend(0): record_spend is never called, so nothing was spent
CanSpend(allowPaid) == TRUE

\* _select_provider
SelectProvider(config, cooling, strategy, allowPaid, target, request, local, last) ==
    LET able == Available(config, cooling, allowPaid)
        free == FreeOnes(config, able)
        pick(set) == PickBest(config, set, target, InOrder(config))
    IN  CASE able = {} -> NoProvider
          [] able # {} /\ strategy = "manual" -> IF last \in able THEN last ELSE Min(able)
          [] able # {} /\ strategy = "capability_first" ->
               IF request = NoRequest THEN pick(able)
               ELSE Best(able, [i \in able |-> Score(config[i], request)])
          [] able # {} /\ strategy = "local_first" ->
               pick(IF able \cap local # {} THEN able \cap local ELSE able)
          [] able # {} /\ strategy = "free_first" ->
               IF free # {} THEN pick(free)
               ELSE IF CanSpend(allowPaid) THEN pick(able) ELSE NoProvider
          [] able # {} /\ strategy = "quality_first" ->
               PickBest(config, able, target, [i \in able |-> config[i].window])
          [] OTHER -> pick(able)
=============================================================================
