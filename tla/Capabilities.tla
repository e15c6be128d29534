----------------------------- MODULE Capabilities -----------------------------
(***************************************************************************)
(* CapabilityRouter (argus/capabilities): run the capability asked for,    *)
(* the best one of a search, or another one of the same type, and keep a   *)
(* history of the runs that the next ranking is made from.  Tools appear,  *)
(* lose their permission and stop responding between two requests.         *)
(***************************************************************************)
EXTENDS Integers, Sequences, FiniteSets, FiniteSetsExt

CONSTANTS Ids,         \* capability ids in the order of registration: a sequence
          KindOf,      \* id -> "tool", "model" or "discovered"
          MaxHistory   \* bound on the runs of one capability

Registered == {Ids[i] : i \in DOMAIN Ids}
CapabilitiesAssumption ==
  /\ Ids \in Seq(Registered) /\ IsInjective(Ids) /\ Ids # <<>> /\ MaxHistory \in Nat
  /\ KindOf \in [Registered -> {"tool", "model", "discovered"}]

VARIABLES usable,    \* the tool is registered and permitted, the provider is there
          responds,  \* its health check succeeds: of a tool, running it without arguments
          history,   \* id -> success of its recorded runs, the oldest first
          recent,    \* ids that ran within the last 300 seconds
          result     \* the last answer of the router

vars == <<usable, responds, history, recent, result>>

NoResult == [op |-> "none", asked |-> Ids[1], ran |-> {}, success |-> FALSE, fallback |-> FALSE]
Init == /\ usable = Registered /\ responds = [c \in Registered |-> KindOf[c] # "tool"]
        /\ history = [c \in Registered |-> <<>>] /\ recent = {} /\ result = NoResult

\* A discovered capability: always there and healthy, and unable to run.
IsPlaceholder(c) == KindOf[c] = "discovered"
\* One type: the tools and what discovery found; models are another.
SameType(c, d) == (KindOf[c] = "model") = (KindOf[d] = "model")
Available(c) == IsPlaceholder(c) \/ c \in usable
Healthy(c) == IsPlaceholder(c) \/ (Available(c) /\ responds[c])

(***************************************************************************)
(* Ranking, in sixtieths of a point so that rates stay whole for up to 3   *)
(* runs.  The sort is stable: of equals the one registered first wins.     *)
(***************************************************************************)
Successes(c) == Cardinality({i \in DOMAIN history[c] : history[c][i]})
Experience(c) == IF history[c] = <<>> THEN 0
                 ELSE (1800 * Successes(c)) \div Len(history[c]) + (IF c \in recent THEN 600 ELSE 0)
HealthAndExperience(c) == (IF Healthy(c) THEN 3000 ELSE 0) + Experience(c)
Score(c) == IF Available(c) THEN 6000 + (IF Healthy(c) THEN 3000 ELSE 0) + Experience(c) ELSE 0
Place(c) == CHOOSE i \in DOMAIN Ids : Ids[i] = c
Best(cs) == CHOOSE c \in cs : \A d \in cs \ {c} :
              Score(c) > Score(d) \/ (Score(c) = Score(d) /\ Place(c) < Place(d))

\* The registry answers for a tool that is unknown, denied or raises; a placeholder never works.
Outcomes(c) == IF ~IsPlaceholder(c) /\ Available(c) THEN BOOLEAN ELSE {FALSE}
\* A run of c is recorded under c.  The configured fallback is a dict and has no execute:
\* the call on it raises, the exception is caught and the answer is that all backends failed.
ExecuteWithFallbacks(op, asked, c) ==
  /\ Len(history[c]) < MaxHistory
  /\ \E ok \in Outcomes(c) :
       /\ history' = [history EXCEPT ![c] = Append(@, ok)]
       /\ result' = [op |-> op, asked |-> asked, ran |-> {c}, success |-> ok, fallback |-> op = "fallback"]
  /\ recent' = recent \cup {c}
  /\ UNCHANGED <<usable, responds>>
Refuse(op, c, fallback) == /\ result' = [op |-> op, asked |-> c, ran |-> {}, success |-> FALSE, fallback |-> fallback]
                           /\ UNCHANGED <<usable, responds, history, recent>>

\* route: input may miss a parameter, the capability may have a fallback configured.
Route(c) ==
  \/ Available(c) /\ ExecuteWithFallbacks("route", c, c)
  \/ \E configured \in BOOLEAN : Refuse("route", c, configured)
RouteByQuery(cs) == ExecuteWithFallbacks("query", Best(cs), Best(cs))
Alternatives(c) == {d \in Registered \ {c} : SameType(c, d) /\ Available(d)}
RouteFallback(c) ==
  IF Alternatives(c) = {} THEN Refuse("fallback", c, FALSE)
  ELSE ExecuteWithFallbacks("fallback", c, Best(Alternatives(c)))

ClearHistory(cs) == /\ history' = [c \in Registered |-> IF c \in cs THEN <<>> ELSE history[c]]
                    /\ recent' = recent \ cs /\ result' = NoResult
                    /\ UNCHANGED <<usable, responds>>
\* The world outside: registrations, permissions, the health of a backend and the clock.
Change(c) == /\ ~IsPlaceholder(c)
             /\ \/ usable' = SymDiff(usable, {c}) /\ UNCHANGED responds
                \/ responds' = [responds EXCEPT ![c] = ~@] /\ UNCHANGED usable
             /\ result' = NoResult /\ UNCHANGED <<history, recent>>
Age == recent # {} /\ recent' = {} /\ result' = NoResult /\ UNCHANGED <<usable, responds, history>>

Next == \/ \E c \in Registered : Route(c) \/ RouteFallback(c) \/ Change(c)
        \/ \E cs \in (SUBSET Registered) \ {{}} : RouteByQuery(cs)
        \/ \E cs \in {Registered} \cup {{c} : c \in Registered} : ClearHistory(cs)
        \/ Age
Spec == Init /\ [][Next]_vars

(***************************************************************************)
(* Properties                                                              *)
(***************************************************************************)
TypeOK == /\ usable \subseteq Registered /\ responds \in [Registered -> BOOLEAN] /\ recent \subseteq Registered
          /\ \A c \in Registered : Len(history[c]) <= MaxHistory
          /\ result.success => result.ran # {}

\* A search never settles on a capability that cannot run while another match can, whatever
\* the histories say; a fallback runs something else than what failed, of the same type.
ChoiceIsSound ==
  /\ \A cs \in (SUBSET Registered) \ {{}} : Available(Best(cs)) \/ \A c \in cs : ~Available(c)
  /\ result.op = "fallback" => \A c \in result.ran : c # result.asked /\ SameType(c, result.asked) /\ Available(c)

\* A healthy capability that has never failed is not passed over for one that never worked.
ProvenIsPreferred ==
  \A c, d \in Registered : Healthy(c) /\ Successes(c) = Len(history[c]) /\ history[c] # <<>> /\ Successes(d) = 0 /\ (d \in recent => c \in recent)
                       => Score(c) >= Score(d)
==============================================================================
