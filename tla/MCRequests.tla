----------------------------- MODULE MCRequests -----------------------------
(* A small instance of Requests.                                           *)
EXTENDS Requests

CONSTANTS t1, t2

\* One strategy of the recovery engine has a smaller limit than the others.
MCStrategyLimit == [s \in {"retry", "replan", "backend_switch", "repair"} |-> IF s = "backend_switch" THEN 1 ELSE 2]

\* Two servers: one with a paid provider behind a free one and another that is disabled, one without a router.
Provider(free, models, priority, size) ==
  [enabled |-> TRUE, known |-> TRUE, free |-> free, on |-> TRUE, models |-> models, priority |-> priority,
   window |-> size, tags |-> {}, tools |-> TRUE]
Hub == INSTANCE ModelHub
WithPaid == Hub!RouterFrom(<<[Provider(TRUE, {"m1"}, 3, 1) EXCEPT !.enabled = FALSE],
                             Provider(TRUE, {"m1"}, 0, 1), Provider(FALSE, {"m1"}, 1, 2)>>)
MCServers == <<[providers |-> WithPaid, strategy |-> "quality_first", built |-> TRUE],
               [providers |-> <<>>, strategy |-> "free_first", built |-> FALSE]>>
=============================================================================
