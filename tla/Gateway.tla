------------------------------ MODULE Gateway ------------------------------
(***************************************************************************)
(* The free gateway (src/argus/gateway/server.py): a ThreadingHTTPServer   *)
(* whose handler threads share one rate limiter and one ModelRouter, both  *)
(* without a lock.  Each thread serves one chat request after another for  *)
(* one client: it asks the limiter, checks the model, and then tries       *)
(* providers up to max_retries times, as one answer or as a stream.  The   *)
(* answer is written inside the attempt, and any write may fail: an answer *)
(* of a provider is then tried again, with another status line, while an   *)
(* error that cannot be written leaves the client without an answer.       *)
(*                                                                         *)
(* Time is counted in two ways: clock numbers the arrivals, and the window *)
(* of the limiter begins after arrival "window" of them; a provider that    *)
(* failed cools down for a time that is not counted.  The stamps in a      *)
(* bucket differ, so that the list is the set of them.  Failures come in   *)
(* three kinds, by what the handler makes of them.                         *)
(***************************************************************************)
EXTENDS ModelHub

CONSTANTS Threads,
          Servers,      \* the servers there may be: records [providers, strategy, built]
          Models,       \* what requests name; "auto" is one of them
          MaxRequests,  \* RateLimiter.max_requests
          MaxRetries,
          MaxArrivals   \* bound on the requests of a behaviour

GatewayAssumption ==
    /\ {MaxRequests, MaxArrivals} \subseteq Nat /\ MaxRetries \in Nat \ {0}
    /\ \A s \in DOMAIN Servers :
         /\ Servers[s].strategy \in Strategies /\ Servers[s].built \in BOOLEAN
         /\ Len(Servers[s].providers) \in Nat
         /\ DOMAIN Servers[s].providers = 1..Len(Servers[s].providers)
         /\ \A i \in DOMAIN Servers[s].providers :
              /\ {Servers[s].providers[i].priority, Servers[s].providers[i].window} \subseteq Int
              /\ {Servers[s].providers[i].free, Servers[s].providers[i].on} \subseteq BOOLEAN

VARIABLES
    server,             \* which of them this is
    bucket,             \* the limiter's time stamps of the client
    clock, window,
    cooling,            \* providers with failures whose cooldown_until is to come
    last,               \* the router's _last_used
    req,                \* per thread, the request it serves
    allowed             \* stamps of the requests the limiter let through (history)

config == Servers[server].providers
strategy == Servers[server].strategy

hub == <<cooling, last>>
limiter == <<bucket, clock, window, allowed>>
vars == <<server, hub, limiter, req>>

Idle == [phase |-> "idle", stamp |-> 0, seen |-> {}, model |-> "auto",
         stream |-> FALSE, attempt |-> 0, provider |-> NoProvider,
         heads |-> 0, failed |-> 0, status |-> 0]
Failures == {"auth", "runtime", "other"}
Phases == {"idle", "limited", "checked", "choosing", "calling", "streaming", "failed", "done"}

TypeOK ==
    /\ server \in DOMAIN Servers /\ strategy \in Strategies
    /\ clock \in 0..MaxArrivals /\ window \in 0..clock
    /\ bucket \subseteq 1..clock
    /\ cooling \subseteq DOMAIN config
    /\ last \in {NoProvider} \cup DOMAIN config
    /\ req \in [Threads -> [phase : Phases, stamp : 0..clock, seen : SUBSET (1..clock),
                           model : Models \cup {"auto"}, stream : BOOLEAN, attempt : 0..(MaxRetries - 1),
                           provider : {NoProvider} \cup DOMAIN config, heads : Nat, failed : Nat,
                           status : {0, 200, 400, 403, 429, 502, 503}]]
    /\ allowed \subseteq 1..clock

Init ==
    /\ server \in DOMAIN Servers
    /\ bucket = {} /\ clock = 0 /\ window = 0
    /\ allowed = {}
    /\ cooling = {}
    /\ last = NoProvider
    /\ req = [t \in Threads |-> Idle]

Become(t, r) == req' = [req EXCEPT ![t] = r]
Move(t, phase) == Become(t, [req[t] EXCEPT !.phase = phase])

\* The request r ends: heads are the status lines that were begun, failed are those
\* that could not be written, and status is what the client was told, 0 for nothing.
End(r, status) ==
    [Idle EXCEPT !.phase = "done", !.status = status, !.stream = r.stream,
                 !.heads = r.heads, !.failed = r.failed]
Written(r) == [r EXCEPT !.heads = @ + 1]
Unwritten(r) == [r EXCEPT !.heads = @ + 1, !.failed = @ + 1]

\* An answer that is no provider's: if it cannot be written the exception leaves the handler.
Reply(t, r, status) ==
    \/ Become(t, End(Written(r), status))
    \/ Become(t, End(Unwritten(r), 0))
Answer(t, status) == Reply(t, req[t], status)

-----------------------------------------------------------------------------
(* The rate limiter: the bucket is read, and later written whole. *)

Arrive(t, m, s) ==
    /\ req[t].phase = "idle"
    /\ clock < MaxArrivals
    /\ clock' = clock + 1
    /\ Become(t, [Idle EXCEPT !.phase = "limited", !.stamp = clock + 1,
                              !.model = m, !.stream = s,
                              !.seen = {x \in bucket : x > window}])
    /\ UNCHANGED <<server, hub, bucket, window, allowed>>

LimitFull(n) == n > MaxRequests

LimitAndGoOn(t) ==
    LET r == req[t] IN
    /\ r.phase = "limited"
    /\ bucket' = r.seen \cup {r.stamp}
    /\ Become(t, [r EXCEPT !.phase = "checked", !.seen = {}, !.stamp = 0,
                           !.heads = IF LimitFull(Cardinality(bucket')) THEN 1 ELSE 0])
    /\ allowed' = IF LimitFull(Cardinality(bucket')) THEN allowed ELSE allowed \cup {r.stamp}
    /\ UNCHANGED <<server, hub, clock, window>>

\* a refused request counts as well: it was appended before the limit is looked at
Limit(t) ==
    LET r == req[t] IN
    /\ r.phase = "limited"
    /\ bucket' = r.seen \cup {r.stamp}
    /\ IF LimitFull(Cardinality(bucket'))
       THEN Answer(t, 429) /\ UNCHANGED allowed
       ELSE Become(t, [r EXCEPT !.phase = "checked", !.seen = {}, !.stamp = 0])
            /\ allowed' = allowed \cup {r.stamp}
    /\ UNCHANGED <<server, hub, clock, window>>

\* time: an arrival leaves the window once no thread is still in allow() with
\* the window it computed
Slide ==
    /\ window < clock
    /\ \A t \in Threads : req[t].phase # "limited"
    /\ window' = window + 1
    /\ UNCHANGED <<server, hub, bucket, clock, allowed, req>>

-----------------------------------------------------------------------------
(* _handle_chat_completions and the router. *)

\* The body is no JSON or has no messages, or reading it raises.
RefuseBody(t) ==
    /\ req[t].phase = "checked"
    /\ Answer(t, 400) \/ Become(t, End(req[t], 0))
    /\ UNCHANGED <<server, hub, limiter>>

\* Without a router nobody can serve the request; a named model must be one that
\* some free provider serves.
CheckModel(t) ==
    /\ req[t].phase = "checked"
    /\ IF ~Servers[server].built THEN Answer(t, 503) ELSE
       IF \/ req[t].model = "auto"
          \/ \E p \in DOMAIN config : config[p].free /\ req[t].model \in config[p].models
       THEN Move(t, "choosing") ELSE Answer(t, 403)
    /\ UNCHANGED <<server, hub, limiter>>

\* router.complete and router.stream; the gateway's budget allows no paid one
Choose(t) ==
    LET r == req[t]
        p == SelectProvider(config, cooling, strategy, FALSE, r.model, NoRequest, {}, last)
    IN  /\ r.phase = "choosing"
        /\ IF p = NoProvider THEN Answer(t, 503)
           ELSE Become(t, [r EXCEPT !.phase = "calling", !.provider = p])
        /\ UNCHANGED <<server, hub, limiter>>

MarkSuccess(p) ==
    /\ cooling' = cooling \ {p}
    /\ last' = p

MarkFailure(p) ==
    /\ cooling' = cooling \cup {p}
    /\ UNCHANGED last

AfterErrorUncounted(t, r, kind) ==
    IF kind = "other" THEN Become(t, [r EXCEPT !.phase = "choosing"]) ELSE Reply(t, r, 502)

\* What the handler does about an exception: a RuntimeError means that there is
\* no provider; an error of authentication ends the attempts; others are retried.
AfterError(t, r, kind) ==
    CASE kind = "runtime" -> Reply(t, r, 503)
      [] kind = "auth"    -> Reply(t, r, 502)
      [] kind = "other"   ->
           IF r.attempt + 1 < MaxRetries
           THEN Become(t, [r EXCEPT !.phase = "choosing", !.attempt = @ + 1,
                                !.provider = NoProvider])
           ELSE Reply(t, r, 502)

FailCall(t, kind) ==
    /\ req[t].phase = "calling"
    /\ MarkFailure(req[t].provider)
    /\ AfterError(t, req[t], kind)
    /\ UNCHANGED <<server, limiter>>

\* The provider answers, and the handler sends the answer, or the head of a stream.
Succeed(t) ==
    /\ req[t].phase = "calling"
    /\ MarkSuccess(req[t].provider)
    /\ IF req[t].stream
       THEN Become(t, [Written(req[t]) EXCEPT !.phase = "streaming"])
       ELSE Become(t, End(Written(req[t]), 200))
    /\ UNCHANGED <<server, limiter>>

\* It answers and the write fails: an error like any other for the attempt, for
\* which the provider is not blamed.
FailWrite(t) ==
    /\ req[t].phase = "calling"
    /\ MarkSuccess(req[t].provider)
    /\ AfterError(t, Unwritten(req[t]), "other")
    /\ UNCHANGED <<server, limiter>>

\* It answers, and what it answers cannot be made into a body (no status line is begun).
FailBody(t, kind) ==
    /\ req[t].phase = "calling" /\ ~req[t].stream
    /\ MarkSuccess(req[t].provider)
    /\ AfterError(t, req[t], kind)
    /\ UNCHANGED <<server, limiter>>

\* The rest of a stream is read outside the router, and a client that went away ends
\* it.  Another failure there is retried like any other, with a second head, and the
\* provider is not blamed for it.
EndStream(t) ==
    /\ req[t].phase = "streaming"
    /\ Become(t, End(req[t], 200))
    /\ UNCHANGED <<server, hub, limiter>>

BreakStream(t, kind) ==
    /\ req[t].phase = "streaming"
    /\ AfterError(t, req[t], kind)
    /\ UNCHANGED <<server, hub, limiter>>

Finish(t) ==
    /\ req[t].phase = "done"
    /\ Become(t, Idle)
    /\ UNCHANGED <<server, hub, limiter>>

Cool == \E p \in cooling :
    /\ cooling' = cooling \ {p}
    /\ UNCHANGED <<server, last, limiter, req>>

Serve(t) == \/ Limit(t) \/ RefuseBody(t) \/ CheckModel(t) \/ Choose(t)
            \/ Succeed(t) \/ FailWrite(t) \/ EndStream(t)
            \/ \E k \in Failures : FailCall(t, k) \/ FailBody(t, k) \/ BreakStream(t, k)

Next == \/ \E t \in Threads : \/ \E m \in Models, s \in BOOLEAN : Arrive(t, m, s)
                              \/ Serve(t) \/ Finish(t)
        \/ Slide \/ Cool

\* Handler threads run, and providers answer or fail.
Spec == Init /\ [][Next]_vars /\ \A t \in Threads : WF_vars(Serve(t))

-----------------------------------------------------------------------------
(* Properties. *)

\* Whatever the strategy and the model named, an anonymous request never
\* reaches a paid provider, nor one that is configured as unavailable
\* (server.py:87, hub.py:142-145).
OnlyFreeProvidersServe ==
    \A t \in Threads : req[t].provider # NoProvider =>
        config[req[t].provider].free /\ config[req[t].provider].on

\* No more than max_requests of those in the window are let through.
LimitHolds == Cardinality({s \in allowed : s > window}) <= MaxRequests

\* A request that is not a stream has one answer: a status line is begun again only
\* after one that could not be written, and when the handler is done the client was
\* given one answer, or none (server.py:186-290).
OneAnswer ==
    \A t \in Threads : LET r == req[t] IN
        ~r.stream => r.heads = r.failed + (IF r.phase = "done" /\ r.status # 0 THEN 1 ELSE 0)

\* Every request is answered or given up, whichever provider and whatever write fails.
Waiting(t) == req[t].phase = "limited"
Served(t) == req[t].phase = "done"
EveryRequestEnds == \A t \in Threads : Waiting(t) ~> Served(t)
=============================================================================
