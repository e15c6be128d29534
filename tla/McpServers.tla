----------------------------- MODULE McpServers -----------------------------
(***************************************************************************)
(* MCP servers (src/argus/mcp): the lifecycle manager's tasks, the         *)
(* registry of servers, tools and resources, and the permissions of tools. *)
(* Tasks of one asyncio loop interleave only where they are suspended: a   *)
(* start is suspended in the request of initialize, and nowhere before.    *)
(*                                                                         *)
(* Nothing in the source runs StdioTransport.read_responses, so no answer  *)
(* ever reaches a pending request.  An answer that did would not help: the *)
(* client tests response.error, which is a class method of MCPMessage and  *)
(* always true, and calls .get on it.  Either way initialize raises, and   *)
(* everything start_server does after it is out of reach.  Tools and       *)
(* resources are what hosts put into the registry themselves.              *)
(***************************************************************************)
EXTENDS Integers, FiniteSets, Sequences

CONSTANTS Servers, Tasks, Tools, Nothing,
          CapabilityIds,    \* capability.metadata.id, whatever the host makes it
          FullToolId,       \* f'mcp.{server}.{tool}', which two tools may share
          Policies,         \* the permissions a policy may be set to
          MaxProcesses      \* bound on the processes a behaviour starts per server

Statuses == {"disconnected", "connecting", "connected", "initializing", "ready", "error"}
Permissions == {"allow", "ask", "deny"}

Entries == [status : Statuses, tools : SUBSET CapabilityIds]
FullId(s, tool) == FullToolId[<<s, tool>>]
FullIds == {FullId(s, tool) : s \in Servers, tool \in Tools}

McpAssumption ==
    /\ Nothing \notin Servers \cup Entries /\ MaxProcesses \in Nat /\ Policies \subseteq Permissions
    /\ DOMAIN FullToolId = Servers \X Tools

VARIABLES
    entry,      \* server -> its MCPServerEntry [status, tools], or Nothing
    tools,      \* MCPRegistry._capabilities: id -> the server it was registered for, or Nothing
    task,       \* what each task waits for: the server it starts, or Nothing
    processes,  \* server -> how many of its processes were started and never ended
    blocked, permitted,     \* _blocked_tools and _allowed_tools: full ids
    policy,     \* the MCP policy's permission of every tool of a server; ask is none
    contested,  \* ids that were registered for a server while another offered them (history)
    cancelled,  \* servers a start of which was cancelled since they were registered (history)
    barred      \* full ids blocked and neither allowed nor unblocked since (history)

registry == <<entry, tools, contested, cancelled>>
permissions == <<blocked, permitted, policy, barred>>
vars == <<registry, task, processes, permissions>>

Known(s) == entry[s] # Nothing
Offering(id) == {s \in Servers : Known(s) /\ id \in entry[s].tools}

TypeOK ==
    /\ entry \in [Servers -> Entries \cup {Nothing}]
    /\ tools \in [CapabilityIds -> Servers \cup {Nothing}]
    /\ task \in [Tasks -> Servers \cup {Nothing}]
    /\ processes \in [Servers -> 0..MaxProcesses]
    /\ blocked \subseteq FullIds /\ permitted \subseteq FullIds /\ barred \subseteq FullIds
    /\ policy \in [Servers -> Permissions]
    /\ contested \subseteq CapabilityIds /\ cancelled \subseteq Servers

Init ==
    /\ entry = [s \in Servers |-> Nothing] /\ tools = [id \in CapabilityIds |-> Nothing]
    /\ task = [t \in Tasks |-> Nothing]
    /\ processes = [s \in Servers |-> 0]
    /\ blocked = {} /\ permitted = {} /\ barred = {}
    /\ policy = [s \in Servers |-> "ask"]
    /\ contested = {} /\ cancelled = {}

-----------------------------------------------------------------------------
(* The lifecycle manager. *)

\* update_server_status does nothing for a server that is not registered
WithStatus(s, status) ==
    IF Known(s) THEN [entry EXCEPT ![s].status = status] ELSE entry

Registered(s, status) ==
    /\ ~Known(s)
    /\ entry' = [entry EXCEPT ![s] = [status |-> status, tools |-> {}]]
    /\ cancelled' = cancelled \ {s}
    /\ UNCHANGED <<tools, contested, permissions>>

\* send: the task is suspended until the request is answered or times out
Request(t, s) == task[t] = Nothing /\ task' = [task EXCEPT ![t] = s]

\* client.initialize sends its request on the connection connect opened
Initialize(t, s) ==
    /\ processes[s] < MaxProcesses
    /\ processes' = [processes EXCEPT ![s] = @ + 1]
    /\ Request(t, s)

\* start_server up to that request; a server that is registered is refused
Start(t, s) == Registered(s, "initializing") /\ Initialize(t, s)

\* The command of a stdio server cannot be run, or the transport is one that
\* create_transport refuses or SSE, which never connects.
StartFails(s) == Registered(s, "error") /\ UNCHANGED <<task, processes>>

TimeOutSilently(t) ==
    /\ task[t] # Nothing
    /\ task' = [task EXCEPT ![t] = Nothing]
    /\ UNCHANGED <<registry, processes, permissions>>

\* The request times out.  The client is dropped with its process running, and
\* the error goes to whatever entry has the server's id by now.
TimeOut(t) ==
    /\ task[t] # Nothing
    /\ entry' = WithStatus(task[t], "error")
    /\ task' = [task EXCEPT ![t] = Nothing]
    /\ UNCHANGED <<tools, contested, cancelled, processes, permissions>>

\* The host cancels the task: CancelledError is no Exception, so neither send nor
\* start_server catches it, and the entry keeps its status.
Cancel(t) ==
    /\ task[t] # Nothing
    /\ cancelled' = IF Known(task[t]) THEN cancelled \cup {task[t]} ELSE cancelled
    /\ task' = [task EXCEPT ![t] = Nothing]
    /\ UNCHANGED <<entry, tools, contested, processes, permissions>>

\* stop_server: no entry ever has a client, so nothing is disconnected
Stop(s) ==
    /\ Known(s)
    /\ entry' = WithStatus(s, "disconnected")
    /\ UNCHANGED <<tools, contested, cancelled, task, processes, permissions>>

\* restart_server stops and starts; the start finds the server registered and
\* raises outside its try
Restart(s) == Stop(s)

-----------------------------------------------------------------------------
(* The registry. *)

UnregisterEntry(s) ==
    /\ Known(s)
    /\ entry' = [entry EXCEPT ![s] = Nothing]
    /\ UNCHANGED <<tools, contested, cancelled, task, processes, permissions>>

\* an id leaves the table also when another server has taken it over
Unregister(s) ==
    /\ Known(s)
    /\ entry' = [entry EXCEPT ![s] = Nothing]
    /\ tools' = [id \in CapabilityIds |-> IF id \in entry[s].tools THEN Nothing ELSE tools[id]]
    /\ UNCHANGED <<contested, cancelled, task, processes, permissions>>

\* an id that another server offers is taken over, and stays in the entry of both
RegisterCapability(s, id) ==
    /\ Known(s)
    /\ entry' = [entry EXCEPT ![s].tools = @ \cup {id}]
    /\ tools' = [tools EXCEPT ![id] = s]
    /\ contested' = IF Offering(id) \subseteq {s} THEN contested ELSE contested \cup {id}
    /\ UNCHANGED <<cancelled, task, processes, permissions>>

\* One entry loses the id, the first that has it: with two, either may be the first.
UnregisterCapability(id) ==
    /\ tools[id] # Nothing
    /\ tools' = [tools EXCEPT ![id] = Nothing]
    /\ \E s \in Offering(id) : entry' = [entry EXCEPT ![s].tools = @ \ {id}]
    /\ UNCHANGED <<contested, cancelled, task, processes, permissions>>

-----------------------------------------------------------------------------
(* The permissions.  Two tools whose full ids are the same string ("a.b" with "c",  *)
(* "a" with "b.c") are blocked and allowed together.                                *)

AllowedFirst(s, tool, default) ==
    IF FullId(s, tool) \in permitted THEN "allow"
    ELSE IF FullId(s, tool) \in blocked THEN "deny"
    ELSE IF policy[s] # "ask" THEN policy[s] ELSE default

\* evaluate_tool_permission; default is what the security policy says of the
\* capability, or the global default without one
ToolPermission(s, tool, default) ==
    IF FullId(s, tool) \in blocked THEN "deny"
    ELSE IF FullId(s, tool) \in permitted THEN "allow"
    ELSE IF policy[s] # "ask" THEN policy[s] ELSE default

Block(s, tool) ==
    /\ blocked' = blocked \cup {FullId(s, tool)}
    /\ barred' = barred \cup {FullId(s, tool)}
    /\ UNCHANGED <<permitted, policy, registry, task, processes>>

Allow(s, tool) ==
    /\ permitted' = permitted \cup {FullId(s, tool)}
    /\ blocked' = blocked \ {FullId(s, tool)}
    /\ barred' = barred \ {FullId(s, tool)}
    /\ UNCHANGED <<policy, registry, task, processes>>

Unblock(s, tool) ==
    /\ blocked' = blocked \ {FullId(s, tool)}
    /\ barred' = barred \ {FullId(s, tool)}
    /\ UNCHANGED <<permitted, policy, registry, task, processes>>

Unallow(s, tool) ==
    /\ permitted' = permitted \ {FullId(s, tool)}
    /\ UNCHANGED <<blocked, barred, policy, registry, task, processes>>

SetPolicy(s, p) ==
    /\ policy' = [policy EXCEPT ![s] = p]
    /\ UNCHANGED <<blocked, permitted, barred, registry, task, processes>>

Next ==
    \/ \E t \in Tasks : TimeOut(t) \/ Cancel(t) \/ \E s \in Servers : Start(t, s)
    \/ \E s \in Servers : StartFails(s) \/ Stop(s) \/ Restart(s) \/ Unregister(s)
    \/ \E id \in CapabilityIds : UnregisterCapability(id) \/ \E s \in Servers : RegisterCapability(s, id)
    \/ \E s \in Servers, x \in Tools : Block(s, x) \/ Allow(s, x) \/ Unblock(s, x) \/ Unallow(s, x)
    \/ \E s \in Servers, p \in Policies : SetPolicy(s, p)

Spec == Init /\ [][Next]_vars

-----------------------------------------------------------------------------
(* MCPHealthMonitor: a server's health after the checks somebody made of it.   *)
(* Its thresholds for degraded and unhealthy servers are never looked at.      *)

Checks == [connected : BOOLEAN, error : BOOLEAN, slow : BOOLEAN]
CheckHealth(c) ==
    IF ~c.connected THEN "disconnected" ELSE IF c.error THEN "unhealthy"
    ELSE IF c.slow THEN "degraded" ELSE "healthy"

Unchecked == [status |-> "unknown", failed_in_a_row |-> 0, failed |-> 0, checked |-> 0]
\* a healthy check ends no row of failures (a mutant)
RecordCheckKeepsRow(h, c) ==
    LET failure == IF CheckHealth(c) = "healthy" THEN 0 ELSE 1 IN
    [status |-> CheckHealth(c), failed_in_a_row |-> h.failed_in_a_row + failure,
     failed |-> h.failed + failure, checked |-> h.checked + 1]
RecordCheck(h, c) ==
    LET failure == IF CheckHealth(c) = "healthy" THEN 0 ELSE 1 IN
    [status |-> CheckHealth(c), failed_in_a_row |-> failure * (h.failed_in_a_row + 1),
     failed |-> h.failed + failure, checked |-> h.checked + 1]
ServerHealth(checks) ==
    LET health[i \in 0..Len(checks)] == IF i = 0 THEN Unchecked ELSE RecordCheck(health[i - 1], checks[i])
    IN health[Len(checks)]
GetHealthy(h) == h.status = "healthy"
GetUnhealthy(h) == ~GetHealthy(h) /\ h.status # "unknown"

-----------------------------------------------------------------------------
(* Properties. *)

\* A server whose status says that a start is under way has a task that will
\* end it, also when the server was unregistered and registered again meanwhile,
\* unless a start of it was cancelled (lifecycle.py:92-127).
InitializingIsWaitedFor ==
    \A s \in Servers : Known(s) /\ entry[s].status = "initializing" =>
        s \in cancelled \/ \E t \in Tasks : task[t] = s

\* The registry's own table agrees with the entries of its servers after any sequence of
\* registrations and removals (registry.py:77-148): what it holds is offered by the server it was
\* registered for, which is registered still, and it misses nothing a server offers, nor
\* gives it to another, unless two servers registered the same id.
RegistryAgrees ==
    \A id \in CapabilityIds :
        /\ tools[id] # Nothing => tools[id] \in Offering(id)
        /\ id \in contested \/ Offering(id) \subseteq {tools[id]}

\* A tool that was blocked stays denied until its full id is unblocked or allowed,
\* whatever its policy and earlier allowances say (permissions.py:71-75).
BlockedIsDenied ==
    \A s \in Servers, x \in Tools, default \in Permissions :
        FullId(s, x) \in barred => ToolPermission(s, x, default) = "deny"

\* The counters of a server's health tell its history (health.py:62-82): the failures in a row
\* are those since the last healthy check, the uptime is full as long as there is none, and a
\* server that was checked is listed as healthy or as unhealthy by its last check.
HealthTellsHistory(checks) ==
    LET h == ServerHealth(checks)
        healthy == {i \in DOMAIN checks : checks[i] = [connected |-> TRUE, error |-> FALSE, slow |-> FALSE]}
    IN /\ h.checked = Len(checks) /\ h.failed = Len(checks) - Cardinality(healthy)
       /\ \A n \in 0..Len(checks) : h.failed_in_a_row >= n <=> (Len(checks) - n + 1)..Len(checks) \cap healthy = {}
       /\ GetHealthy(h) <=> Len(checks) \in healthy
       /\ GetUnhealthy(h) <=> h.failed_in_a_row > 0
=============================================================================
