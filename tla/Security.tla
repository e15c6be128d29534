------------------------------ MODULE Security ------------------------------
(***************************************************************************)
(* The decisions of the security kernel (argus/security): a policy says of *)
(* a capability whether it is allowed, asked for or denied, the classifier *)
(* how risky an invocation is, and the sandbox what it may reach.          *)
(***************************************************************************)
EXTENDS Naturals, FiniteSets

Risk == [low |-> 0, medium |-> 1, high |-> 2, critical |-> 3]
Capabilities == {"filesystem.read", "filesystem.list_dir", "filesystem.write", "filesystem.edit", "git.status", "git.diff",
  "git.add", "git.commit", "git.workflow", "shell.execute", "browser.navigate", "browser.screenshot", "search.grep",
  "memory.read", "memory.store", "web.read", "github.get_repo", "github.create_issue", "model.generate", "unlisted"}
FileCapabilities == {"filesystem.read", "filesystem.list_dir", "filesystem.write", "filesystem.edit"}
WebCapabilities == {"web.read", "github.get_repo", "github.create_issue"}

CapabilityRisks ==
  [c \in Capabilities |->
     IF c = "shell.execute" THEN "high"
     ELSE IF c \in {"filesystem.write", "filesystem.edit", "git.add", "git.commit", "git.workflow", "github.create_issue",
                    "browser.navigate", "memory.read", "unlisted"} THEN "medium"
     ELSE "low"]
\* memory.read has no entry of its own: it gets the level of what is not listed.

Asked == {"filesystem.write", "git.add", "git.commit", "git.workflow", "shell.execute", "github.create_issue"}
Reading == {"filesystem.read", "filesystem.list_dir", "git.status", "git.diff", "search.grep", "web.read"}
DefaultPolicy == [c \in Capabilities |-> IF c \in Asked \cup {"unlisted"} THEN "ask" ELSE "allow"]
RestrictivePolicy == [c \in Capabilities |-> IF c \in Reading THEN "allow" ELSE "deny"]
PermissivePolicy == [c \in Capabilities |-> IF c = "shell.execute" THEN "ask" ELSE "allow"]
Policies == [default |-> DefaultPolicy, restrictive |-> RestrictivePolicy, permissive |-> PermissivePolicy]

\* A path of the project that starts with the letters of a system directory ("prefix") is no
\* risk, and yet outside the sandbox, which compares letters and not names.
\* What is invoked: the kind of path or command in the input, and the settings of the engine.
Invocations == [policy : DOMAIN Policies, capability : Capabilities, path : {"ordinary", "parent", "system", "prefix"},
                command : {"plain", "install", "chained", "pattern"}, max_risk : DOMAIN Risk, network : BOOLEAN, banned : BOOLEAN]

Higher(a, b) == IF Risk[a] >= Risk[b] THEN a ELSE b
AssessPath(path) == CASE path = "parent" -> "high" [] path = "system" -> "critical" [] OTHER -> "low"
AssessCommand(command) ==
  CASE command = "install" -> "medium" [] command = "chained" -> "high" [] command = "pattern" -> "critical" [] OTHER -> "low"
AssessInvocation(v) ==
  LET base == CapabilityRisks[v.capability]
  IN CASE v.capability = "shell.execute" -> Higher(base, AssessCommand(v.command))
       [] v.capability \in FileCapabilities -> Higher(base, AssessPath(v.path))
       [] OTHER -> base
SandboxAllows(v) ==
  /\ v.capability \in FileCapabilities => v.path = "ordinary"
  /\ v.capability = "shell.execute" => v.command # "pattern"
  /\ v.capability \in WebCapabilities => v.network

Decision(allowed, action, by, audit) == [allowed |-> allowed, action |-> action, by |-> by, audit |-> audit]
EvaluatePermissionOnly(v) ==
  IF Policies[v.policy][v.capability] = "allow" THEN Decision(TRUE, "allow", "capability_permission", {"permission_granted"})
  ELSE Decision(FALSE, "deny", "capability_permission", {})
Evaluate(v) ==
  LET permission == Policies[v.policy][v.capability]
      risk == AssessInvocation(v)
  IN IF v.banned THEN Decision(FALSE, "deny", "denied_capabilities", {"permission_denied"})
     ELSE IF ~SandboxAllows(v) THEN Decision(FALSE, "deny", "sandbox", {"policy_violation"})
     ELSE CASE permission = "deny" -> Decision(FALSE, "deny", "capability_permission", {})
            [] permission = "ask"  -> Decision(FALSE, "ask", "capability_permission", {})
            [] permission = "allow" /\ Risk[risk] > Risk[v.max_risk] -> Decision(FALSE, "deny", "risk_limit", {})
            [] OTHER -> Decision(TRUE, "allow", "capability_permission", {"permission_granted"})

\* The tables agree: what a policy allows, with an ordinary input and the limit as it is
\* delivered (medium), is really allowed and audited; nothing is allowed beyond its limit or
\* outside the sandbox; and no policy allows what a less restrictive one denies.
PolicyIsCoherent(v) ==
  LET d == Evaluate(v)
      other(p) == Evaluate([v EXCEPT !.policy = p])
  IN /\ (v.max_risk = "medium" /\ ~v.banned /\ v.path = "ordinary" /\ v.network /\ Policies[v.policy][v.capability] = "allow")
          => (d.allowed /\ d.audit = {"permission_granted"})
     /\ d.allowed => (~v.banned /\ SandboxAllows(v) /\ Risk[AssessInvocation(v)] <= Risk[v.max_risk])
     /\ (v.policy = "restrictive" /\ d.allowed) => other("default").allowed
     /\ (v.policy = "default" /\ d.allowed) => other("permissive").allowed
=============================================================================
