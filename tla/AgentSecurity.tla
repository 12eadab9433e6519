----------------------------- MODULE AgentSecurity -----------------------------
(***************************************************************************)
(* The security decisions of the agent platform (ai_platform/security) and *)
(* the client its tools call the order service with                        *)
(* (agent-eval/scripts/tools_client.py), as operators.  A text is what the *)
(* checks find in it: nothing ("plain"), a broken input rule ("bad"), an   *)
(* injection pattern ("injection"), or both.                               *)
(***************************************************************************)
EXTENDS Naturals, Sequences

Tools == {"place_order", "query_order", "cancel_order", "ask_user"}
Texts == {"plain", "bad", "injection", "both"}

\* A policy: the switches, the global lists, and the role a call falls back
\* to: "none" configured, "unknown" to the policy, or "known" with its lists.
Policy == [enabled : BOOLEAN, permission : BOOLEAN, injection : BOOLEAN,
           blockInput : BOOLEAN, blockInjection : BOOLEAN,
           blocked : SUBSET Tools, allowed : SUBSET Tools,
           role : {"none", "unknown", "known"},
           roleBlocked : SUBSET Tools, roleAllowed : SUBSET Tools]

-----------------------------------------------------------------------------
(* SecurityResult *)

Pass(check) == [passed |-> TRUE, risk |-> 0, check |-> check]
Block(check, risk) == [passed |-> FALSE, risk |-> risk, check |-> check]

\* _risk_order.
Medium == 2
High == 3
Critical == 4

\* worst: a block wins, and among blocks the higher risk.
Worst(a, b) ==
  LET blocks == {r \in {a, b} : ~r.passed}
      higher == IF a.risk >= b.risk THEN a ELSE b
  IN  IF blocks = {} THEN higher
      ELSE IF ~a.passed /\ (b.passed \/ a.risk >= b.risk) THEN a ELSE b

\* InputValidator.validate.
Validate(p, text) ==
  IF p.enabled /\ text \in {"bad", "both"}
    THEN Block("input_validator", IF p.blockInput THEN High ELSE Medium)
    ELSE Pass("input_validator")

\* PromptGuard.check.
PromptCheck(p, text) ==
  IF p.enabled /\ p.injection /\ text \in {"injection", "both"}
    THEN Block("prompt_guard", Critical)
    ELSE Pass("prompt_guard")

\* SecurityGuard.check_input: either check may end it; what neither ends is
\* the worse of the two, so a violation the policy does not "block on" still
\* comes out as a block.
CheckInput(p, text) ==
  LET input == Validate(p, text)
      injection == PromptCheck(p, text)
  IN  IF ~p.enabled THEN Pass("security_guard")
      ELSE IF ~input.passed /\ p.blockInput THEN input
      ELSE IF ~injection.passed /\ p.blockInjection THEN injection
      ELSE Worst(input, injection)

\* The lists PermissionChecker.check ends up with.  Two allow-lists with
\* nothing in common leave an empty one, and an empty one allows everything.
BlockedTools(p) == p.blocked \cup (IF p.role = "known" THEN p.roleBlocked ELSE {})
AllowedTools(p) ==
  IF p.role # "known" \/ p.roleAllowed = {} THEN p.allowed
  ELSE IF p.allowed = {} THEN p.roleAllowed
  ELSE p.allowed \cap p.roleAllowed

\* Changed form of Permits, for checking that the properties notice: the
\* role's lists are forgotten.
PermitsForgetsRole(p, tool) ==
  \/ ~p.enabled \/ ~p.permission
  \/ tool \notin p.blocked /\ (p.allowed # {} => tool \in p.allowed)

\* PermissionChecker.check.
Permits(p, tool) ==
  \/ ~p.enabled \/ ~p.permission
  \/ /\ p.role # "unknown"
     /\ tool \notin BlockedTools(p)
     /\ AllowedTools(p) # {} => tool \in AllowedTools(p)

\* What a policy promises of a tool, list by list: the role is one it has, no
\* block-list in force names the tool, and every allow-list in force does (an
\* empty one is none), unless these have no tool in common.
AllowLists(p) == {p.allowed, IF p.role = "known" THEN p.roleAllowed ELSE {}} \ {{}}
ListsAllow(p, tool) ==
  /\ p.role # "unknown"
  /\ tool \notin p.blocked /\ (p.role = "known" => tool \notin p.roleBlocked)
  /\ \/ \A list \in AllowLists(p) : tool \in list
     \/ \A other \in Tools : \E list \in AllowLists(p) : other \notin list

-----------------------------------------------------------------------------
(* policy_file and _apply_policy_file *)

\* What load_policy_file makes of a file: missing, broken (YAML, schema,
\* version, unknown keys, an undefined default role) or a policy.
FileStates == {"missing", "broken", "valid"}

\* _apply_policy_file: a missing file matters only when it was asked for by
\* name; a broken one always does.
PolicyRefused(file, explicit) == file = "broken" \/ (file = "missing" /\ explicit)

-----------------------------------------------------------------------------
(* tools_client *)

\* How one HTTP call ends: 200/201, 202, a 4xx, a 5xx, no answer (refused
\* connection or timeout, status 0), or the client's own injected fault,
\* which sends nothing.
HttpOutcomes == {"ok", "accepted", "refused", "failed", "silent", "injected"}

\* What the client reports.  Silence is an offline fallback: place_order and
\* cancel_order make up a success, query_order reports a failure.
ToolOk(tool, o) ==
  CASE tool = "place_order" -> o \in {"ok", "accepted", "silent"}
    [] tool = "query_order" -> o = "ok"
    [] tool = "cancel_order" -> o \in {"ok", "silent"}
    [] tool = "ask_user" -> TRUE
Fallback(o) == o = "silent"

\* Only place_order is tried again, MaxRetry times at most.
MayRetry(tool, o, tries, maxRetry) ==
  tool = "place_order" /\ ~ToolOk(tool, o) /\ tries < maxRetry

=============================================================================
