------------------------------- MODULE Sandbox -------------------------------
(***************************************************************************)
(* The three gates an operation of a sandboxed instance passes             *)
(* (src/src/sandbox.rs, and authorize_operation, call_js_audit,            *)
(* is_capability_enabled, set_audit_callback in src/src/runtime.rs): the   *)
(* capabilities fixed when the instance is created, the audit mask with    *)
(* the host's audit callback, and the audit function a script registers    *)
(* for itself.                                                             *)
(*                                                                         *)
(* The gates are not passed in one step.  Turning the arguments into       *)
(* strings runs their toString, and the script's audit function is any     *)
(* code: both may attempt operations of their own, which are decided       *)
(* inside the decision in progress, and may replace or remove the audit    *)
(* function.  The host's callback cannot: the API guard (ApiGuard) refuses *)
(* every call it could make on the instance.                               *)
(***************************************************************************)
EXTENDS Naturals, Sequences

CONSTANTS
  Cap,       \* the capability bits
  Granted,   \* the bits the instance was created with
  Op,        \* the operations
  Need,      \* Need[op]: the bits an operation is registered under
  AnyBit,    \* the operations decided by is_capability_enabled: bindings,
             \*   for which one bit of Need is enough
  MaxDepth   \* bound: decisions in progress, one inside another

ASSUME CapAssumption ==
  /\ Granted \subseteq Cap
  /\ Need \in [Op -> SUBSET Cap]
  /\ AnyBit \subseteq Op
ASSUME OpAssumption == Op # {}
ASSUME DepthAssumption == MaxDepth \in Nat

VARIABLES
  mask,        \* sandbox.audit_mask
  hostAudit,   \* a host callback is registered (sandbox.sync_audit)
  jsAudit,     \* a script's audit function is registered (js_audit)
  inProgress,  \* audit_in_progress
  running,     \* the host is inside a call that runs the script
  deciding,    \* the decisions in progress, innermost last
  last         \* the outcome of the decision that ended last

policyVars == <<mask, hostAudit>>
vars == <<mask, hostAudit, jsAudit, inProgress, running, deciding, last>>

(***************************************************************************)
(* A decision waits in stage "args" while its arguments are converted for  *)
(* the host, and in stage "js" while the script's function decides.        *)
(***************************************************************************)
Stage == {"args", "js"}

(* What the script's function does; a promise is an object, hence truthy.  *)
JsAnswer == {"true", "false", "throws", "promise"}
HostAnswer == {"none", "allow", "block"}
Decision == [op : Op, stage : Stage, host : HostAnswer]
(* "denied" is a KossSecurityError, or the exception of the audit function. *)
Result == {"none", "performed", "capability_error", "config_error", "denied"}

Outcome == [op : Op, result : Result, host : HostAnswer,
            js : JsAnswer \cup {"none"}]

NoOutcome == [op |-> CHOOSE op \in Op : TRUE, result |-> "none",
              host |-> "none", js |-> "none"]

TypeOK ==
  /\ mask \subseteq Granted
  /\ hostAudit \in BOOLEAN
  /\ jsAudit \in BOOLEAN
  /\ inProgress \in BOOLEAN
  /\ running \in BOOLEAN
  /\ deciding \in Seq(Decision)
  /\ last \in Outcome

Init ==
  /\ mask = {}
  /\ hostAudit = FALSE
  /\ jsAudit = FALSE
  /\ inProgress = FALSE
  /\ running = FALSE
  /\ deciding = <<>>
  /\ last = NoOutcome

-----------------------------------------------------------------------------
(* The gates *)

(* The first gate asks bits = Granted, the second bits = mask.  Both ask   *)
(* for every bit an operation is registered under (check_audit_decision);  *)
(* for a binding, one bit of its group is enough (is_capability_enabled).  *)
HasCap(bits, op) ==
  IF op \in AnyBit THEN Need[op] \cap bits # {} ELSE Need[op] \subseteq bits

Permitted(op) == HasCap(Granted, op)
NeedAudit(op) == HasCap(mask, op)

-----------------------------------------------------------------------------
(* The host, between its calls *)

(* koss_set_audit_mask *)
SetAuditMask(bits) ==
  /\ ~running
  /\ mask' = bits \cap Granted
  /\ UNCHANGED <<hostAudit, jsAudit, inProgress, running, deciding, last>>

(* koss_check_sandbox, with a callback or with NULL *)
SetHostAudit(registered) ==
  /\ ~running
  /\ hostAudit' = registered
  /\ UNCHANGED <<mask, jsAudit, inProgress, running, deciding, last>>

(* koss_clear_js_audit *)
ClearJsAudit ==
  /\ ~running
  /\ jsAudit' = FALSE
  /\ UNCHANGED <<policyVars, inProgress, running, deciding, last>>

BeginScript ==
  /\ ~running
  /\ running' = TRUE
  /\ UNCHANGED <<policyVars, jsAudit, inProgress, deciding, last>>

EndScript ==
  /\ running
  /\ deciding = <<>>
  /\ running' = FALSE
  /\ last' = NoOutcome
  /\ UNCHANGED <<policyVars, jsAudit, inProgress, deciding>>

-----------------------------------------------------------------------------
(* The script *)

Innermost == deciding[Len(deciding)]
Outer == SubSeq(deciding, 1, Len(deciding) - 1)
AuditsIn(decisions) == {i \in 1 .. Len(decisions) : decisions[i].stage = "js"}

(* KossJS.set_audit_callback(fn) or (null), from any code of the script,   *)
(* the audit function itself included.                                     *)
SetJsAudit(registered) ==
  /\ running
  /\ jsAudit' = registered
  /\ UNCHANGED <<policyVars, inProgress, running, deciding, last>>

(* The decision on op ends. *)
Ends(op, result, host, js) ==
  last' = [op |-> op, result |-> result, host |-> host, js |-> js]

(* The innermost decision goes on to the audit function. *)
AsksScript(host) ==
  deciding' = [deciding EXCEPT ![Len(deciding)] =
                 [op |-> Innermost.op, stage |-> "js", host |-> host]]

(* An operation the first two gates decide alone. *)
DecideWithoutAudit(op) ==
  /\ running
  /\ ~Permitted(op) \/ ~NeedAudit(op) \/ ~hostAudit
  /\ Ends(op,
          IF ~Permitted(op) THEN "capability_error"
          ELSE IF ~NeedAudit(op) THEN "performed" ELSE "config_error",
          "none", "none")
  /\ UNCHANGED <<policyVars, jsAudit, inProgress, running, deciding>>

(* An operation that must be audited: its arguments are converted first. *)
BeginAudit(op) ==
  /\ running
  /\ Permitted(op) /\ NeedAudit(op) /\ hostAudit
  /\ Len(deciding) < MaxDepth
  /\ deciding' = Append(deciding, [op |-> op, stage |-> "args", host |-> "none"])
  /\ UNCHANGED <<policyVars, jsAudit, inProgress, running, last>>

(* Mistake: the script is asked whatever the host said. *)
HostBlocksAsksScript ==
  /\ deciding # <<>> /\ Innermost.stage = "args"
  /\ IF jsAudit /\ ~inProgress
     THEN /\ inProgress' = TRUE
          /\ AsksScript("block")
          /\ UNCHANGED last
     ELSE /\ deciding' = Outer
          /\ Ends(Innermost.op, "denied", "block", "none")
          /\ UNCHANGED inProgress
  /\ UNCHANGED <<policyVars, jsAudit, running>>

(* The host's callback blocks the operation: the script is not asked. *)
HostBlocks ==
  /\ deciding # <<>> /\ Innermost.stage = "args"
  /\ deciding' = Outer
  /\ Ends(Innermost.op, "denied", "block", "none")
  /\ UNCHANGED <<policyVars, jsAudit, inProgress, running>>

(* The host's callback allows it, and no audit function is registered, or  *)
(* one is already running (call_js_audit's two early returns).             *)
HostAllowsAndDecides ==
  /\ deciding # <<>> /\ Innermost.stage = "args"
  /\ ~jsAudit \/ inProgress
  /\ deciding' = Outer
  /\ Ends(Innermost.op, IF ~jsAudit THEN "performed" ELSE "denied",
          "allow", "none")
  /\ UNCHANGED <<policyVars, jsAudit, inProgress, running>>

(* Mistake: the check for a running audit is missing. *)
BeginJsAuditReentrant ==
  /\ deciding # <<>> /\ Innermost.stage = "args"
  /\ jsAudit
  /\ inProgress' = TRUE
  /\ AsksScript("allow")
  /\ UNCHANGED <<policyVars, jsAudit, running, last>>

(* The host's callback allows it, and the audit function is entered. *)
BeginJsAudit ==
  /\ deciding # <<>> /\ Innermost.stage = "args"
  /\ jsAudit /\ ~inProgress
  /\ inProgress' = TRUE
  /\ AsksScript("allow")
  /\ UNCHANGED <<policyVars, jsAudit, running, last>>

(* The audit function returns or throws; its value is made a Boolean. *)
EndJsAudit(answer) ==
  /\ deciding # <<>> /\ Innermost.stage = "js"
  /\ inProgress' = FALSE
  /\ deciding' = Outer
  /\ Ends(Innermost.op,
          IF answer \in {"true", "promise"} THEN "performed" ELSE "denied",
          Innermost.host, answer)
  /\ UNCHANGED <<policyVars, jsAudit, running>>

Next ==
  \/ \E bits \in SUBSET Cap : SetAuditMask(bits)
  \/ \E registered \in BOOLEAN : SetHostAudit(registered) \/ SetJsAudit(registered)
  \/ ClearJsAudit
  \/ BeginScript
  \/ EndScript
  \/ \E op \in Op : DecideWithoutAudit(op) \/ BeginAudit(op)
  \/ HostBlocks
  \/ HostAllowsAndDecides
  \/ BeginJsAudit
  \/ \E answer \in JsAnswer : EndJsAudit(answer)

Spec == Init /\ [][Next]_vars

-----------------------------------------------------------------------------
(* Properties *)

(***************************************************************************)
(* The flag that detects re-entry is up exactly while the audit function   *)
(* runs, and the function never runs inside itself: left up after an       *)
(* exception it would deny every audited operation for the rest of the     *)
(* instance's life.                                                        *)
(***************************************************************************)
AuditFlagExact ==
  /\ inProgress <=> AuditsIn(deciding) # {}
  /\ \A i, j \in AuditsIn(deciding) : i = j

(***************************************************************************)
(* The script can only restrict: an operation is performed only if the     *)
(* capabilities grant it and, when it is to be audited under the mask now  *)
(* in force, the host's callback allowed this very operation.  Neither the *)
(* nested decisions nor a change of audit function in the middle of one    *)
(* lets the script's answer stand in for the host's.                       *)
(***************************************************************************)
ScriptOnlyRestricts ==
  last.result = "performed" =>
    /\ Permitted(last.op)
    /\ NeedAudit(last.op) => last.host = "allow"

(***************************************************************************)
(* The inductive invariant.  A decision in progress has passed the first   *)
(* gate, and one that asks the script was allowed by the host.  Between    *)
(* the host's calls nothing is being decided, so the mask moves under no   *)
(* decision and under no outcome that is still looked at.                  *)
(***************************************************************************)
IInv ==
  /\ TypeOK
  /\ AuditFlagExact
  /\ ScriptOnlyRestricts
  /\ \A i \in 1 .. Len(deciding) : Permitted(deciding[i].op)
  /\ \A i \in AuditsIn(deciding) : deciding[i].host = "allow"
  /\ ~running => deciding = <<>> /\ last.result = "none"

(***************************************************************************)
(* What the design document says of an audit function that answers with a  *)
(* promise: the promise is waited for, and one that resolves to false      *)
(* denies.  An answer "promise" is one that is not settled.                *)
(***************************************************************************)
UnsettledPromiseDoesNotAdmit ==
  last.js = "promise" => last.result # "performed"
=============================================================================
