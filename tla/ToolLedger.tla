----------------------------- MODULE ToolLedger -----------------------------
(***************************************************************************)
(* What the session log promises about tool calls, whoever resolves them:  *)
(* a tool_use is requested once, its handler runs only while it is still   *)
(* unresolved, one handler at a time, and it is settled once.  AgentLoop   *)
(* with the approval calls implements this.                                *)
(***************************************************************************)
EXTENDS Naturals

CONSTANT Ids

VARIABLES
  requested,   \* ids of the tool_uses in the log
  settled,     \* ids with a tool_result
  running,     \* the id whose handler is running, at most one
  calls        \* how often each id's handler was called

lvars == <<requested, settled, running, calls>>

Init == requested = {} /\ settled = {} /\ running = {} /\ calls = [id \in Ids |-> 0]

Request(id) ==
  /\ id \notin requested
  /\ requested' = requested \cup {id}
  /\ UNCHANGED <<settled, running, calls>>

\* A name that is not in the Registry starts without a call.
Start(id, called) ==
  /\ id \in requested \ settled /\ running = {}
  /\ running' = {id}
  /\ calls' = IF called THEN [calls EXCEPT ![id] = @ + 1] ELSE calls
  /\ UNCHANGED <<requested, settled>>

\* The running handler returned, or nothing runs and the use is denied,
\* rejected by the host, or closed with its turn.
Settle(id) ==
  /\ id \in requested \ settled /\ running \subseteq {id}
  /\ settled' = settled \cup {id} /\ running' = {}
  /\ UNCHANGED <<requested, calls>>

\* An interrupt while the handler runs: the use stays unsettled.
Abandon ==
  /\ running # {} /\ running' = {}
  /\ UNCHANGED <<requested, settled, calls>>

Next ==
  \/ \E id \in Ids : Request(id) \/ Settle(id)
  \/ \E id \in Ids, called \in BOOLEAN : Start(id, called)
  \/ Abandon

Spec == Init /\ [][Next]_lvars

\* A handler runs only for a use that is requested and unsettled, a use is
\* settled only once requested, and no handler was called for any other id.
Orderly ==
  /\ settled \subseteq requested /\ running \subseteq requested \ settled
  /\ \A id \in Ids : calls[id] > 0 => id \in requested

\* What is settled stays so, and its handler is never called again.
SettledForGood ==
  [][settled \subseteq settled' /\ \A id \in settled : calls'[id] = calls[id]]_lvars
=============================================================================
