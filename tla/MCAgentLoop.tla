---------------------------- MODULE MCAgentLoop ----------------------------
(* Instances of AgentLoop for TLC: which handlers are installed.            *)
EXTENDS AgentLoop

\* A fail_turn handler in front of the repetition guard.
GuardPolicy == <<FailTurnHook, Repetition>>
\* RequireApproval next to HumanApproval.
ApprovalPolicy == <<RequireApproval, HumanApproval>>
AllowPolicy == <<RequireApproval>>
=============================================================================
