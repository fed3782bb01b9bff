------------------------ MODULE MCWorkflowApproval ------------------------
(* Small instances of WorkflowApproval for TLC. *)
EXTENDS WorkflowApproval, TLC

CONSTANTS s1, s2, x1, x2, a1, a2, a3, refund, ai, agent, delay

MCSessions == {s1, s2}
MCActs     == {refund, ai, agent, delay}
MCGated    == {refund, agent}
MCDelays   == {delay}
MCCommits  == {ai, agent}

(* A gated action, a call to a model and an agent that asks for approval;    *)
(* or none of them and a delay.                                              *)
MCActions == x1 :> <<refund, ai, agent>> @@ x2 :> <<delay>>

Perms == Permutations(MCSessions) \cup Permutations(Approvals)
=============================================================================
