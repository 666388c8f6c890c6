---------------------------- MODULE MCPairDialog ----------------------------
(***************************************************************************)
(* The two services a pairing dialog uses, side by side: the pairing agent *)
(* its session holds and the confirmations it answers.  They share no      *)
(* state, so a behaviour is one of either.                                 *)
(***************************************************************************)
EXTENDS PairAgent, Confirmation

VARIABLE part

DialogInit == part \in {"agent", "confirmation"} /\ AgentInit /\ (part = "confirmation" => ~own) /\ Init

DialogNext ==
    \/ part = "agent" /\ AgentNext /\ UNCHANGED <<part, vars>>
    \/ part = "confirmation" /\ Next /\ UNCHANGED <<part, agentVars>>

DialogSpec == DialogInit /\ [][DialogNext]_<<part, agentVars, vars>> /\ Fairness
=============================================================================
