---------------------------- MODULE MCPairCommand ----------------------------
(***************************************************************************)
(* The pair command over an arbitrary backend, and its backend over BlueZ: *)
(* a behaviour is one of either.                                           *)
(***************************************************************************)
EXTENDS PairCommand

CONSTANTS Phone, MaxInbox

VARIABLES part, step, comparison, encrypted, bound, inbox, published, tx, round, sent

B == INSTANCE PairBackend WITH Handler <- "waybar"

backendVars == <<step, comparison, encrypted, bound, inbox, published, tx, round, sent>>

\* Invocations differ in --force only: of the two that differ, it is not this one that has it.
First == CHOOSE p \in Process : TRUE

PairInit ==
    /\ part \in {"command", "backend"}
    /\ Init
    /\ IF part = "command" THEN force[First] => \A p \in Process : force[p]
       ELSE (\A p \in Process : ~force[p]) /\ \A x \in Peer : key[x] = None
    /\ B!Init /\ (part = "command" => encrypted = {})

PairNext ==
    \/ part = "command" /\ Next /\ UNCHANGED <<part, backendVars>>
    \/ part = "backend" /\ B!Next /\ UNCHANGED <<part, vars>>

InBackend(A) == part = "backend" /\ A

PairSpec ==
    /\ PairInit /\ [][PairNext]_<<part, vars, backendVars>>
    /\ \A p \in Process : WF_vars(part = "command" /\ Comparing(p))
    /\ WF_backendVars(InBackend(B!Shown)) /\ WF_backendVars(InBackend(B!ScanFails))
    /\ WF_backendVars(InBackend(B!Take)) /\ WF_backendVars(InBackend(B!WaitTimesOut))

\* Every wait of the command ends, whatever the applet and the phones do: the poll for the applet's answer
\* (wait_for_decision), and each exchange of coordinate_v2 (wait_protocol).
EveryWaitEnds == ComparisonEnds /\ B!CoordinationEnds
=============================================================================
