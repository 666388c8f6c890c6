------------------------------ MODULE MCService ------------------------------
(***************************************************************************)
(* The daemon as a service of the host: its process under systemd with its *)
(* pidfile and socket file, and the clients of its socket.  A behaviour is *)
(* one of either.                                                          *)
(***************************************************************************)
EXTENDS AuthSocket, Lifecycle

VARIABLE part

ServiceInit == part \in {"process", "socket"} /\ LifecycleInit /\ (part = "socket" => ~bonds) /\ Init

\* A daemon that has exited, with every client answered, rests.
Rests == loop = "exited" /\ (\A k \in Client : client[k] # "waiting") /\ UNCHANGED vars

ServiceNext ==
    \/ part = "process" /\ LifecycleNext /\ UNCHANGED <<part, vars>>
    \/ part = "socket" /\ (Next \/ Rests) /\ UNCHANGED <<part, lifecycle>>

InProcess(A) == part = "process" /\ A
InSocket(A) == part = "socket" /\ A

\* The fairness of FairLifecycle and of FairSpec, each in its part.
ServiceSpec ==
    /\ ServiceInit /\ [][ServiceNext]_<<part, vars, lifecycle>>
    /\ WF_lifecycle(InProcess(Restart)) /\ \A i \in Proc : WF_lifecycle(InProcess(Runs(i)))
    /\ WF_vars(InSocket(Loop)) /\ WF_vars(InSocket(Tick))
    /\ \A k \in Client : WF_vars(InSocket(Handler(k))) /\ WF_vars(InSocket(PamTimesOut(k)))
    /\ \A k \in Client \ Silent : WF_vars(InSocket(Send(k)))
=============================================================================
