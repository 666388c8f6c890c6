------------------------------- MODULE MCHost -------------------------------
(***************************************************************************)
(* What the command line does to the host, and last.log: the installers,   *)
(* overlapping PAM calls ("log"), and a PAM call beside an unlock-request  *)
(* of a daemon that may hang ("request").  A behaviour is one of the three.*)
(***************************************************************************)
EXTENDS MCInstaller

CONSTANTS Pam, Request, Peer, Backlog, MaxRead, Tail10

VARIABLES part, bonded, call, peer, daemon, verdict, left, log, current, session, latest, mixed

L == INSTANCE UnlockLog

logVars == <<bonded, call, peer, daemon, verdict, left, log, current, session, latest, mixed>>

HostInit ==
    /\ part \in {"install", "log", "request"}
    /\ Init /\ (part # "install" => service = <<"account">>)
    /\ L!Init

First == CHOOSE c \in Pam : \A k \in Pam : c <= k

HostNext ==
    \/ part = "install" /\ Next /\ UNCHANGED <<part, logVars>>
    \/ part = "log" /\ L!Steps(Pam) /\ UNCHANGED <<part, vars>>
    \/ part = "request" /\ L!Steps(Request \cup {First}) /\ UNCHANGED <<part, vars>>

HostSpec ==
    /\ HostInit /\ [][HostNext]_<<part, vars, logVars>>
    /\ \A c \in Request \cup {First} : WF_logVars(part = "request" /\ L!Runs(c))

\* syauth status names the last authentication that succeeded, unless a write fell inside another writer's line
\* (read_last_successful_unlock).
SuccessIsReported == L!SuccessIsReported

\* A PAM call and an unlock-request end once started, though the daemon hangs or dies.
EveryCallReturns == \A c \in Request \cup {First} : part = "request" /\ call[c] # "idle" ~> call[c] = "returned"
=============================================================================
