----------------------------- MODULE AuthSocket -----------------------------
(***************************************************************************)
(* The daemon's Unix socket (crates/syauth-presenced/src/server.rs) with   *)
(* the PAM clients in front of it (crates/syauth-pam/src/auth.rs): the     *)
(* accept loop and its permits, one handler per connection, the backend    *)
(* that comes up after the socket does, and shutdown.  A challenge is      *)
(* reduced to its two timed phases, notify_challenge and wait_for_         *)
(* response, and its outcome; Orchestrator models what happens inside.     *)
(* Time passes in ticks, and never past a timer that has run out.          *)
(***************************************************************************)
EXTENDS Naturals, Sequences, FiniteSets

CONSTANTS
    Client,        \* processes that connect to the socket
    Silent,        \* those among them that may connect and never send a whole frame
    Cap,           \* CONCURRENT_ACCEPT_CAP
    PamBudget,     \* DAEMON_RESPONSE_BUDGET, in ticks
    NotifyBudget,  \* the wait for a fresh subscription in notify_challenge
    WaitBudget     \* DEFAULT_AUTH_TIMEOUT of wait_for_response

ASSUME SocketAssumption ==
    /\ Silent \subseteq Client
    /\ {Cap, PamBudget, NotifyBudget, WaitBudget} \subseteq Nat \ {0}

VARIABLES
    backend,  \* BackendState: starting, up, or without an orchestrator
    loop,     \* the accept loop: at select, at the permit with a stream in hand, or over
    held,     \* that stream
    backlog,  \* connections the kernel keeps for accept
    conn,     \* each connection's handler
    seen,     \* whether the handler found an orchestrator
    client,   \* each client: idle, connected, waiting for the response, done
    code,     \* what PAM got
    timer,    \* ticks since the client sent, and since the handler's phase began
    stop      \* SIGTERM was received

vars == <<backend, loop, held, backlog, conn, seen, client, code, timer, stop>>

NoStream == "no-client"
Reasons == {"ok", "replay", "bad-signature", "response-timeout", "busy", "unknown-peer", "transport-error", "not-implemented"}
Codes == {"none", "success", "auth-err", "unavail"}
Phases == {"none", "backlog", "accepted", "reading", "notify", "wait", "closed"} \cup Reasons

\* A handler keeps its permit until it returns.
Holding == {k \in Client : conn[k] \notin {"none", "backlog", "accepted", "closed"}}

\* The types, and no more handlers than permits.
TypeOK ==
    /\ backend \in {"starting", "up", "none"}
    /\ loop \in {"select", "permit", "over", "exited"}
    /\ held \in Client \cup {NoStream}
    /\ backlog \in Seq(Client)
    /\ conn \in [Client -> Phases]
    /\ seen \in [Client -> BOOLEAN]
    /\ client \in [Client -> {"idle", "connected", "waiting", "done"}]
    /\ code \in [Client -> Codes]
    /\ timer \in [Client -> [pam : 0..PamBudget, phase : Nat]]
    /\ stop \in BOOLEAN
    /\ Cardinality(Holding) <= Cap

Init ==
    /\ backend = "starting"
    /\ loop = "select" /\ held = NoStream /\ backlog = <<>>
    /\ conn = [k \in Client |-> "none"]
    /\ seen = [k \in Client |-> FALSE]
    /\ client = [k \in Client |-> "idle"]
    /\ code = [k \in Client |-> "none"]
    /\ timer = [k \in Client |-> [pam |-> 0, phase |-> 0]]
    /\ stop = FALSE

\* outcome_reason_to_pam
PamCode(reason) ==
    CASE reason = "ok" -> "success"
      [] reason \in {"response-timeout", "busy", "unknown-peer", "transport-error"} -> "unavail"
      [] OTHER -> "auth-err"

-----------------------------------------------------------------------------
(* Clients                                                                 *)

Connect(k) ==
    /\ client[k] = "idle" /\ loop \notin {"over", "exited"}
    /\ client' = [client EXCEPT ![k] = "connected"]
    /\ conn' = [conn EXCEPT ![k] = "backlog"]
    /\ backlog' = Append(backlog, k)
    /\ UNCHANGED <<backend, loop, held, seen, code, timer, stop>>

Send(k) ==
    /\ client[k] = "connected"
    /\ client' = [client EXCEPT ![k] = "waiting"]
    /\ UNCHANGED <<backend, loop, held, backlog, conn, seen, code, timer, stop>>

\* daemon_round_trip returns Err: the module falls through.
GivesUp(ks) ==
    /\ client' = [k \in Client |-> IF k \in ks THEN "done" ELSE client[k]]
    /\ code' = [k \in Client |-> IF k \in ks THEN "unavail" ELSE code[k]]

PamTimesOut(k) ==
    /\ client[k] = "waiting" /\ timer[k].pam = PamBudget
    /\ GivesUp({k})
    /\ UNCHANGED <<backend, loop, held, backlog, conn, seen, timer, stop>>

\* The process that runs the module is interrupted.
Interrupted(k) ==
    /\ client[k] \in {"connected", "waiting"}
    /\ client' = [client EXCEPT ![k] = "done"]
    /\ UNCHANGED <<backend, loop, held, backlog, conn, seen, code, timer, stop>>

-----------------------------------------------------------------------------
(* serve                                                                   *)

BackendPublished(s) ==
    /\ backend = "starting"
    /\ backend' = s
    /\ UNCHANGED <<loop, held, backlog, conn, seen, client, code, timer, stop>>

Sigterm ==
    /\ ~stop
    /\ stop' = TRUE
    /\ UNCHANGED <<backend, loop, held, backlog, conn, seen, client, code, timer>>

\* select is biased: a pending shutdown wins over a pending connection.
Accept ==
    /\ loop = "select" /\ ~stop /\ backlog # <<>>
    /\ loop' = "permit"
    /\ held' = Head(backlog)
    /\ backlog' = Tail(backlog)
    /\ conn' = [conn EXCEPT ![Head(backlog)] = "accepted"]
    /\ UNCHANGED <<backend, seen, client, code, timer, stop>>

MutantUncapped ==
    /\ loop = "permit" /\ Cardinality(Holding) <= Cap
    /\ loop' = "select"
    /\ conn' = [conn EXCEPT ![held] = "reading"]
    /\ seen' = [seen EXCEPT ![held] = backend = "up"]
    /\ held' = NoStream
    /\ UNCHANGED <<backend, backlog, client, code, timer, stop>>

\* The permit is awaited inside the arm, where shutdown is not looked at.  The handler reads the backend
\* state before it reads the request.
Permit ==
    /\ loop = "permit" /\ Cardinality(Holding) < Cap
    /\ loop' = "select"
    /\ conn' = [conn EXCEPT ![held] = "reading"]
    /\ seen' = [seen EXCEPT ![held] = backend = "up"]
    /\ held' = NoStream
    /\ UNCHANGED <<backend, backlog, client, code, timer, stop>>

\* The listener is dropped, and what it had not accepted is reset.
Halt ==
    /\ loop = "select" /\ stop
    /\ loop' = "over"
    /\ backlog' = <<>>
    /\ conn' = [k \in Client |-> IF conn[k] = "backlog" THEN "closed" ELSE conn[k]]
    /\ GivesUp({k \in Client : conn[k] = "backlog" /\ client[k] \in {"connected", "waiting"}})
    /\ UNCHANGED <<backend, held, seen, timer, stop>>

\* run returns and the process ends with the handlers that are left.
Exit ==
    /\ loop = "over"
    /\ loop' = "exited"
    /\ conn' = [k \in Client |-> IF conn[k] = "none" THEN "none" ELSE "closed"]
    /\ GivesUp({k \in Client : client[k] \in {"connected", "waiting"}})
    /\ UNCHANGED <<backend, held, backlog, seen, timer, stop>>

-----------------------------------------------------------------------------
(* handle_connection                                                       *)

MovesTo(k, phase) ==
    /\ conn' = [conn EXCEPT ![k] = phase]
    /\ timer' = [timer EXCEPT ![k].phase = 0]
    /\ UNCHANGED <<backend, loop, held, backlog, seen, client, code, stop>>

ReadRequest(k) ==
    /\ conn[k] = "reading" /\ client[k] = "waiting"
    /\ MovesTo(k, IF seen[k] THEN "notify" ELSE "not-implemented")

MutantGoneUnnoticed(k) ==
    /\ conn[k] \in {"reading", "notify", "wait"} /\ client[k] = "done"
    /\ MovesTo(k, IF conn[k] = "reading" THEN "reading" ELSE "closed")

\* read_frame meets the end of the stream, or the probe does during a challenge.
PeerGone(k) ==
    /\ conn[k] \in {"reading", "notify", "wait"} /\ client[k] = "done"
    /\ MovesTo(k, "closed")

Notified(k) == conn[k] = "notify" /\ MovesTo(k, "wait")

NotifyFails(k) == conn[k] = "notify" /\ \E r \in {"busy", "unknown-peer", "transport-error"} : MovesTo(k, r)

Answered(k) == conn[k] = "wait" /\ \E r \in {"ok", "replay", "bad-signature", "unknown-peer"} : MovesTo(k, r)

WaitTimesOut(k) == conn[k] = "wait" /\ timer[k].phase = WaitBudget /\ MovesTo(k, "response-timeout")

\* write_frame, to a client that may have gone since.
Respond(k) ==
    /\ conn[k] \in Reasons
    /\ conn' = [conn EXCEPT ![k] = "closed"]
    /\ IF client[k] = "waiting"
       THEN /\ client' = [client EXCEPT ![k] = "done"]
            /\ code' = [code EXCEPT ![k] = PamCode(conn[k])]
       ELSE UNCHANGED <<client, code>>
    /\ UNCHANGED <<backend, loop, held, backlog, seen, timer, stop>>

\* A tick: no timer that has run out is passed over.
Tick ==
    /\ \E k \in Client : client[k] = "waiting" \/ conn[k] \in {"notify", "wait"}
    /\ \A k \in Client :
         /\ client[k] = "waiting" => timer[k].pam < PamBudget
         /\ conn[k] = "notify" => timer[k].phase < NotifyBudget
         /\ conn[k] = "wait" => timer[k].phase < WaitBudget
    /\ timer' = [k \in Client |-> [pam |-> timer[k].pam + (IF client[k] = "waiting" THEN 1 ELSE 0),
                                   phase |-> timer[k].phase + (IF conn[k] \in {"notify", "wait"} THEN 1 ELSE 0)]]
    /\ UNCHANGED <<backend, loop, held, backlog, conn, seen, client, code, stop>>

-----------------------------------------------------------------------------
Handler(k) == ReadRequest(k) \/ PeerGone(k) \/ Notified(k) \/ NotifyFails(k) \/ Answered(k) \/ WaitTimesOut(k) \/ Respond(k)

Loop == Accept \/ Permit \/ Halt \/ Exit

Next ==
    \/ \E k \in Client : Connect(k) \/ Send(k) \/ PamTimesOut(k) \/ Interrupted(k) \/ Handler(k)
    \/ \E s \in {"up", "none"} : BackendPublished(s)
    \/ Sigterm \/ Loop \/ Tick

Spec == Init /\ [][Next]_vars

\* The runtime polls the loop and the handlers; the module sends right after it connects, except for the
\* clients in Silent; time passes and timers fire.
Fairness ==
    /\ WF_vars(Loop) /\ WF_vars(Tick)
    /\ \A k \in Client : WF_vars(Handler(k)) /\ WF_vars(PamTimesOut(k))
    /\ \A k \in Client \ Silent : WF_vars(Send(k))

FairSpec == Spec /\ Fairness

-----------------------------------------------------------------------------
(* Properties                                                              *)

\* What PAM was told stays: an answer that arrives after the module has given up changes nothing
\* (handle_connection, daemon_round_trip).
CodeIsFinal == [][\A k \in Client : client[k] = "done" => code'[k] = code[k]]_vars

\* A client that is gone gives its permit back, whatever its handler was doing (spawn_connection,
\* handle_connection).
PermitsReturn == \A k \in Client : k \in Holding /\ client[k] = "done" ~> k \notin Holding

\* After SIGTERM the accept loop ends, even when it waits for a permit (serve, run), as long as every client
\* that connected sends its request.
ShutdownCompletes == stop ~> loop = "exited"

\* "so the daemon's own tokio::time::timeout trips first" (DAEMON_RESPONSE_BUDGET): the module never gives up
\* on a challenge the daemon is still working on.
DaemonTimesOutFirst == \A k \in Client : code[k] = "unavail" => conn[k] \notin {"notify", "wait"}

\* "Daemon: no advertiser for peer_id ... PAM_AUTHINFO_UNAVAIL" (specs/unlock-proximity/SPEC.md, Failure
\* Taxonomy): the stack stops only on an answer of the phone, never because the backend is not there.
NoBackendFallsThrough == \A k \in Client : code[k] = "auth-err" => seen[k]
=============================================================================
