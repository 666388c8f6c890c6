---------------------------- MODULE Confirmation ----------------------------
(***************************************************************************)
(* The operator's confirmations during a pairing: the PairingBroker of the *)
(* daemon (pairing.rs), the confirmation client `syauth pair --gui`        *)
(* (run_daemon_gui_confirmation, pair_backend.rs) and the pairing dialog   *)
(* that starts the client and owns its stdin and stdout (syauth-settings). *)
(*                                                                         *)
(* BlueZ asks for a numeric comparison ("lesc"), the pair engine for the   *)
(* trust decision of an attempt ("oob"), and it reports the established    *)
(* trust ("bonded").  A request is a connection to the socket file, one at *)
(* a time, answered by one byte on its own stream.                         *)
(* The broker's second way, a GUI registered in the daemon's own process   *)
(* (register_gui), has no caller outside the tests and is left out.        *)
(***************************************************************************)
EXTENDS Naturals, Sequences, Functions

CONSTANTS
    Comparison,  \* numeric comparisons BlueZ asks for
    Attempt,     \* the engine's pairing attempts
    Client,      \* confirmation clients, each with its dialog
    None,
    MaxCancels   \* bound on the comparisons BlueZ cancels

Request == ({"lesc"} \X Comparison) \cup ({"oob", "bonded"} \X Attempt)

ASSUME ConfirmationAssumption == None \notin Client \cup Request /\ MaxCancels \in Nat

VARIABLES
    req,          \* how far the broker is with each request
    socketActive, \* State.socket_active
    cancels,      \* comparisons cancelled so far
    path,         \* the client whose socket the file names
    client,       \* where each client is
    backlog,      \* connections the client has not accepted
    serving,      \* the connection the client answers
    wire,         \* the byte on each request's stream, or its end
    stdout,       \* events the dialog has not read
    stdin,        \* commands the client has not read
    dialog,       \* what each dialog shows
    decision      \* history: the button clicked while the request was on display

broker == <<req, socketActive, cancels>>
clients == <<path, client, backlog, serving, wire>>
dialogs == <<stdout, stdin, dialog, decision>>
vars == <<broker, clients, dialogs>>

InExchange == {"connecting", "waiting"}

NewDialog == [shown |-> None, enabled |-> TRUE, bonded |-> FALSE, cancelled |-> FALSE]

\* The types.
TypeOK ==
    /\ req \in [Request -> {"idle", "accepted", "refused", "cancelled"} \cup InExchange]
    /\ socketActive \in BOOLEAN /\ cancels \in 0..MaxCancels
    /\ path \in Client \cup {None}
    /\ client \in [Client -> {"off", "binding", "listening", "deciding", "ended"}]
    /\ backlog \in [Client -> Seq(Request)] /\ serving \in [Client -> Request \cup {None}]
    /\ wire \in [Request -> {"none", "yes", "no", "eof"}]
    /\ stdout \in [Client -> Seq(Request)] /\ stdin \in [Client -> Seq({"confirm", "reject", "cancel"})]
    /\ dialog \in [Client -> [shown : Request \cup {None}, enabled : BOOLEAN, bonded : BOOLEAN, cancelled : BOOLEAN]]
    /\ decision \in [Request -> {"none", "confirm", "reject"}]

Init ==
    /\ req = [r \in Request |-> "idle"]
    /\ socketActive = FALSE /\ cancels = 0
    /\ path = None /\ client = [c \in Client |-> "off"]
    /\ backlog = [c \in Client |-> <<>>] /\ serving = [c \in Client |-> None]
    /\ wire = [r \in Request |-> "none"]
    /\ stdout = [c \in Client |-> <<>>] /\ stdin = [c \in Client |-> <<>>]
    /\ dialog = [c \in Client |-> NewDialog]
    /\ decision = [r \in Request |-> "none"]

Becomes(r, s) == req' = [req EXCEPT ![r] = s]

-----------------------------------------------------------------------------
(* The broker                                                              *)

\* The engine runs one attempt at a time, asks for trust once and reports it only after an accepted decision;
\* BlueZ may ask for a comparison at any moment.
Due(r) ==
    /\ req[r] = "idle"
    /\ r[1] = "oob" => \A a \in Attempt : req[<<"oob", a>>] \notin InExchange
    /\ r[1] = "bonded" => req[<<"oob", r[2]>>] = "accepted"

\* request_confirmation, request_oob_confirmation and notify_bonded, to the first await of exchange: there is one
\* exchange at a time, and a second one fails closed.
Ask(r) ==
    /\ Due(r)
    /\ Becomes(r, IF socketActive THEN "refused" ELSE "connecting")
    /\ socketActive' = TRUE
    /\ UNCHANGED <<cancels, clients, dialogs>>

Listens(c) == client[c] \in {"listening", "deciding"}

\* UnixStream::connect and write_all: the file must name a live listener.  A notice expects no answer.
Connect(r) ==
    /\ req[r] = "connecting"
    /\ IF path = None \/ ~Listens(path)
       THEN Becomes(r, "refused") /\ socketActive' = FALSE /\ UNCHANGED backlog
       ELSE /\ backlog' = [backlog EXCEPT ![path] = Append(@, r)]
            /\ Becomes(r, IF r[1] = "bonded" THEN "accepted" ELSE "waiting")
            /\ socketActive' = (r[1] # "bonded")
    /\ UNCHANGED <<cancels, path, client, serving, wire, dialogs>>

\* read_exact of one byte: 1 accepts, anything else and the end of the stream refuse.
Read(r) ==
    /\ req[r] = "waiting" /\ wire[r] # "none"
    /\ Becomes(r, IF wire[r] = "yes" THEN "accepted" ELSE "refused")
    /\ socketActive' = FALSE
    /\ UNCHANGED <<cancels, clients, dialogs>>

MutantTimeoutKeepsSlot(r) ==
    /\ req[r] = "waiting"
    /\ Becomes(r, "refused")
    /\ UNCHANGED <<socketActive, cancels, clients, dialogs>>

MutantNoTimeout(r) == req[r] = "waiting" /\ FALSE /\ UNCHANGED vars

\* PAIR_CONFIRMATION_TIMEOUT or PAIR_OOB_CONFIRMATION_TIMEOUT, which may fire as the byte arrives.
Timeout(r) ==
    /\ req[r] = "waiting"
    /\ Becomes(r, "refused")
    /\ socketActive' = FALSE
    /\ UNCHANGED <<cancels, clients, dialogs>>

\* BlueZ cancels a comparison: the agent drops the future of request_confirmation where it is.
Cancel(r) ==
    /\ r[1] = "lesc" /\ req[r] \in InExchange
    /\ cancels < MaxCancels /\ cancels' = cancels + 1
    /\ Becomes(r, "cancelled")
    /\ UNCHANGED <<socketActive, clients, dialogs>>

-----------------------------------------------------------------------------
(* The confirmation client                                                 *)

\* remove_file(path), whoever's socket it is.
Start(c) ==
    /\ client[c] = "off"
    /\ client' = [client EXCEPT ![c] = "binding"]
    /\ path' = None
    /\ UNCHANGED <<broker, backlog, serving, wire, dialogs>>

\* UnixListener::bind fails when the file is back.
Bind(c) ==
    /\ client[c] = "binding"
    /\ client' = [client EXCEPT ![c] = IF path = None THEN "listening" ELSE "ended"]
    /\ path' = IF path = None THEN c ELSE path
    /\ UNCHANGED <<broker, backlog, serving, wire, dialogs>>

\* The client's sockets close: the connection it serves and those it never accepted.
Hangs(c) == Range(backlog[c]) \cup (IF client[c] = "deciding" THEN {serving[c]} ELSE {})

Close(c, answered) ==
    /\ client' = [client EXCEPT ![c] = "ended"]
    /\ backlog' = [backlog EXCEPT ![c] = <<>>]
    /\ wire' = [r \in Request |-> IF r \in Hangs(c) /\ wire[r] = "none" THEN answered ELSE wire[r]]
    /\ UNCHANGED serving

\* accept, read_frame, and the events printed for the request.  A bonded notice ends the client, which removes the
\* socket file.
Accept(c) ==
    /\ client[c] = "listening" /\ backlog[c] # <<>>
    /\ LET r == Head(backlog[c]) IN
       /\ stdout' = [stdout EXCEPT ![c] = Append(@, r)]
       /\ IF r[1] = "bonded"
          THEN Close(c, "eof") /\ path' = None
          ELSE /\ client' = [client EXCEPT ![c] = "deciding"]
               /\ serving' = [serving EXCEPT ![c] = r]
               /\ backlog' = [backlog EXCEPT ![c] = Tail(@)]
               /\ UNCHANGED <<path, wire>>
    /\ UNCHANGED <<broker, stdin, dialog, decision>>

\* read_operator_decision and the byte: every command but confirm rejects.  A rejection, and a stream the broker has
\* left, end the client.
Decide(c) ==
    /\ client[c] = "deciding" /\ stdin[c] # <<>>
    /\ LET r == serving[c]
           accepted == Head(stdin[c]) = "confirm" IN
       IF accepted /\ req[r] = "waiting"
       THEN /\ client' = [client EXCEPT ![c] = "listening"]
            /\ wire' = [wire EXCEPT ![r] = "yes"]
            /\ UNCHANGED <<path, backlog, serving>>
       ELSE Close(c, IF accepted THEN "eof" ELSE "no") /\ path' = None
    /\ stdin' = [stdin EXCEPT ![c] = Tail(@)]
    /\ UNCHANGED <<broker, stdout, dialog, decision>>

-----------------------------------------------------------------------------
(* The dialog                                                              *)

MutantEventEnables(c) ==
    /\ stdout[c] # <<>> /\ ~(client[c] = "ended" /\ dialog[c].cancelled)
    /\ LET r == Head(stdout[c]) IN
       dialog' = [dialog EXCEPT ![c].shown = IF r[1] = "bonded" THEN None ELSE r,
                                ![c].enabled = r[1] = "oob" \/ @,
                                ![c].bonded = @ \/ r[1] # "lesc"]
    /\ stdout' = [stdout EXCEPT ![c] = Tail(@)]
    /\ UNCHANGED <<broker, clients, stdin, decision>>

\* apply_event: a code is put on display with the buttons; only oob_ready enables them; bonded takes them away.
ApplyEvent(c) ==
    /\ stdout[c] # <<>> /\ ~(client[c] = "ended" /\ dialog[c].cancelled)
    /\ LET r == Head(stdout[c]) IN
       dialog' = [dialog EXCEPT ![c].shown = IF r[1] = "bonded" THEN None ELSE r,
                                ![c].enabled = r[1] = "oob" \/ (@ /\ r[1] # "bonded"),
                                ![c].bonded = @ \/ r[1] = "bonded"]
    /\ stdout' = [stdout EXCEPT ![c] = Tail(@)]
    /\ UNCHANGED <<broker, clients, stdin, decision>>

Running(c) == client[c] \notin {"off", "ended"}

MutantClickKeepsButtons(c, command) ==
    /\ Running(c) /\ dialog[c].shown # None /\ dialog[c].enabled
    /\ Len(stdin[c]) < 2
    /\ stdin' = [stdin EXCEPT ![c] = Append(@, command)]
    /\ decision' = [decision EXCEPT ![dialog[c].shown] = command]
    /\ UNCHANGED <<broker, clients, stdout, dialog>>

\* send: a click on Conferma or Non corrisponde writes the command and disables both.
Click(c, command) ==
    /\ Running(c) /\ dialog[c].shown # None /\ dialog[c].enabled
    /\ stdin' = [stdin EXCEPT ![c] = Append(@, command)]
    /\ dialog' = [dialog EXCEPT ![c].enabled = FALSE]
    /\ decision' = [decision EXCEPT ![dialog[c].shown] = command]
    /\ UNCHANGED <<broker, clients, stdout>>

\* cancel_pairing, once: arms the watchdog, then writes cancel.
CancelPairing(c) ==
    /\ Running(c) /\ ~dialog[c].cancelled
    /\ dialog' = [dialog EXCEPT ![c].enabled = FALSE, ![c].cancelled = TRUE]
    /\ stdin' = [stdin EXCEPT ![c] = Append(@, "cancel")]
    /\ UNCHANGED <<broker, clients, stdout, decision>>

\* _watchdog_kill: SIGKILL, which leaves the socket file behind.
Kill(c) ==
    /\ Running(c) /\ dialog[c].cancelled
    /\ Close(c, "eof")
    /\ UNCHANGED <<broker, path, dialogs>>

Next ==
    \/ \E r \in Request : Ask(r) \/ Connect(r) \/ Read(r) \/ Timeout(r) \/ Cancel(r)
    \/ \E c \in Client : Start(c) \/ Bind(c) \/ Accept(c) \/ Decide(c) \/ ApplyEvent(c) \/ CancelPairing(c) \/ Kill(c)
    \/ \E c \in Client, command \in {"confirm", "reject"} : Click(c, command)

Spec == Init /\ [][Next]_vars

\* The runtime polls the broker's futures and their timers, the watchdog is a timer of its own.  Nothing is asked
\* of the operator, of BlueZ or of the client.
Fairness ==
    /\ \A r \in Request : WF_vars(Connect(r)) /\ WF_vars(Read(r)) /\ WF_vars(Timeout(r))
    /\ \A c \in Client : WF_vars(Kill(c))

FairSpec == Spec /\ Fairness

-----------------------------------------------------------------------------
(* Properties                                                              *)

\* No request is accepted unless the operator clicked Conferma while the dialog displayed that very request: no
\* click, late byte or stale command of one request ever answers another ("Two distinct decisions are rendered here
\* and they are not equivalent").
AcceptedWasConfirmed ==
    \A r \in Request : req[r] = "accepted" /\ r[1] # "bonded" => decision[r] = "confirm"

\* A dialog says "Telefono associato" only when the operator confirmed the words of an attempt the broker accepted
\* ("bonded is emitted only after the daemon reports TrustEstablished").
AssociatedIsTrusted ==
    \A c \in Client : dialog[c].bonded =>
        \E a \in Attempt : req[<<"oob", a>>] = "accepted" /\ decision[<<"oob", a>>] = "confirm"

\* The single exchange slot is free again after every exchange, however it ended, unless BlueZ dropped one: it is
\* taken exactly while one request is in its exchange.
SlotIsOwned ==
    cancels = 0 =>
        /\ socketActive <=> \E r \in Request : req[r] \in InExchange
        /\ \A r, q \in Request : req[r] \in InExchange /\ req[q] \in InExchange => r = q

\* Every request is answered in the end, whatever the clients and the operator do.
EveryRequestEnds ==
    \A r \in Request : req[r] # "idle" ~> req[r] \in {"accepted", "refused", "cancelled"}

\* Annulla always ends the client, prompt or no prompt ("it must never leave the dialog on Annullamento").
CancelEndsClient ==
    \A c \in Client : dialog[c].cancelled ~> client[c] = "ended"

\* Refuted when BlueZ cancels a comparison: without an exchange the slot is free, so that the next request can be
\* asked at all.
SlotIsFreed ==
    socketActive => \E r \in Request : req[r] \in InExchange

\* Refuted beside a second client ("the sole local confirmation client"): a client that listens can be reached.
ListenerIsReachable ==
    \A c \in Client : Listens(c) => path = c

\* Refuted by a second comparison: a code on display that the client still asks about can be answered.
ShownCanBeAnswered ==
    \A c \in Client :
        client[c] = "deciding" /\ dialog[c].shown = serving[c] /\ decision[serving[c]] = "none" /\ ~dialog[c].cancelled
            => dialog[c].enabled

=============================================================================
