------------------------------ MODULE UnlockLog ------------------------------
(***************************************************************************)
(* last.log between its writers and its readers.  A PAM call (authenticate  *)
(* in crates/syauth-pam/src/auth.rs) and `syauth unlock-request` both ask    *)
(* the daemon; the daemon appends one audit record per challenge, in one    *)
(* write; the PAM module then appends its own line with writeln!, one write *)
(* for each fragment of the format.  `syauth status` and `syauth doctor`    *)
(* read the file.  A finished line of the log is what parse_last_log_line   *)
(* makes of it; the line being written is the sequence of the fragments in  *)
(* it, each with the call it is about.                                      *)
(***************************************************************************)
EXTENDS Naturals, Sequences, FiniteSets, SequencesExt

CONSTANTS
    Pam,        \* calls of the PAM module
    Request,    \* runs of unlock-request
    Peer,       \* bonds, numbered in the order they were created
    Backlog,    \* connections the kernel keeps for accept
    MaxRead,    \* DOCTOR_LOG_MAX_READ_LINES
    Tail10      \* DOCTOR_LAST_LOG_TAIL

VARIABLES
    bonded,     \* peers whose record is Bonded
    call,       \* where each call is
    peer,       \* the peer it challenges, 0 for none
    daemon,     \* what the daemon has done for each call
    verdict,    \* the outcome of each call
    left,       \* the fragments of its line a PAM call has yet to write
    log,        \* the finished lines of last.log
    current,    \* the line after them, not ended yet
    session,    \* whether the session is locked
    latest,     \* history: the last call that logged a success, 0 for none
    mixed       \* history: something was appended inside a line of the PAM module

vars == <<bonded, call, peer, daemon, verdict, left, log, current, session, latest, mixed>>

Call == Pam \cup Request
Kinds == {"time", "space", "success", "failure", "peer", "csv"}
Piece(kind, c) == [kind |-> kind, of |-> c]
Reasons == {"ok", "denied", "offline"}

\* The types.
TypeOK ==
    /\ bonded \subseteq Peer
    /\ call \in [Call -> {"idle", "connect", "waiting", "answered", "logging", "returned"}]
    /\ peer \in [Call -> Peer \cup {0}]
    /\ daemon \in [Call -> {"none", "queued", "accepted"} \cup Reasons]
    /\ verdict \in [Call -> {"none", "success", "auth-err", "unavail"}]
    /\ left \in [Call -> 0..6]
    /\ ToSet(log) \subseteq [kind : {"success", "failure", "audit", "broken"}, of : Call]
    /\ ToSet(current) \subseteq [kind : Kinds, of : Call]
    /\ session \in {"locked", "unlocked"}
    /\ latest \in Call \cup {0} /\ mixed \in BOOLEAN

-----------------------------------------------------------------------------
(* Readers                                                                 *)

\* split_ascii_whitespace: fragments with no space between them are one token.
Tokens(line) ==
    SelectSeq(FoldLeft(LAMBDA tokens, piece :
                           IF piece.kind = "space" THEN Append(tokens, <<>>)
                           ELSE [tokens EXCEPT ![Len(tokens)] = Append(@, piece)],
                       << <<>> >>, line),
              LAMBDA token : token # <<>>)

\* parse_last_log_line: the outcome, and the call whose timestamp it bears.
ParseLastLogLine(line) ==
    LET tokens == Tokens(line)
    IN  IF /\ Len(tokens) = 3
           /\ Len(tokens[1]) = 1 /\ tokens[1][1].kind = "time"
           /\ Len(tokens[2]) = 1 /\ tokens[2][1].kind \in {"success", "failure"}
        THEN [kind |-> tokens[2][1].kind, of |-> tokens[1][1].of]
        ELSE [kind |-> IF \A i \in 1..Len(line) : line[i].kind = "csv" THEN "audit" ELSE "broken", of |-> line[1].of]

\* What BufRead::lines yields, the unfinished last line included.
Lines == IF current = <<>> THEN log ELSE Append(log, ParseLastLogLine(current))

\* Mutant: reading stops at the first line that is not the module's.
MutantStopsEarly ==
    LET foreign == SelectInSeq(Lines, LAMBDA line : line.kind \in {"audit", "broken"})
        last == SelectLastInSeq(IF foreign = 0 THEN Lines ELSE SubSeq(Lines, 1, foreign),
                                LAMBDA line : line.kind = "success")
    IN  IF last = 0 THEN 0 ELSE Lines[last].of

\* read_last_successful_unlock
ReadLastSuccessfulUnlock ==
    LET last == SelectLastInSeq(Lines, LAMBDA line : line.kind = "success")
    IN  IF last = 0 THEN 0 ELSE Lines[last].of

\* read_last_unlock: the last line, whether it parses or not.
ReadLastUnlock ==
    IF Lines = <<>> THEN "no-entries"
    ELSE IF Last(Lines).kind \in {"success", "failure"} THEN "entry" ELSE "unparseable"

\* probe_audit_log_tail: the last lines of the first MaxRead.
LastOf(lines, n) == SubSeq(lines, IF Len(lines) > n THEN Len(lines) - n + 1 ELSE 1, Len(lines))
ProbeAuditLogTail == LastOf(SubSeq(Lines, 1, IF Len(Lines) > MaxRead THEN MaxRead ELSE Len(Lines)), Tail10)

-----------------------------------------------------------------------------
(* Callers                                                                 *)

\* first_bonded, newest_bonded_peer: the newest record that is Bonded.
NewestBonded == CHOOSE p \in bonded : \A q \in bonded : q <= p

Logs(c, outcome) ==
    /\ verdict' = [verdict EXCEPT ![c] = outcome]
    /\ IF c \in Pam THEN call' = [call EXCEPT ![c] = "logging"] /\ left' = [left EXCEPT ![c] = 6]
                    ELSE call' = [call EXCEPT ![c] = "returned"] /\ UNCHANGED left

\* resolve_peer_id: without a bonded peer nothing is asked.
ResolvePeer(c) ==
    /\ call[c] = "idle"
    /\ IF bonded = {}
       THEN Logs(c, "unavail") /\ UNCHANGED peer
       ELSE /\ peer' = [peer EXCEPT ![c] = NewestBonded]
            /\ call' = [call EXCEPT ![c] = "connect"]
            /\ UNCHANGED <<verdict, left>>
    /\ UNCHANGED <<bonded, daemon, log, current, session, latest, mixed>>

\* pam_login_uid finds no user: nothing is logged.
NoPamUser(c) ==
    /\ call[c] = "idle" /\ c \in Pam
    /\ call' = [call EXCEPT ![c] = "returned"]
    /\ verdict' = [verdict EXCEPT ![c] = "unavail"]
    /\ UNCHANGED <<bonded, peer, daemon, left, log, current, session, latest, mixed>>

\* connect, which waits while the listener's backlog is full, and the write of the request.
Connect(c) ==
    /\ call[c] = "connect"
    /\ Cardinality({k \in Call : daemon[k] = "queued"}) < Backlog
    /\ call' = [call EXCEPT ![c] = "waiting"]
    /\ daemon' = [daemon EXCEPT ![c] = "queued"]
    /\ UNCHANGED <<bonded, peer, verdict, left, log, current, session, latest, mixed>>

\* No socket, or nobody listening.
ConnectFails(c) ==
    /\ call[c] = "connect"
    /\ Logs(c, "unavail")
    /\ UNCHANGED <<bonded, peer, daemon, log, current, session, latest, mixed>>

\* Mutant: the response is awaited for as long as it takes.
MutantNoReadTimeout(c) ==
    /\ call[c] = "waiting" /\ daemon[c] = "none"
    /\ Logs(c, "unavail")
    /\ UNCHANGED <<bonded, peer, daemon, log, current, session, latest, mixed>>

\* SO_RCVTIMEO: the daemon may be at work still.
ReadTimesOut(c) ==
    /\ call[c] = "waiting"
    /\ Logs(c, "unavail")
    /\ UNCHANGED <<bonded, peer, daemon, log, current, session, latest, mixed>>

\* outcome_reason_to_pam: a refusal, or a daemon that could not ask.
PamCode(reason) ==
    CASE reason = "ok" -> "success" [] reason = "denied" -> "auth-err" [] OTHER -> "unavail"

\* unlock_session: unlock-request runs loginctl on an ok.
UnlockSession(c) == session' = IF c \in Request /\ daemon[c] = "ok" THEN "unlocked" ELSE session

\* The response.
Answered(c) ==
    /\ call[c] = "waiting" /\ daemon[c] \in Reasons
    /\ Logs(c, PamCode(daemon[c]))
    /\ UnlockSession(c)
    /\ UNCHANGED <<bonded, peer, daemon, log, current, latest, mixed>>

-----------------------------------------------------------------------------
(* Writers                                                                 *)

\* O_APPEND: what one write carries is appended in one piece.
Writes(pieces) ==
    LET line == current \o SelectSeq(pieces, LAMBDA piece : piece.kind # "newline")
    IN  IF Last(pieces).kind = "newline"
        THEN log' = (IF line = <<>> THEN log ELSE Append(log, ParseLastLogLine(line))) /\ current' = <<>>
        ELSE current' = line /\ UNCHANGED log

Unfinished == {k \in Call : left[k] \in 1..5}

\* append_last_log: writeln! of "{ts} {verb} {peer_id}".
Fragment(c) ==
    CASE left[c] = 6 -> "time"
      [] left[c] \in {5, 3} -> "space"
      [] left[c] = 4 -> IF verdict[c] = "success" THEN "success" ELSE "failure"
      [] left[c] = 2 -> "peer"
      [] OTHER -> "newline"

\* One fragment is one write; the last ends the line.
WriteFragment(c) ==
    /\ call[c] = "logging"
    /\ Writes(<<Piece(Fragment(c), c)>>)
    /\ left' = [left EXCEPT ![c] = @ - 1]
    /\ call' = [call EXCEPT ![c] = IF left[c] = 1 THEN "returned" ELSE @]
    /\ latest' = IF left[c] = 2 /\ verdict[c] = "success" THEN c ELSE latest
    /\ mixed' = (mixed \/ Unfinished \ {c} # {})
    /\ UNCHANGED <<bonded, peer, daemon, verdict, session>>

\* The log cannot be opened: the outcome is returned all the same.
LogFails(c) ==
    /\ call[c] = "logging" /\ left[c] = 6
    /\ call' = [call EXCEPT ![c] = "returned"] /\ left' = [left EXCEPT ![c] = 0]
    /\ UNCHANGED <<bonded, peer, daemon, verdict, log, current, session, latest, mixed>>

\* serve accepts and the orchestrator runs the challenge.
Accept(c) ==
    /\ daemon[c] = "queued"
    /\ daemon' = [daemon EXCEPT ![c] = "accepted"]
    /\ UNCHANGED <<bonded, call, peer, verdict, left, log, current, session, latest, mixed>>

\* audit_at, then the response: AuditLog::append writes the record in one write, its failure ignored.
AuditAndRespond(c) ==
    /\ daemon[c] = "accepted"
    /\ \E reason \in Reasons : daemon' = [daemon EXCEPT ![c] = reason]
    /\ \/ Writes(<<Piece("csv", c), Piece("newline", c)>>) /\ mixed' = (mixed \/ Unfinished # {})
       \/ UNCHANGED <<log, current, mixed>>
    /\ UNCHANGED <<bonded, call, peer, verdict, left, session, latest>>

Revoke(p) ==
    /\ p \in bonded
    /\ bonded' = bonded \ {p}
    /\ UNCHANGED <<call, peer, daemon, verdict, left, log, current, session, latest, mixed>>

-----------------------------------------------------------------------------
Init ==
    /\ bonded = Peer
    /\ call = [c \in Call |-> "idle"] /\ peer = [c \in Call |-> 0]
    /\ daemon = [c \in Call |-> "none"] /\ verdict = [c \in Call |-> "none"]
    /\ left = [c \in Call |-> 0]
    /\ log = <<>> /\ current = <<>> /\ session = "locked"
    /\ latest = 0 /\ mixed = FALSE

Caller(c) ==
    \/ ResolvePeer(c) \/ NoPamUser(c) \/ Connect(c) \/ ConnectFails(c) \/ ReadTimesOut(c) \/ Answered(c)
    \/ WriteFragment(c) \/ LogFails(c)

\* The steps of the calls given, of the daemon for them, and of the operator.
Steps(calls) ==
    \/ \E c \in calls : Caller(c) \/ Accept(c) \/ AuditAndRespond(c)
    \/ \E p \in Peer : Revoke(p)

Next == Steps(Call)

Spec == Init /\ [][Next]_vars

\* A caller runs; nothing is assumed of the daemon, and no error is assumed to occur.
Runs(c) == ResolvePeer(c) \/ Connect(c) \/ ReadTimesOut(c) \/ Answered(c) \/ WriteFragment(c)

FairSpec == Spec /\ \A c \in Call : WF_vars(Runs(c))

-----------------------------------------------------------------------------
\* read_last_successful_unlock and append_last_log: as long as no write falls inside another writer's line, status
\* names the last authentication that succeeded, whatever failures and audit records stand around it.
SuccessIsReported == ~mixed => ReadLastSuccessfulUnlock = latest

\* However lines are mixed up, status reports a success only when some PAM call did succeed.
NoSuccessFromNothing ==
    ReadLastSuccessfulUnlock # 0 => \E c \in Pam : verdict[c] = "success"

\* authenticate, unlock_request::run: once started a call ends, though the daemon hangs or dies.
EveryCallReturns == \A c \in Call : call[c] # "idle" ~> call[c] = "returned"

\* Refuted: concurrent writers cannot interleave partial lines.
LinesAreWhole == \A i \in 1..Len(log) : log[i].kind # "broken"

\* Refuted: what status reports as the last success is the time of a call that succeeded.
TimestampIsOwn == ReadLastSuccessfulUnlock # 0 => verdict[ReadLastSuccessfulUnlock] = "success"

\* Refuted: while no PAM call has logged anything, last-unlock reads "(no entries)".
NoEntriesWithoutCalls == (\A c \in Pam : call[c] = "idle") => ReadLastUnlock = "no-entries"

\* Refuted: the doctor's tail ends with the last line of the log.
TailIsRecent == Lines # <<>> => Last(ProbeAuditLogTail) = Last(Lines)
=============================================================================
