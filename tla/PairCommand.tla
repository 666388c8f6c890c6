----------------------------- MODULE PairCommand -----------------------------
(***************************************************************************)
(* The terminal command `syauth pair` (pair.rs): the flow of               *)
(* run_pair_with_io over the PairBackend trait, one step per file-system   *)
(* operation of coordinate_staged_bond, and the numeric comparison put to  *)
(* the operator through the two files of make_waybar_confirm_handler       *)
(* (pair_backend.rs).                                                      *)
(*                                                                         *)
(* Several invocations may run over one bond directory and one runtime     *)
(* directory; no lock is shared, each may die between two steps, and any   *)
(* file operation may fail.  A bond or a key is named by the invocation    *)
(* that made it.  What the trait's methods return is left open; the        *)
(* backend over BlueZ is module PairBackend.                               *)
(***************************************************************************)
EXTENDS Naturals

CONSTANTS
    Process,    \* invocations of `syauth pair`
    Peer,       \* phones
    Old,        \* the maker of the bonds there are at the start
    None,
    MaxRevokes  \* bound on `syauth revoke`

ASSUME PairCommandAssumption ==
    Old \notin Process /\ None \notin Process \cup Peer /\ "torn" \notin Process /\ MaxRevokes \in Nat

Makers == Process \cup {Old}

NoBond == [by |-> None, revoked |-> FALSE]

\* build_bond
BuildBond(p) == [by |-> p, revoked |-> FALSE]

Stores == [Peer -> [by : Makers \cup {None}, revoked : BOOLEAN]]

Steps == {"scan", "request", "poll", "unrequest", "unanswer", "lesc", "oob", "load", "stage_bond",
          "stage_key", "journal", "coordinate", "save", "truncate_key", "write_key", "discard", "ended"}

Results == {"none", "bonded", "refused", "aborted", "uncertain", "already", "io", "dead"}

VARIABLES
    pc,          \* where each invocation is
    result,      \* how it ended, or is about to
    force,       \* whether it runs with --force
    peer,        \* the phone it pairs
    active,      \* bonds.toml
    key,         \* keys/<peer>.bin: its maker, "torn" while it is written
    pending,     \* the staged bond store
    pendingKey,  \* the staged keys
    journal,     \* the recovery journal: always CommitPending
    snapshot,    \* the store each invocation loaded
    request,     \* pair-request.json
    response,    \* pair-response.json
    shown,       \* the request the applet shows
    clicked,     \* history: the requests the operator accepted
    compared,    \* history: what the comparison answered, while the scan goes on
    alone,       \* history: no other invocation staged since this one began to
    revokes

files == <<active, key, pending, pendingKey, journal>>
waybar == <<request, response, shown, clicked>>
history == <<compared, alone>>
vars == <<pc, result, force, peer, files, snapshot, waybar, history, revokes>>

Answers == {"none", "accept", "reject"}

\* The types.
TypeOK ==
    /\ pc \in [Process -> Steps] /\ result \in [Process -> Results]
    /\ force \in [Process -> BOOLEAN] /\ peer \in [Process -> Peer \cup {None}]
    /\ active \in Stores /\ snapshot \in [Process -> Stores]
    /\ key \in [Peer -> Makers \cup {None, "torn"}] /\ pendingKey \in [Peer -> Process \cup {None}]
    /\ pending \in Process \cup {None} /\ journal \in Process \cup {None}
    /\ request \in Process \cup {None} /\ shown \in Process \cup {None}
    /\ response \in [id : Process \cup {None}, decision : Answers]
    /\ clicked \subseteq Process /\ compared \in [Process -> Answers]
    /\ alone \in [Process -> BOOLEAN] /\ revokes \in 0..MaxRevokes

NoResponse == [id |-> None, decision |-> "none"]

Init ==
    /\ pc = [p \in Process |-> "scan"] /\ result = [p \in Process |-> "none"]
    /\ force \in [Process -> BOOLEAN] /\ peer = [p \in Process |-> None]
    /\ \E bonded \in SUBSET Peer :
          /\ active = [x \in Peer |-> IF x \in bonded THEN BuildBond(Old) ELSE NoBond]
          /\ key = [x \in Peer |-> IF x \in bonded THEN Old ELSE None]
    /\ snapshot = [p \in Process |-> [x \in Peer |-> NoBond]]
    /\ pending = None /\ pendingKey = [x \in Peer |-> None] /\ journal = None
    /\ request = None /\ response = NoResponse /\ shown = None
    /\ clicked = {}
    /\ compared = [p \in Process |-> "none"]
    /\ alone = [p \in Process |-> TRUE] /\ revokes = 0

Goto(p, from, to) == pc[p] = from /\ pc' = [pc EXCEPT ![p] = to]

Ends(p, from, how) == Goto(p, from, "ended") /\ result' = [result EXCEPT ![p] = how]

-----------------------------------------------------------------------------
(* The numeric comparison through the waybar applet                        *)

\* BlueZ asks while the scan runs: the handler first removes the response file.
Asked(p) ==
    /\ compared[p] = "none" /\ Goto(p, "scan", "request")
    /\ response' = NoResponse
    /\ UNCHANGED <<result, force, peer, files, snapshot, request, shown, clicked, history, revokes>>

\* The request carries an id of its own: process and time.
Request(p) ==
    /\ Goto(p, "request", "poll")
    /\ request' = p
    /\ UNCHANGED <<result, force, peer, files, snapshot, response, shown, clicked, history, revokes>>

Compared(p, answer) ==
    /\ Goto(p, "poll", "unrequest")
    /\ compared' = [compared EXCEPT ![p] = answer]
    /\ UNCHANGED <<result, force, peer, files, snapshot, waybar, alone, revokes>>

MutantAnyResponse(p) ==
    /\ response # NoResponse
    /\ Compared(p, response.decision)

\* wait_for_decision and parse_decision: a response to another request is no answer.
Poll(p) ==
    /\ response.id = p
    /\ Compared(p, response.decision)

\* PAIR_IPC_DECISION_TIMEOUT rejects.
PollTimeout(p) == Compared(p, "reject")

\* The request cannot be written: reject.
RequestFails(p) ==
    /\ Goto(p, "request", "scan")
    /\ compared' = [compared EXCEPT ![p] = "reject"]
    /\ UNCHANGED <<result, force, peer, files, snapshot, waybar, alone, revokes>>

Unrequest(p) ==
    /\ Goto(p, "unrequest", "unanswer")
    /\ request' = None
    /\ UNCHANGED <<result, force, peer, files, snapshot, response, shown, clicked, history, revokes>>

Unanswer(p) ==
    /\ Goto(p, "unanswer", "scan")
    /\ response' = NoResponse
    /\ UNCHANGED <<result, force, peer, files, snapshot, request, shown, clicked, history, revokes>>

\* The applet shows the request there is; a click answers the request on display, which may be gone by then.
AppletShows ==
    /\ request # None /\ shown = None
    /\ shown' = request
    /\ UNCHANGED <<pc, result, force, peer, files, snapshot, request, response, clicked, history, revokes>>

AppletClick(decision) ==
    /\ shown # None
    /\ response' = [id |-> shown, decision |-> decision]
    /\ clicked' = clicked \cup (IF decision = "accept" THEN {shown} ELSE {})
    /\ shown' = None
    /\ UNCHANGED <<pc, result, force, peer, files, snapshot, request, history, revokes>>

-----------------------------------------------------------------------------
(* run_pair_with_io                                                        *)

\* scan_peers returns one phone that passes --peer.  The phone wrote its key over an authenticated link: one BlueZ had
\* already, or one a comparison has just established.
Scanned(p, x) ==
    /\ active[x].by # None \/ compared[p] = "accept"
    /\ Goto(p, "scan", "lesc")
    /\ peer' = [peer EXCEPT ![p] = x]
    /\ compared' = [compared EXCEPT ![p] = "none"]
    /\ UNCHANGED <<result, force, files, snapshot, waybar, alone, revokes>>

\* No adapter, no LE Secure Connections, no peer, none that matches, or several.
ScanFails(p) ==
    /\ Ends(p, "scan", "aborted")
    /\ UNCHANGED <<force, peer, files, snapshot, waybar, history, revokes>>

\* initiate_lesc_with_peer within --timeout-secs.
Lesc(p) ==
    /\ \/ Goto(p, "lesc", "oob") /\ UNCHANGED result
       \/ Ends(p, "lesc", "aborted")
    /\ UNCHANGED <<force, peer, files, snapshot, waybar, history, revokes>>

\* read_oob_confirmation: anything but yes rejects; --yes and --scripted-oob answer yes.
Oob(p, answer) ==
    /\ pc[p] = "oob"
    /\ IF answer = "accept" THEN Goto(p, "oob", "load") /\ UNCHANGED result ELSE Ends(p, "oob", "refused")
    /\ UNCHANGED <<force, peer, files, snapshot, waybar, history, revokes>>

-----------------------------------------------------------------------------
(* coordinate_staged_bond                                                  *)

\* BondStore::load, and the refusal of a peer the store already has, revoked or not.
Load(p) ==
    /\ pc[p] = "load"
    /\ snapshot' = [snapshot EXCEPT ![p] = active]
    /\ IF active[peer[p]].by # None /\ ~force[p]
       THEN Ends(p, "load", "already")
       ELSE Goto(p, "load", "stage_bond") /\ UNCHANGED result
    /\ UNCHANGED <<force, peer, files, waybar, history, revokes>>

Staged == {"stage_key", "journal", "coordinate", "save", "truncate_key", "write_key", "discard"}

\* The staged store is saved: what others staged is overwritten.
StageBond(p) ==
    /\ Goto(p, "stage_bond", "stage_key")
    /\ pending' = p
    /\ alone' = [q \in Process |-> q = p /\ \A o \in Process \ {p} : pc[o] \notin Staged]
    /\ UNCHANGED <<result, force, peer, active, key, pendingKey, journal, snapshot, waybar, compared, revokes>>

StageKey(p) ==
    /\ Goto(p, "stage_key", "journal")
    /\ pendingKey' = [pendingKey EXCEPT ![peer[p]] = p]
    /\ UNCHANGED <<result, force, peer, active, key, pending, journal, snapshot, waybar, history, revokes>>

Journal(p) ==
    /\ Goto(p, "journal", "coordinate")
    /\ journal' = p
    /\ UNCHANGED <<result, force, peer, active, key, pending, pendingKey, snapshot, waybar, history, revokes>>

\* A file operation before the exchange fails: the error returns at once and leaves what is staged.
StagingFails(p) ==
    /\ pc[p] \in {"load", "stage_bond", "stage_key", "journal"} /\ Ends(p, pc[p], "io")
    /\ UNCHANGED <<force, peer, files, snapshot, waybar, history, revokes>>

MutantKeepsStaging(p) ==
    /\ \/ Goto(p, "coordinate", "save") /\ UNCHANGED result
       \/ Ends(p, "coordinate", "uncertain")
       \/ Ends(p, "coordinate", "aborted")
    /\ UNCHANGED <<force, peer, files, snapshot, waybar, history, revokes>>

\* coordinate_v2: bilateral commit, an outcome nobody knows, or any other error, which drops the staging.
Coordinate(p) ==
    /\ \/ Goto(p, "coordinate", "save") /\ UNCHANGED result
       \/ Ends(p, "coordinate", "uncertain")
       \/ Goto(p, "coordinate", "discard") /\ result' = [result EXCEPT ![p] = "aborted"]
    /\ UNCHANGED <<force, peer, files, snapshot, waybar, history, revokes>>

\* The store loaded before the exchange, with this bond, is saved over whatever is there.
Save(p) ==
    /\ Goto(p, "save", "truncate_key")
    /\ active' = [snapshot[p] EXCEPT ![peer[p]] = BuildBond(p)]
    /\ UNCHANGED <<result, force, peer, key, pending, pendingKey, journal, snapshot, waybar, history, revokes>>

\* write_pam_bond_key writes in place.
TruncateKey(p) ==
    /\ Goto(p, "truncate_key", "write_key")
    /\ key' = [key EXCEPT ![peer[p]] = "torn"]
    /\ UNCHANGED <<result, force, peer, active, pending, pendingKey, journal, snapshot, waybar, history, revokes>>

WriteKey(p) ==
    /\ Goto(p, "write_key", "discard")
    /\ key' = [key EXCEPT ![peer[p]] = p]
    /\ result' = [result EXCEPT ![p] = "bonded"]
    /\ UNCHANGED <<force, peer, active, pending, pendingKey, journal, snapshot, waybar, history, revokes>>

MutantFailureDiscards(p) ==
    /\ pc[p] \in {"save", "truncate_key", "write_key"}
    /\ Goto(p, pc[p], "discard") /\ result' = [result EXCEPT ![p] = "uncertain"]
    /\ UNCHANGED <<force, peer, files, snapshot, waybar, history, revokes>>

\* The activation fails: ProtocolUncertain, and the journal stays.
ActivationFails(p) ==
    /\ pc[p] \in {"save", "truncate_key", "write_key"} /\ Ends(p, pc[p], "uncertain")
    /\ UNCHANGED <<force, peer, files, snapshot, waybar, history, revokes>>

\* discard_all: the staged key is that of the peer the staged store names.
Discard(p) ==
    /\ Goto(p, "discard", "ended")
    /\ pendingKey' = IF pending = None THEN pendingKey ELSE [pendingKey EXCEPT ![peer[pending]] = None]
    /\ pending' = None /\ journal' = None
    /\ UNCHANGED <<result, force, peer, active, key, snapshot, waybar, history, revokes>>

\* The process is killed, or the machine stops.
Dies(p) ==
    /\ pc[p] # "ended" /\ Ends(p, pc[p], "dead")
    /\ UNCHANGED <<force, peer, files, snapshot, waybar, history, revokes>>

\* run_revoke, whole: load, mark, save.
Revoke(x) ==
    /\ revokes < MaxRevokes /\ revokes' = revokes + 1
    /\ active[x].by # None /\ ~active[x].revoked
    /\ active' = [active EXCEPT ![x].revoked = TRUE]
    /\ UNCHANGED <<pc, result, force, peer, key, pending, pendingKey, journal, snapshot, waybar, history>>

Comparing(p) == Request(p) \/ Poll(p) \/ PollTimeout(p) \/ RequestFails(p) \/ Unrequest(p) \/ Unanswer(p)

Staging(p) == Load(p) \/ StageBond(p) \/ StageKey(p) \/ Journal(p) \/ StagingFails(p) \/ Coordinate(p)

Activation(p) == Save(p) \/ TruncateKey(p) \/ WriteKey(p) \/ ActivationFails(p) \/ Discard(p)

Next ==
    \/ \E p \in Process : Asked(p) \/ Comparing(p) \/ ScanFails(p) \/ Lesc(p) \/ Staging(p) \/ Activation(p) \/ Dies(p)
    \/ \E p \in Process, x \in Peer : Scanned(p, x)
    \/ \E p \in Process, answer \in {"accept", "reject"} : Oob(p, answer)
    \/ AppletShows
    \/ \E decision \in {"accept", "reject"} : AppletClick(decision)
    \/ \E x \in Peer : Revoke(x)

Spec == Init /\ [][Next]_vars

\* The handler's thread runs and its deadline passes; file operations and the backend's calls return, within their
\* windows.  Nothing is asked of BlueZ, the applet, or the operator.
Fairness(p) == WF_vars(Comparing(p)) /\ WF_vars(Staging(p) \/ Activation(p) \/ Lesc(p))

FairSpec == Spec /\ \A p \in Process : Fairness(p)

-----------------------------------------------------------------------------
(* Properties                                                              *)

\* A comparison is accepted only when the operator clicked accept on this invocation's own request: no answer left
\* behind by, or meant for, another invocation is taken (parse_decision: "for a different request_id").
AcceptIsOwn ==
    \A p \in Process : compared[p] = "accept" => p \in clicked

\* "On N or timeout: do NOT write the bond": an invocation that ended refused, aborted or on a peer already bonded
\* has put nothing into the store, the keys or the recovery files, whatever the others did meanwhile.
FailureLeavesNothing ==
    \A p \in Process : pc[p] = "ended" /\ result[p] \in {"refused", "aborted", "already"} =>
        /\ \A x \in Peer : p \notin {active[x].by, key[x]}
        /\ p \notin {pending, journal}

\* A bond whose key is missing, torn or of an older bond is always recoverable from the journal and the staged files,
\* however the invocation failed or died, as long as no other one staged after it ("a key of the wrong length is
\* worse than no key at all").
BondHasKeyOrJournal ==
    \A x \in Peer :
        LET b == active[x].by IN
        b \in Process /\ key[x] # b /\ alone[b] => {journal, pending, pendingKey[x]} = {b}

\* The handler always answers BlueZ, applet or none.
ComparisonEnds ==
    \A p \in Process : pc[p] = "poll" ~> pc[p] # "poll"

\* Refuted: a revocation is undone only by pairing that phone again.
RevocationIsKept ==
    [][\A x \in Peer : active[x].revoked => active'[x].revoked \/ active'[x].by # active[x].by]_vars

\* Refuted: the operator "either revokes and re-runs, or re-runs with --force".
RevokedCanBePaired ==
    \A p \in Process : result[p] = "already" => ~snapshot[p][peer[p]].revoked

\* Refuted: as BondHasKeyOrJournal, beside other invocations.
BondHasKeyOrJournalAlways ==
    \A x \in Peer :
        LET b == active[x].by IN
        b \in Process /\ key[x] # b => {journal, pending, pendingKey[x]} = {b}

\* Refuted: --timeout-secs is the "ProvisionalBonded -> Revoked deadline", so a prompt nobody answers expires.
PromptExpires ==
    \A p \in Process : pc[p] = "oob" ~> pc[p] # "oob"

=============================================================================
