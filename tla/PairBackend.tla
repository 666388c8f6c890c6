----------------------------- MODULE PairBackend -----------------------------
(***************************************************************************)
(* BluerPairBackend (pair_backend.rs), the backend of `syauth pair` over   *)
(* BlueZ: the numeric comparison, the phone's key, the control writes and  *)
(* the exchange of coordinate_v2, driven by run_pair_with_io, with the     *)
(* phones around it.  run_pair holds the locks of stdin and stdout while   *)
(* the flow runs; the comparison is answered on a thread of its own.       *)
(***************************************************************************)
EXTENDS Naturals, Sequences, SequencesExt, PairTransaction

CONSTANTS
    Phone,      \* phones in reach
    Handler,    \* the installed confirmation handler: "stdio" or "waybar"
    MaxInbox,   \* bound on the control messages nobody took
    None

VARIABLES
    step,       \* where run_pair is
    comparison, \* the comparison BlueZ asks for: of which phone, and how far it is
    encrypted,  \* phones with an authenticated link
    bound,      \* protocol_peer_address, set with the phone's key
    inbox,      \* protocol_inbox
    published,  \* protocol_status: what a read of the status characteristic returns
    tx,         \* protocol_transaction
    round,      \* the round of coordinate_v2
    sent        \* rounds each phone has answered

vars == <<step, comparison, encrypted, bound, inbox, published, tx, round, sent>>

Messages == [from : Phone, op : Operations]

NoComparison == [phone |-> None, state |-> "none"]

\* The types.
TypeOK ==
    /\ step \in {"scan", "oob", "coordinate", "bonded", "uncertain", "failed"}
    /\ comparison \in [phone : Phone \cup {None}, state : {"none", "asked", "shown"}]
    /\ encrypted \subseteq Phone /\ bound \in Phone \cup {None}
    /\ inbox \in Seq(Messages) /\ Len(inbox) <= MaxInbox
    /\ published \in Operations \cup StatusStates /\ tx \in Transactions
    /\ round \in 0..5 /\ sent \in [Phone -> 0..5]

\* coordinate_v2: in every round a message is published, one is awaited, and the local events that follow it are
\* applied.  From the fourth round on the commit decision is out.
Rounds == <<
    [publish |-> "Capability", wait |-> "Capability", then |-> <<"Capability", "VerifiedExchange", "Confirm">>],
    [publish |-> "Confirm",    wait |-> "Confirm",    then |-> <<"Prepared">>],
    [publish |-> "Prepared",   wait |-> "Prepared",   then |-> <<"Commit">>],
    [publish |-> "Commit",     wait |-> "CommitAck",  then |-> <<>>],
    [publish |-> "Committed",  wait |-> "Committed",  then |-> <<"Committed">>]>>

\* set_transaction_id publishes the status of a new transaction.  Some phones may have paired with BlueZ before.
Init ==
    /\ step = "scan" /\ comparison = NoComparison
    /\ encrypted \in SUBSET Phone /\ bound = None /\ inbox = <<>>
    /\ tx = NewTransaction("Coordinator") /\ published = StatusOf(tx)
    /\ round = 0 /\ sent = [ph \in Phone |-> 0]

Running == step \in {"scan", "oob", "coordinate"}

-----------------------------------------------------------------------------
(* The numeric comparison                                                  *)

\* The agent registered by scan_peers is asked, and hands the handler to a blocking thread.
Asked(ph) ==
    /\ step = "scan" /\ comparison.state = "none" /\ ph \notin encrypted
    /\ comparison' = [phone |-> ph, state |-> "asked"]
    /\ UNCHANGED <<step, encrypted, bound, inbox, published, tx, round, sent>>

\* The stdio handler locks stdout to show the code and stdin to read the answer; the waybar handler needs neither.
Shown ==
    /\ comparison.state = "asked" /\ (Handler = "stdio" => ~Running)
    /\ comparison' = [comparison EXCEPT !.state = "shown"]
    /\ UNCHANGED <<step, encrypted, bound, inbox, published, tx, round, sent>>

\* The answer reaches BlueZ while the agent is registered.
Answer(accepted) ==
    /\ comparison.state = "shown"
    /\ comparison' = NoComparison
    /\ encrypted' = IF accepted /\ step = "scan" THEN encrypted \cup {comparison.phone} ELSE encrypted
    /\ UNCHANGED <<step, bound, inbox, published, tx, round, sent>>

-----------------------------------------------------------------------------
(* scan_peers and initiate_lesc_with_peer                                  *)

\* initiate_lesc_with_peer takes the key, publishes Capability and records it locally.
InitiateLesc ==
    /\ published' = "Capability"
    /\ tx' \in Local(tx, "Capability")
    /\ step' = "oob"

\* The first phone to write its key over an authenticated link is bound, and scan_peers returns it.
PhoneKey(ph) ==
    /\ step = "scan" /\ ph \in encrypted
    /\ bound' = ph
    /\ InitiateLesc
    /\ UNCHANGED <<comparison, encrypted, inbox, round, sent>>

\* PAIR_ADVERTISE_ACCEPT_WINDOW passes, or the write is no key: NoPeers, Backend.
ScanFails ==
    /\ step = "scan"
    /\ step' = "failed"
    /\ UNCHANGED <<comparison, encrypted, bound, inbox, published, tx, round, sent>>

\* The task of the control characteristic: writes of another phone than the bound one are dropped, the others queued.
ControlWrite(ph, op) ==
    /\ Running /\ ph \in encrypted
    /\ inbox' = IF bound = ph THEN Append(inbox, [from |-> ph, op |-> op]) ELSE inbox
    /\ UNCHANGED <<step, comparison, encrypted, bound, published, tx, round>>

\* A nonce-bound status query is answered on the status characteristic and never enters the inbox.
StatusQuery(ph) ==
    /\ Running /\ ph \in encrypted /\ bound = ph
    /\ published' = StatusOf(tx)
    /\ UNCHANGED <<step, comparison, encrypted, bound, inbox, tx, round, sent>>

-----------------------------------------------------------------------------
(* The prompt and coordinate_v2                                            *)

Publish(k) == round' = k /\ published' = Rounds[k].publish

\* The operator accepts: the bond is staged and the exchange begins.
Accept ==
    /\ step = "oob"
    /\ step' = "coordinate" /\ Publish(1)
    /\ UNCHANGED <<comparison, encrypted, bound, inbox, tx, sent>>

Reject ==
    /\ step = "oob"
    /\ step' = "failed"
    /\ UNCHANGED <<comparison, encrypted, bound, inbox, published, tx, round, sent>>

\* let _ = ...: a refused event changes nothing.
Ignoring(t, after) == IF after = {} THEN {t} ELSE after

Fails == step' = IF round >= 4 THEN "uncertain" ELSE "failed"

\* The transactions that accept every event of the sequence in turn.
LocalAll(t, events) == FoldLeft(LAMBDA ts, e : UNION {Local(u, e) : u \in ts}, {t}, events)

\* wait_protocol took the awaited message: it is applied, then the local events; the first refusal ends the flow
\* and its transaction.
Advance ==
    LET after == UNION {LocalAll(u, Rounds[round].then) : u \in Remote(tx, Rounds[round].wait)} IN
    IF after = {} THEN step' = "failed" /\ UNCHANGED <<tx, round, published>>
    ELSE /\ tx' \in after
         /\ IF round < 5 THEN Publish(round + 1) /\ UNCHANGED step
            ELSE step' = "bonded" /\ UNCHANGED <<round, published>>

\* An abort of the phone, whether or not the transaction still takes it, and a message out of order end the wait; once
\* Commit is out, coordinate_v2 records Disconnected after it.
Stop(op) ==
    /\ Fails
    /\ \E t \in IF op \in AbortOps THEN Ignoring(tx, Remote(tx, op)) ELSE {tx} :
          tx' \in IF round >= 4 THEN Ignoring(t, Disconnect(t)) ELSE {t}
    /\ UNCHANGED <<round, published>>

Take ==
    /\ step = "coordinate" /\ inbox # <<>>
    /\ inbox' = Tail(inbox)
    /\ LET op == Head(inbox).op IN
       \/ op = "StatusQuery" /\ published' = StatusOf(tx) /\ UNCHANGED <<step, tx, round>>
       \/ op # "StatusQuery" /\ op = Rounds[round].wait /\ Advance
       \/ op # "StatusQuery" /\ op # Rounds[round].wait /\ Stop(op)
    /\ UNCHANGED <<comparison, encrypted, bound, sent>>

MutantWaitsOn ==
    /\ step = "coordinate" /\ round > 1
    /\ tx' \in Disconnect(tx) /\ Fails
    /\ UNCHANGED <<comparison, encrypted, bound, inbox, published, round, sent>>

\* The wait of PAIR_ADVERTISE_ACCEPT_WINDOW runs out: Disconnected is recorded, once more when Commit is out.
WaitTimesOut ==
    /\ step = "coordinate" /\ Fails
    /\ \E t \in Ignoring(tx, Disconnect(tx)) : tx' \in IF round >= 4 THEN Ignoring(t, Disconnect(t)) ELSE {t}
    /\ UNCHANGED <<comparison, encrypted, bound, inbox, published, round, sent>>

-----------------------------------------------------------------------------
(* The phones                                                              *)

\* The bound phone answers the message it reads.
PhoneAnswers(ph) ==
    /\ sent[ph] < 5 /\ published = Rounds[sent[ph] + 1].publish /\ bound = ph
    /\ sent' = [sent EXCEPT ![ph] = @ + 1]
    /\ ControlWrite(ph, Rounds[sent[ph] + 1].wait)

\* Any phone on an authenticated link may write anything.
PhoneWrites(ph, op) ==
    /\ Len(inbox) < MaxInbox /\ UNCHANGED sent
    /\ ControlWrite(ph, op)

Next ==
    \/ \E ph \in Phone : Asked(ph) \/ PhoneKey(ph) \/ StatusQuery(ph) \/ (Len(inbox) < MaxInbox /\ PhoneAnswers(ph))
    \/ \E ph \in Phone, op \in {"Capability", "Cancel", "StatusQuery"} : PhoneWrites(ph, op)
    \/ Shown
    \/ \E accepted \in BOOLEAN : Answer(accepted)
    \/ ScanFails \/ Accept \/ Reject \/ Take \/ WaitTimesOut

Spec == Init /\ [][Next]_vars

\* The handler's thread runs, the windows of scan_peers and wait_protocol pass, and the inbox is polled.
Fairness == WF_vars(Shown) /\ WF_vars(ScanFails) /\ WF_vars(Take) /\ WF_vars(WaitTimesOut)

FairSpec == Spec /\ Fairness

\* The exchange nothing disturbs: one phone, which does what it is there for and nothing else, an operator who
\* accepts, and no window that passes.
SmoothNext ==
    \/ \E ph \in Phone : Asked(ph) \/ PhoneKey(ph) \/ PhoneAnswers(ph)
    \/ Shown \/ Answer(TRUE) \/ Accept \/ Take

SmoothSpec == Init /\ [][SmoothNext]_vars /\ WF_vars(SmoothNext)

-----------------------------------------------------------------------------
(* Properties                                                              *)

\* Only the phone whose key was taken can feed the exchange ("The query is accepted only from the already-bound
\* authenticated GATT peer").
InboxIsBound ==
    \A i \in 1..Len(inbox) : inbox[i].from = bound

\* Every exchange ends, whatever the phones do.
CoordinationEnds == step = "coordinate" ~> step # "coordinate"

\* Refuted under SmoothSpec: "On Y: write the Bond to disk": an accepted exchange with a willing phone bonds.
AcceptedIsBonded == step = "coordinate" ~> step = "bonded"

\* Refuted for the stdio handler: the comparison is put to the operator while BlueZ still waits for the answer.
ComparisonIsPut == comparison.state = "asked" ~> comparison.state = "shown" /\ step = "scan"

=============================================================================
