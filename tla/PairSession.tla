----------------------------- MODULE PairSession -----------------------------
(***************************************************************************)
(* One phone pairing with one desktop, attempt after attempt:              *)
(*   the desktop engine, run_pair_session and drive_pair_transaction, over *)
(*     PairServiceState           crates/syauth-transport/src/pair_engine.rs*)
(*   the phone driver, pickPeer, runPostBondExchange, coordinateTransaction*)
(*     and recoverTransaction           .../pair/impl/RealPairBackend.kt   *)
(*   the bond directory and the commit consumer, from TrustStore.          *)
(*                                                                         *)
(* The desktop speaks through a last-value register the phone polls, the   *)
(* phone through writes that are appended to an inbox.  Either program may *)
(* die and restart; any wait may time out; a write or a read of the phone  *)
(* may fail whether or not it reached the desktop; a file operation may    *)
(* fail; either operator may refuse.                                       *)
(***************************************************************************)
EXTENDS TrustStore, PairTransaction, Sequences

CONSTANTS
  Phone,     \* the peer id of the phone
  Faults,    \* which of "timeout", "refuse", "link", "io", "crash" happen
  MaxFaults, \* bound: failing transfers, failing file operations, crashes
  MaxRun     \* bound: how often the phone's operator starts a pairing

ASSUME SessionAssumption ==
  /\ Phone \in Peer
  /\ "daemon" \in Process
  /\ MaxFaults \in Nat
  /\ MaxRun \in Nat

VARIABLES
  tx,      \* tx[a][r]: the transaction of side r for attempt a
  sent,    \* sent[a][r]: the operations side r sent for a (history)
  engine,  \* the desktop engine: where it is, and the attempt it drives
  outcome, \* outcome[a]: what drive_pair_transaction returned
  service, \* PairServiceState, and the phone-pubkey writes not yet taken
  phone,   \* the phone's driver: where it is, and its transaction id
  flash,   \* the phone's storage: saved transaction, peer address, bond
  used     \* bounds spent: runs and faults; a restarted app has to recover

vars == <<disk, job, tx, sent, engine, outcome, service, phone, flash, used>>

-----------------------------------------------------------------------------
Messages == [id : Attempt, op : Operations]

(* The status register.  "seen" records that a read returned this value.    *)
EmptyRegister == [id |-> NoAttempt, op |-> "empty", seen |-> TRUE]
Registers == [id : Attempt, op : Operations, seen : BOOLEAN] \cup {EmptyRegister}

NoSession == [id |-> NoAttempt, status |-> "Unknown"]

FreshService ==
  [status |-> EmptyRegister, unread |-> FALSE, inbox |-> <<>>, session |-> NoSession]

EngineAwaits ==
  [cap_wait |-> "Capability", confirm_wait |-> "Confirm", prepared_wait |-> "Prepared",
   ack_wait |-> "CommitAck", committed_wait |-> "Committed"]

EnginePublishes ==
  [cap_pub |-> "Capability", confirm_pub |-> "Confirm", prepared_pub |-> "Prepared",
   commit_pub |-> "Commit", committed_pub |-> "Committed"]

EnginePcs == DOMAIN EngineAwaits \cup DOMAIN EnginePublishes \cup
  {"idle", "oob", "staging", "marking", "promoting", "discarding",
   "error_pub", "rejected", "failed", "aborted"}

Outcomes == {"none", "Bonded", "Rejected", "Aborted", "Uncertain", "Persistence"}

PhoneWrites ==
  [cap_write |-> "Capability", confirm_write |-> "Confirm", prepared_write |-> "Prepared",
   ack_write |-> "CommitAck", committed_write |-> "Committed"]

PhoneAwaits ==
  [confirm_wait |-> "Confirm", prepared_wait |-> "Prepared",
   commit_wait |-> "Commit", committed_wait |-> "Committed"]

PhoneLocals ==
  [confirm |-> "Confirm", prepare |-> "Prepared", ack |-> "CommitAck", commit |-> "Committed"]

(* Mutation of After: COMMIT_ACK is sent before the local event. *)
AfterAckEarly ==
  [exchange |-> "cap_read", cap_read |-> "cap_write", cap_write |-> "oob", oob |-> "join",
   join |-> "confirm", confirm |-> "confirm_write", confirm_write |-> "confirm_wait",
   confirm_wait |-> "prepare", prepare |-> "prepared_write",
   prepared_write |-> "prepared_wait", prepared_wait |-> "commit_wait",
   commit_wait |-> "persist", persist |-> "ack_write", ack_write |-> "ack",
   ack |-> "committed_wait", committed_wait |-> "commit",
   commit |-> "committed_write", committed_write |-> "idle"]

(* coordinateTransaction is a straight line; every failure leaves it. *)
After ==
  [exchange |-> "cap_read", cap_read |-> "cap_write", cap_write |-> "oob", oob |-> "join",
   join |-> "confirm", confirm |-> "confirm_write", confirm_write |-> "confirm_wait",
   confirm_wait |-> "prepare", prepare |-> "prepared_write",
   prepared_write |-> "prepared_wait", prepared_wait |-> "commit_wait",
   commit_wait |-> "persist", persist |-> "ack", ack |-> "ack_write",
   ack_write |-> "committed_wait", committed_wait |-> "commit",
   commit |-> "committed_write", committed_write |-> "idle"]

IdlePhone == [pc |-> "idle", id |-> NoAttempt, reading |-> FALSE]

SessionTypeOK ==
  /\ StoreTypeOK
  /\ tx \in [Attempt -> [Roles -> Transactions]]
  /\ sent \in [Attempt -> [Roles -> SUBSET Operations]]
  /\ engine \in [pc : EnginePcs, id : AttemptOrNone]
  /\ outcome \in [Attempt -> Outcomes]
  /\ service.status \in Registers
  /\ service.unread \in BOOLEAN
  /\ service.inbox \in Seq(Messages)
  /\ service.session \in [id : Attempt, status : StatusStates] \cup {NoSession}
  /\ service.writes \in 0..MaxRun
  /\ phone \in [pc : DOMAIN After \cup {"idle"}, id : AttemptOrNone, reading : BOOLEAN]
  /\ flash \in [state : AttemptOrNone, address : BOOLEAN, bond : AttemptOrNone]
  /\ used \in [runs : 0..MaxRun, faults : 0..MaxFaults, restarted : BOOLEAN]

Init ==
  /\ StoreInit
  /\ tx = [a \in Attempt |-> [r \in Roles |-> NewTransaction(r)]]
  /\ sent = [a \in Attempt |-> [r \in Roles |-> {}]]
  /\ engine = [pc |-> "idle", id |-> NoAttempt]
  /\ outcome = [a \in Attempt |-> "none"]
  /\ service = [f \in DOMAIN FreshService \cup {"writes"} |->
                  IF f = "writes" THEN 0 ELSE FreshService[f]]
  /\ phone = IdlePhone
  /\ flash = [state |-> NoAttempt, address |-> FALSE, bond |-> NoAttempt]
  /\ used = [runs |-> 0, faults |-> 0, restarted |-> FALSE]

-----------------------------------------------------------------------------
(* The next value of "used" when fault f strikes, if it still may. *)
Strike(f) ==
  /\ f \in Faults
  /\ used.faults < MaxFaults
  /\ used' = [used EXCEPT !.faults = @ + 1]

(* A transaction call of side r for attempt a: the successors, {} on error. *)
Applied(a, r, results) == \E t \in results : tx' = [tx EXCEPT ![a][r] = t]

Sent(a, r, op) == sent' = [sent EXCEPT ![a][r] = @ \cup {op}]

Cur == engine.id
Dtx == tx[Cur]["Coordinator"]

EngineAt(pc) == engine.pc = pc
EngineTo(pc) == engine' = [engine EXCEPT !.pc = pc]
Return(result) == EngineTo("idle") /\ outcome' = [outcome EXCEPT ![Cur] = result]

DaemonJob(step) == job' = [job EXCEPT !["daemon"] = Started(step, Phone, Cur)]
JobEnded(step) == job["daemon"].step = step /\ job' = [job EXCEPT !["daemon"] = NoJob]

(* publish: the register takes the message whether or not the last was read.*)
Publish(op) ==
  /\ service' = [service EXCEPT
       !.status = [id |-> Cur, op |-> op, seen |-> FALSE], !.unread = TRUE]
  /\ Sent(Cur, "Coordinator", op)

(* publish_paced: wait for the read, but no longer than the deadline. *)
PublishPaced(op) ==
  /\ service.unread => "timeout" \in Faults
  /\ Publish(op)

(* remember_session, evaluated after the transaction call of the same step. *)
Remember(base) ==
  service' = [base EXCEPT !.session = [id |-> Cur, status |-> StatusOf(tx'[Cur]["Coordinator"])]]

(* take_message: the oldest frame of this attempt; other ids stay behind. *)
Mine == {i \in DOMAIN service.inbox : service.inbox[i].id = Cur}
Oldest == {i \in Mine : \A j \in Mine : i <= j}
Taken(i) ==
  [service EXCEPT !.inbox = SubSeq(@, 1, i - 1) \o SubSeq(@, i + 1, Len(@))]

(* wait_for_operation: the service state once the awaited operation was     *)
(* taken, or once the wait failed on another operation or at its deadline.  *)
Received(pc) ==
  {Taken(i) : i \in {j \in Oldest : EngineAt(pc) /\ service.inbox[j].op = EngineAwaits[pc]}}

WaitFailed(pc) ==
  {Taken(i) : i \in {j \in Oldest : EngineAt(pc) /\ service.inbox[j].op # EngineAwaits[pc]}}
    \cup IF EngineAt(pc) /\ Mine = {} /\ "timeout" \in Faults THEN {service} ELSE {}

-----------------------------------------------------------------------------
(* The desktop engine.                                                      *)
phoneVars == <<phone, flash, used>>

(* run_pair_attempt: a phone-pubkey write opens a fresh attempt. *)
BeginSession ==
  /\ EngineAt("idle")
  /\ service.writes > 0
  /\ Cur + 1 \in Attempt
  /\ engine' = [pc |-> "cap_pub", id |-> Cur + 1]
  /\ service' = [f \in DOMAIN service |->
                   IF f = "writes" THEN service.writes - 1 ELSE FreshService[f]]
  /\ UNCHANGED <<disk, job, tx, sent, outcome, phoneVars>>

AfterPublish ==
  [cap_pub |-> "cap_wait", confirm_pub |-> "confirm_wait", prepared_pub |-> "marking",
   commit_pub |-> "ack_wait", committed_pub |-> "committed_wait"]

EnginePublish ==
  /\ \E pc \in DOMAIN EnginePublishes :
       /\ EngineAt(pc)
       /\ PublishPaced(EnginePublishes[pc])
       /\ EngineTo(AfterPublish[pc])
       /\ IF pc = "prepared_pub" THEN DaemonJob("mark_read") ELSE UNCHANGED job
  /\ UNCHANGED <<disk, tx, outcome, phoneVars>>

(* The three calls that open a transaction, in the order both drivers make. *)
Joined(role) ==
  UNION {UNION {Local(t2, "VerifiedExchange") : t2 \in Local(t1, "Capability")} :
           t1 \in Remote(NewTransaction(role), "Capability")}

EngineCapability ==
  /\ Received("cap_wait") # {}
  /\ Applied(Cur, "Coordinator", Joined("Coordinator"))
  /\ \E s \in Received("cap_wait") : Remember(s)
  /\ EngineTo("oob")
  /\ UNCHANGED <<disk, job, sent, outcome, phoneVars>>

EngineConfirmed ==
  /\ service' \in Received("confirm_wait")
  /\ Applied(Cur, "Coordinator", Remote(Dtx, "Confirm"))
  /\ EngineTo("staging")
  /\ DaemonJob("stage_bond")
  /\ UNCHANGED <<disk, sent, outcome, phoneVars>>

EnginePrepared ==
  /\ service' \in Received("prepared_wait")
  /\ Applied(Cur, "Coordinator", Remote(Dtx, "Prepared"))
  /\ EngineTo("prepared_pub")
  /\ UNCHANGED <<disk, job, sent, outcome, phoneVars>>

EngineCommitAck ==
  /\ Received("ack_wait") # {}
  /\ Applied(Cur, "Coordinator", Remote(Dtx, "CommitAck"))
  /\ \E s \in Received("ack_wait") : Remember(s)
  /\ EngineTo("committed_pub")
  /\ UNCHANGED <<disk, job, sent, outcome, phoneVars>>

EngineCommitted ==
  /\ service' \in Received("committed_wait")
  /\ Applied(Cur, "Coordinator", Remote(Dtx, "Committed"))
  /\ EngineTo("promoting")
  /\ DaemonJob("promote_load")
  /\ UNCHANGED <<disk, sent, outcome, phoneVars>>

(* Mutation of EngineDrops: the wait starts again after its deadline. *)
EngineDropsRetries ==
  /\ service' \in WaitFailed("cap_wait") \cup WaitFailed("confirm_wait")
  /\ UNCHANGED <<disk, job, tx, sent, engine, outcome, phoneVars>>

(* A failed wait before anything is staged: return, tell nobody. *)
EngineDrops ==
  /\ service' \in WaitFailed("cap_wait") \cup WaitFailed("confirm_wait")
  /\ Return("Aborted")
  /\ UNCHANGED <<disk, job, tx, sent, phoneVars>>

(* abort_with_discard, after a failed wait of PREPARED and of COMMIT_ACK    *)
(* alike: publish ERROR, abort the transaction, discard the staging.        *)
EngineAborts ==
  /\ service' \in WaitFailed("prepared_wait") \cup WaitFailed("ack_wait")
  /\ EngineTo("error_pub")
  /\ UNCHANGED <<disk, job, tx, sent, outcome, phoneVars>>

(* Mutation of EngineUncertain: handled like the earlier waits. *)
EngineUncertainDiscards ==
  /\ service' \in WaitFailed("committed_wait")
  /\ EngineTo("error_pub")
  /\ UNCHANGED <<disk, job, tx, sent, outcome, phoneVars>>

(* A failed wait for COMMITTED: the outcome is unknown, the staging stays.  *)
EngineUncertain ==
  /\ WaitFailed("committed_wait") # {}
  /\ Applied(Cur, "Coordinator", Local(Dtx, "Disconnected"))
  /\ \E s \in WaitFailed("committed_wait") : Remember(s)
  /\ Return("Uncertain")
  /\ UNCHANGED <<disk, job, sent, phoneVars>>

(* request_oob_confirmation: the desktop operator's answer. *)
EngineOobYes ==
  /\ EngineAt("oob")
  /\ Applied(Cur, "Coordinator", Local(Dtx, "Confirm"))
  /\ EngineTo("confirm_pub")
  /\ UNCHANGED <<disk, job, sent, outcome, service, phoneVars>>

EngineOobNo ==
  /\ EngineAt("oob")
  /\ "refuse" \in Faults
  /\ Publish("Reject")
  /\ EngineTo("rejected")
  /\ UNCHANGED <<disk, job, tx, outcome, phoneVars>>

(* The commit consumer's answers to Stage, MarkCommit, Promote and Discard. *)
EngineStaged ==
  /\ EngineAt("staging")
  /\ JobEnded("ok")
  /\ Applied(Cur, "Coordinator", Local(Dtx, "Prepared"))
  /\ EngineTo("prepared_wait")
  /\ UNCHANGED <<disk, sent, outcome, service, phoneVars>>

EngineMarked ==
  /\ EngineAt("marking")
  /\ JobEnded("ok")
  /\ Applied(Cur, "Coordinator", Local(Dtx, "Commit"))
  /\ EngineTo("commit_pub")
  /\ UNCHANGED <<disk, sent, outcome, service, phoneVars>>

EngineNotDurable ==
  /\ EngineAt("staging") \/ EngineAt("marking")
  /\ JobEnded("failed")
  /\ Publish("Error")
  /\ EngineTo("failed")
  /\ UNCHANGED <<disk, tx, outcome, phoneVars>>

EnginePromoted ==
  /\ EngineAt("promoting")
  /\ \/ /\ JobEnded("ok")
        /\ Applied(Cur, "Coordinator", Local(Dtx, "Committed"))
        /\ Return("Bonded")
     \/ /\ JobEnded("failed")
        /\ Applied(Cur, "Coordinator", Local(Dtx, "Disconnected"))
        /\ Return("Persistence")
  /\ Remember(service)
  /\ UNCHANGED <<disk, sent, phoneVars>>

EngineDiscarded ==
  /\ EngineAt("discarding")
  /\ JobEnded("ok")
  /\ Return("Aborted")
  /\ UNCHANGED <<disk, tx, sent, service, phoneVars>>

(* The abort of the transaction that follows a published REJECT or ERROR.   *)
EngineErrorPublished ==
  /\ EngineAt("error_pub")
  /\ Publish("Error")
  /\ EngineTo("aborted")
  /\ UNCHANGED <<disk, job, tx, outcome, phoneVars>>

EngineAborted ==
  /\ \E pc \in {"rejected", "failed", "aborted"} :
       /\ EngineAt(pc)
       /\ CASE pc = "rejected" -> Return("Rejected") /\ UNCHANGED job
            [] pc = "failed"   -> Return("Persistence") /\ UNCHANGED job
            [] pc = "aborted"  -> EngineTo("discarding") /\ DaemonJob("discard_journal")
                                    /\ UNCHANGED outcome
  /\ Applied(Cur, "Coordinator", Local(Dtx, "Abort"))
  /\ Remember(service)
  /\ UNCHANGED <<disk, sent, phoneVars>>

DaemonStores ==
  /\ StoreStep("daemon")
  /\ UNCHANGED <<tx, sent, engine, outcome, service, phoneVars>>

DaemonIoFails ==
  /\ Strike("io")
  /\ IoFails("daemon")
  /\ UNCHANGED <<tx, sent, engine, outcome, service, phone, flash>>

(* The daemon dies and is restarted: only the bond directory survives.      *)
DaemonCrash ==
  /\ Strike("crash")
  /\ engine' = [engine EXCEPT !.pc = "idle"]
  /\ service' = [f \in DOMAIN service |-> IF f = "writes" THEN 0 ELSE FreshService[f]]
  /\ job' = [job EXCEPT !["daemon"] = NoJob]
  /\ UNCHANGED <<disk, tx, sent, outcome, phone, flash>>

-----------------------------------------------------------------------------
(* The phone.                                                               *)
desktopVars == <<disk, job, engine, outcome>>

PhoneAt(pc) == phone.pc = pc
PhoneTo(pc) == phone' = [phone EXCEPT !.pc = pc, !.reading = FALSE]
PhoneFails == phone' = IdlePhone
Ptx == tx[phone.id]["Participant"]

(* writeTransactionMessage: what the desktop's accept_control makes of it,  *)
(* whatever the phone is told about the write.                              *)
Delivered(op) ==
  /\ service' = [service EXCEPT !.inbox = Append(@, [id |-> phone.id, op |-> op])]
  /\ Sent(phone.id, "Participant", op)

(* onPeerPicked and pickPeer: the address is stored before anything else.   *)
PickPeer ==
  /\ PhoneAt("idle")
  /\ used.runs < MaxRun
  /\ used' = [used EXCEPT !.runs = @ + 1]
  /\ flash' = [flash EXCEPT !.address = TRUE]
  /\ phone' = [IdlePhone EXCEPT !.pc = "exchange"]
  /\ UNCHANGED <<desktopVars, tx, sent, service>>

(* exchangePubkeys: the phone-pubkey write; a failed exchange may still     *)
(* have delivered it.                                                       *)
ExchangePubkeys ==
  /\ PhoneAt("exchange")
  /\ \/ /\ service' = [service EXCEPT !.writes = @ + 1]
        /\ \/ PhoneTo(After["exchange"]) /\ UNCHANGED used
           \/ PhoneFails /\ Strike("link")
     \/ UNCHANGED service /\ PhoneFails /\ Strike("link")
  /\ UNCHANGED <<desktopVars, tx, sent, flash>>

(* readTransactionMessage, in the two steps of the desktop's                *)
(* status_snapshot: the unread mark is cleared, then the register is read.  *)
ReadBegins ==
  /\ phone.pc \in {"cap_read"} \cup DOMAIN PhoneAwaits
  /\ ~phone.reading
  /\ phone' = [phone EXCEPT !.reading = TRUE]
  /\ service' = [service EXCEPT !.unread = FALSE]
  /\ UNCHANGED <<desktopVars, tx, sent, flash, used>>

(* runPostBondExchange takes its transaction id from the first read. *)
ReadCapability ==
  /\ PhoneAt("cap_read")
  /\ phone.reading
  /\ IF service.status.op = "Capability"
     THEN phone' = [pc |-> After["cap_read"], id |-> service.status.id, reading |-> FALSE]
     ELSE PhoneFails
  /\ service' = [service EXCEPT !.status.seen = TRUE]
  /\ UNCHANGED <<desktopVars, tx, sent, flash, used>>

(* waitFor: the expected operation is applied, another one of this attempt  *)
(* is polled past, an abort or anything foreign ends the transaction.       *)
ReadEnds ==
  /\ phone.pc \in DOMAIN PhoneAwaits
  /\ phone.reading
  /\ LET v == service.status
         ours == v.id = phone.id /\ v.op \notin StatusOps
         next == Remote(Ptx, v.op)
     IN  IF ours /\ v.op = PhoneAwaits[phone.pc] /\ next # {}
         THEN Applied(phone.id, "Participant", next) /\ PhoneTo(After[phone.pc])
         ELSE /\ UNCHANGED tx
              /\ IF ours /\ v.op \notin AbortOps \cup {PhoneAwaits[phone.pc]}
                 THEN PhoneTo(phone.pc) ELSE PhoneFails
  /\ service' = [service EXCEPT !.status.seen = TRUE]
  /\ UNCHANGED <<desktopVars, sent, flash, used>>

(* Mutation of PhoneTimesOut: the poll counter starts again. *)
PhoneTimesOutRetries ==
  /\ phone.pc \in DOMAIN PhoneAwaits
  /\ ~phone.reading
  /\ "timeout" \in Faults
  /\ PhoneTo(phone.pc)
  /\ UNCHANGED <<desktopVars, tx, sent, service, flash, used>>

(* waitFor runs out of steps. *)
PhoneTimesOut ==
  /\ phone.pc \in DOMAIN PhoneAwaits
  /\ ~phone.reading
  /\ "timeout" \in Faults
  /\ PhoneFails
  /\ UNCHANGED <<desktopVars, tx, sent, service, flash, used>>

ReadFails ==
  /\ phone.reading
  /\ Strike("link")
  /\ PhoneFails
  /\ UNCHANGED <<desktopVars, tx, sent, service, flash>>

PhoneWritesOp ==
  /\ phone.pc \in DOMAIN PhoneWrites
  /\ Delivered(PhoneWrites[phone.pc])
  /\ IF PhoneAt("committed_write")
     THEN PhoneFails /\ flash' = [flash EXCEPT !.state = NoAttempt]  \* the transaction is over
     ELSE PhoneTo(After[phone.pc]) /\ UNCHANGED flash
  /\ UNCHANGED <<desktopVars, tx, used>>

WriteFails ==
  /\ phone.pc \in DOMAIN PhoneWrites
  /\ Strike("link")
  /\ Delivered(PhoneWrites[phone.pc]) \/ UNCHANGED <<service, sent>>
  /\ PhoneFails
  /\ UNCHANGED <<desktopVars, tx, flash>>

(* onOobYesTapped, and onOobNoTapped or onCancelTapped: abortTransaction.   *)
PhoneOobYes ==
  /\ PhoneAt("oob")
  /\ PhoneTo(After["oob"])
  /\ UNCHANGED <<desktopVars, tx, sent, service, flash, used>>

PhoneOobNo ==
  /\ PhoneAt("oob")
  /\ "refuse" \in Faults
  /\ \E op \in {"Reject", "Cancel"} : Delivered(op)
  /\ PhoneFails
  /\ UNCHANGED <<desktopVars, tx, flash, used>>

(* coordinateTransaction starts: a snapshot of another attempt is discarded,*)
(* and the peer address with it; a snapshot of this attempt is resumed.     *)
PhoneJoins ==
  /\ PhoneAt("join")
  /\ IF flash.state = phone.id THEN UNCHANGED <<tx, flash>>
     ELSE /\ Applied(phone.id, "Participant", Joined("Participant"))
          /\ flash' = [flash EXCEPT !.state = phone.id, !.address = FALSE]
  /\ PhoneTo(After["join"])
  /\ UNCHANGED <<desktopVars, sent, service, used>>

(* local(event): the new state is saved before the next message is sent.    *)
PhoneLocal ==
  /\ phone.pc \in DOMAIN PhoneLocals
  /\ LET next == Local(Ptx, PhoneLocals[phone.pc])
     IN  IF next = {} THEN PhoneFails /\ UNCHANGED tx
         ELSE Applied(phone.id, "Participant", next) /\ PhoneTo(After[phone.pc])
  /\ UNCHANGED <<desktopVars, sent, service, flash, used>>

(* persistCommitted: the phone's single bond record is replaced atomically. *)
PersistBond ==
  /\ PhoneAt("persist")
  /\ \/ /\ flash' = [flash EXCEPT !.bond = phone.id]
        /\ PhoneTo(After["persist"])
        /\ UNCHANGED used
     \/ PhoneFails /\ Strike("io") /\ UNCHANGED flash
  /\ UNCHANGED <<desktopVars, tx, sent, service>>

(* The app is killed and opened again: only its storage survives. *)
PhoneCrash ==
  /\ "crash" \in Faults
  /\ used.faults < MaxFaults
  /\ used' = [used EXCEPT !.faults = @ + 1, !.restarted = TRUE]
  /\ PhoneFails
  /\ UNCHANGED <<desktopVars, tx, sent, service, flash>>

(* recoverTransaction, once after a restart: the query is answered into the *)
(* register, but the recovery connection has no callback for the write, so  *)
(* the phone gives up on it and changes nothing.                            *)
RecoverTransaction ==
  /\ PhoneAt("idle")
  /\ used.restarted
  /\ used' = [used EXCEPT !.restarted = FALSE]
  /\ IF flash.state # NoAttempt /\ flash.address /\ service.session.id = flash.state
     THEN service' = [service EXCEPT
            !.status = [id |-> flash.state, op |-> "StatusResponse", seen |-> FALSE],
            !.unread = TRUE]
     ELSE UNCHANGED service
  /\ UNCHANGED <<desktopVars, tx, sent, phone, flash>>

-----------------------------------------------------------------------------
EngineStep ==
  \/ BeginSession \/ EnginePublish
  \/ EngineCapability \/ EngineConfirmed \/ EnginePrepared \/ EngineCommitAck \/ EngineCommitted
  \/ EngineDrops \/ EngineAborts \/ EngineUncertain
  \/ EngineOobYes \/ EngineOobNo
  \/ EngineStaged \/ EngineMarked \/ EngineNotDurable \/ EnginePromoted \/ EngineDiscarded
  \/ EngineErrorPublished \/ EngineAborted \/ DaemonStores

PhoneStep ==
  \/ ExchangePubkeys \/ ReadBegins \/ ReadCapability \/ ReadEnds
  \/ PhoneWritesOp \/ PhoneJoins \/ PhoneLocal \/ PersistBond

Fault == DaemonIoFails \/ DaemonCrash \/ ReadFails \/ WriteFails \/ PhoneCrash

(* Every run is over and nothing is left to do. *)
Finished ==
  /\ EngineAt("idle") /\ service.writes = 0
  /\ PhoneAt("idle") /\ used.runs = MaxRun
  /\ UNCHANGED vars

Next ==
  \/ EngineStep
  \/ PickPeer \/ PhoneStep \/ PhoneOobYes \/ PhoneOobNo \/ PhoneTimesOut \/ RecoverTransaction
  \/ Fault
  \/ Finished

Spec == Init /\ [][Next]_vars

(* Both programs keep running.  Nothing is assumed of the phone's operator; *)
(* the desktop's has a deadline.  waitFor counts its polls, so a phone that *)
(* polls for ever does not exist: strong fairness of its time-out.          *)
FairSpec ==
  /\ Spec
  /\ WF_vars(EngineStep)
  /\ WF_vars(PhoneStep)
  /\ SF_vars(PhoneTimesOut)

-----------------------------------------------------------------------------
(* Properties.                                                              *)

PhoneCommitted(a) == tx[a]["Participant"].phase \in {"Committed", "Bonded"}

(* The promotion trusts what the engine heard, not what is on disk: still,  *)
(* the key the desktop serves for the phone belongs to an attempt that the  *)
(* phone has committed durably and that both operators confirmed, however   *)
(* attempts, crashes and failed file operations interleave.                 *)
ActiveTrustIsBilateral ==
  \A a \in Attempt :
    disk.activeKey[Phone] = a =>
      PhoneCommitted(a) /\ \A r \in Roles : "local" \in tx[a][r].confirmed

(* "The journal must say commit_pending before the state machine leaves     *)
(* PREPARED": once either side holds the commit decision of an attempt, no  *)
(* journal calls that attempt pre_commit, so a recovery never takes it for  *)
(* one that was definitely aborted.                                         *)
DecisionIsJournaledFirst ==
  \A a \in Attempt :
    (\E r \in Roles : tx[a][r].phase \in {"CommitPending", "Committed", "Bonded", "Uncertain"})
      => disk.journal # [state |-> "pre_commit", peer |-> Phone, id |-> a]

(* The staged files of attempt a are complete and marked as committed. *)
Recoverable(a) ==
  /\ disk.journal = [state |-> "commit_pending", peer |-> Phone, id |-> a]
  /\ disk.pending = [peer |-> Phone, id |-> a]
  /\ disk.pendingKey[Phone] = a

(* When the phone has shown success, the desktop serves that attempt's key, *)
(* or still holds everything a recovery needs to do so: through crashes in  *)
(* the middle of the promotion, failed promotions and a lost last message.  *)
(* (A later attempt that was confirmed on both sides replaces it.)          *)
PhoneSuccessIsKept ==
  \A a \in Attempt :
    /\ tx[a]["Participant"].phase = "Bonded"
    /\ \A b \in Attempt : b > a => tx[b]["Coordinator"].confirmed # Sides
    => disk.activeKey[Phone] = a \/ Recoverable(a)

(* What the two transactions do is what PairProtocol allows them to do: the *)
(* register, the inbox, the files and the restarts add nothing.             *)
Protocol == INSTANCE PairProtocol WITH
  Sendable <- Operations, told <- [a \in Attempt |-> [r \in Roles |-> {}]]

ImplementsProtocol == Protocol!Spec

(* "The engine is immediately ready for the next write": whatever happens   *)
(* to an attempt, the write that opens the next one is taken.               *)
EveryWriteIsTaken == (service.writes > 0) ~> (service.writes = 0)

(* A pairing on the phone comes to an end, unless it is the operator who    *)
(* does not answer: no wait of coordinateTransaction lasts for ever.        *)
PhoneAlwaysReturns == []<>(phone.pc \in {"idle", "oob"})

-----------------------------------------------------------------------------
(* What comments of the code say and the code does not keep.                *)

(* "a link that disappears after the commit decision is Uncertain, never a  *)
(* silent success or a silent rollback" (pair_engine.rs): an attempt the    *)
(* engine reports as aborted left no bond on the phone.                     *)
NoSilentRollback == \A a \in Attempt : outcome[a] = "Aborted" => flash.bond # a

(* "An uncertain transaction sends none of these after Stage, so the journal*)
(* and pending state survive for syauth-reconcile" (runtime.rs).            *)
UncertainIsKept ==
  \A a \in Attempt :
    outcome[a] = "Uncertain" => disk.activeKey[Phone] = a \/ Recoverable(a)

(* "A persisted transaction is evidence that the previous process did not   *)
(* finish. Ask the backend to reconnect and reconcile it" (PairingViewModel):*)
(* after a restart, a saved transaction comes with the address to ask.      *)
RecoveryCanReconnect ==
  PhoneAt("idle") /\ used.restarted /\ flash.state # NoAttempt => flash.address

(* "a message is published only after the peer consumed the previous one"   *)
(* (pair_engine.rs, unread): without a time-out no message of an attempt is *)
(* overwritten before a read has returned it.                               *)
PacedPublishIsLossless ==
  [][service'.status.id = service.status.id /\ service'.status.op # service.status.op
       => service.status.seen]_vars
=============================================================================
