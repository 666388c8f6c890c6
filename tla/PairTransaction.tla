--------------------------- MODULE PairTransaction ---------------------------
(***************************************************************************)
(* The V2 pairing transaction (crates/syauth-core/src/pair_transaction.rs):*)
(* the transition validator that the desktop (Coordinator) and the phone   *)
(* (Participant) both run, as operators on a transaction record.           *)
(*                                                                         *)
(* The code keeps, for each milestone, a pair of booleans [local, remote]; *)
(* here it is the set of sides that reached the milestone.  The reason     *)
(* carried by Aborted(op) is dropped: no transition reads it.              *)
(*                                                                         *)
(* An operation that can fail returns a set of transactions: {} is         *)
(* Err(InvalidTransition), a singleton is Ok.                              *)
(***************************************************************************)

Sides == {"local", "remote"}

Roles == {"Coordinator", "Participant"}

PreCommitPhases == {"Negotiating", "OobPending", "Preparing", "Prepared"}

Phases == PreCommitPhases
            \cup {"CommitPending", "Committed", "Bonded", "Aborted", "Uncertain"}

StatusStates == {"PreCommit", "CommitPending", "Committed", "Bonded",
                 "Aborted", "Unknown"}

AbortOps == {"Reject", "Cancel", "Timeout", "Error"}

StatusOps == {"Status", "StatusQuery", "StatusResponse"}

Operations == {"Capability", "Confirm", "Prepared", "Commit", "CommitAck",
               "Committed", "Revoke"} \cup AbortOps \cup StatusOps

LocalEvents == {"VerifiedExchange", "Capability", "Confirm", "Prepared",
                "Commit", "CommitAck", "Committed", "Disconnected", "Abort"}

Transactions ==
  [role : Roles, phase : Phases, capabilities : SUBSET Sides,
   confirmed : SUBSET Sides, prepared : SUBSET Sides, committed : SUBSET Sides]

(* Transaction::new *)
NewTransaction(role) ==
  [role |-> role, phase |-> "Negotiating", capabilities |-> {},
   confirmed |-> {}, prepared |-> {}, committed |-> {}]

(* Transaction::validate: what a phase says about the milestones. *)
Validate(tx) ==
  LET ready == tx.capabilities = Sides /\ tx.confirmed = Sides
                 /\ tx.prepared = Sides
  IN  /\ tx.phase = "Negotiating" =>
           ("local" \in tx.capabilities => "remote" \in tx.capabilities)
      /\ tx.phase = "OobPending" =>
           tx.capabilities = Sides /\ tx.confirmed # Sides
      /\ tx.phase = "Preparing" =>
           tx.capabilities = Sides /\ tx.confirmed = Sides /\ tx.prepared # Sides
      /\ tx.phase \in {"Prepared", "CommitPending"} => ready /\ tx.committed = {}
      /\ tx.phase = "Committed" => ready /\ tx.committed # Sides
      /\ tx.phase = "Bonded" => ready /\ tx.committed = Sides

(* serialize followed by restore: the aborted phase is written as code 7,   *)
(* which decode_phase refuses.                                              *)
Restore(tx) == IF tx.phase # "Aborted" /\ Validate(tx) THEN {tx} ELSE {}

(* Transaction::from_recovery_status *)
FromRecoveryStatus(role, status) ==
  [role |-> role,
   phase |-> CASE status = "PreCommit" -> "Prepared"
               [] status = "Unknown"   -> "Uncertain"
               [] OTHER                -> status,
   capabilities |-> Sides, confirmed |-> Sides, prepared |-> Sides,
   committed |-> CASE status = "Bonded"    -> Sides
                   [] status = "Committed" -> {"local"}
                   [] OTHER                -> {}]

(* Transaction::status *)
StatusOf(tx) ==
  CASE tx.phase \in PreCommitPhases -> "PreCommit"
    [] tx.phase = "Uncertain"       -> "Unknown"
    [] OTHER                        -> tx.phase

(* Mutation of Confirm: one side's answer is enough. *)
ConfirmAlone(tx, side) ==
  IF tx.phase # "OobPending" \/ side \in tx.confirmed THEN {}
  ELSE {[tx EXCEPT !.confirmed = @ \cup {side}, !.phase = "Preparing"]}

(* Mutation of Prepare: preparing does not wait for the confirmations. *)
PrepareUnconfirmed(tx, side) ==
  IF tx.phase \notin {"OobPending", "Preparing"} \/ side \in tx.prepared THEN {}
  ELSE LET done == tx.prepared \cup {side}
       IN  {[tx EXCEPT !.prepared = done,
                       !.phase = IF done = Sides THEN "Prepared" ELSE @]}

(* confirm, prepare and record_committed: one milestone of one side.  The   *)
(* second side to reach it moves the transaction to the next phase.         *)
Confirm(tx, side) ==
  IF tx.phase # "OobPending" \/ side \in tx.confirmed THEN {}
  ELSE LET done == tx.confirmed \cup {side}
       IN  {[tx EXCEPT !.confirmed = done,
                       !.phase = IF done = Sides THEN "Preparing" ELSE @]}

Prepare(tx, side) ==
  IF tx.phase # "Preparing" \/ side \in tx.prepared THEN {}
  ELSE LET done == tx.prepared \cup {side}
       IN  {[tx EXCEPT !.prepared = done,
                       !.phase = IF done = Sides THEN "Prepared" ELSE @]}

RecordCommitted(tx, side) ==
  IF tx.phase # "Committed" \/ side \in tx.committed THEN {}
  ELSE LET done == tx.committed \cup {side}
       IN  {[tx EXCEPT !.committed = done,
                       !.phase = IF done = Sides THEN "Bonded" ELSE @]}

(* The phases from which giving up can no longer claim a rollback. *)
PostCommitPhases == {"CommitPending", "Committed", "Uncertain"}

Disconnect(tx) ==
  {[tx EXCEPT !.phase = CASE @ \in PostCommitPhases      -> "Uncertain"
                          [] @ \in {"Bonded", "Aborted"} -> @
                          [] OTHER                       -> "Aborted"]}

(* Mutation of Abort: an abort always claims a rollback. *)
AbortAlwaysRollsBack(tx) ==
  IF tx.phase \in {"Bonded", "Aborted"} THEN {}
  ELSE {[tx EXCEPT !.phase = "Aborted"]}

Abort(tx) ==
  IF tx.phase \in {"Bonded", "Aborted"} THEN {}
  ELSE {[tx EXCEPT !.phase =
           IF @ \in PostCommitPhases THEN "Uncertain" ELSE "Aborted"]}

(* Transaction::local, the facts only this side may assert. *)
Local(tx, event) ==
  CASE event = "Capability" ->
         IF tx.phase = "Negotiating" /\ "local" \notin tx.capabilities
         THEN {[tx EXCEPT !.capabilities = @ \cup {"local"}]} ELSE {}
    [] event = "VerifiedExchange" ->
         IF tx.phase = "Negotiating" /\ tx.capabilities = Sides
         THEN {[tx EXCEPT !.phase = "OobPending"]} ELSE {}
    [] event = "Confirm" -> Confirm(tx, "local")
    [] event = "Prepared" -> Prepare(tx, "local")
    [] event = "Commit" ->
         IF tx.role = "Coordinator" /\ tx.phase = "Prepared"
         THEN {[tx EXCEPT !.phase = "CommitPending"]} ELSE {}
    [] event = "CommitAck" ->
         IF tx.role = "Participant" /\ tx.phase = "CommitPending"
         THEN {[tx EXCEPT !.phase = "Committed"]} ELSE {}
    [] event = "Committed" -> RecordCommitted(tx, "local")
    [] event = "Disconnected" -> Disconnect(tx)
    [] event = "Abort" -> Abort(tx)
    [] OTHER -> {}

(* Transaction::remote, for a message that carries this transaction's id.   *)
(* A message with another id is refused by the callers' id filters.         *)
Remote(tx, op) ==
  CASE op = "Capability" ->
         IF tx.phase = "Negotiating" /\ "remote" \notin tx.capabilities
         THEN {[tx EXCEPT !.capabilities = @ \cup {"remote"}]} ELSE {}
    [] op = "Confirm" -> Confirm(tx, "remote")
    [] op = "Prepared" -> Prepare(tx, "remote")
    [] op = "Commit" ->
         IF tx.role = "Participant" /\ tx.phase = "Prepared"
         THEN {[tx EXCEPT !.phase = "CommitPending"]} ELSE {}
    [] op = "CommitAck" ->
         IF tx.role = "Coordinator" /\ tx.phase = "CommitPending"
         THEN {[tx EXCEPT !.phase = "Committed"]} ELSE {}
    [] op = "Committed" -> RecordCommitted(tx, "remote")
    [] op \in StatusOps -> {tx}
    [] op \in AbortOps -> Abort(tx)
    [] OTHER -> {}

(* Transaction::reconcile_status: the peer's status never undoes a commit.  *)
ReconcileStatus(tx, remote) ==
  LET local == StatusOf(tx)
      decided == {"Committed", "Bonded"}
      bonded == [tx EXCEPT !.committed = Sides, !.phase = "Bonded"]
  IN  CASE "Unknown" \in {local, remote} -> [tx EXCEPT !.phase = "Uncertain"]
        [] local = "PreCommit" /\ remote = "Aborted" -> [tx EXCEPT !.phase = "Aborted"]
        [] local = "CommitPending" /\ remote = "Committed" -> [tx EXCEPT !.phase = "Committed"]
        [] local = "CommitPending" /\ remote = "Bonded" -> bonded
        [] local \in decided /\ remote \in decided -> bonded
        [] <<local, remote>> \in {<<"PreCommit", "PreCommit">>, <<"Committed", "CommitPending">>,
                                  <<"Aborted", "Aborted">>, <<"Aborted", "PreCommit">>} -> tx
        [] OTHER -> [tx EXCEPT !.phase = "Uncertain"]
=============================================================================
