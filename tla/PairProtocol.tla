----------------------------- MODULE PairProtocol -----------------------------
(***************************************************************************)
(* What the V2 pairing transaction promises, whatever the channel does.    *)
(*                                                                         *)
(* Each attempt has two transactions, the desktop's and the phone's, and   *)
(* what each side ever sent: a message may be lost, delayed, duplicated or *)
(* overtaken, because receiving never removes it and nothing forces it.    *)
(* The order in which the drivers call the transaction (the desktop's      *)
(* drive_pair_transaction, the phone's coordinateTransaction) is abstracted*)
(* to "any call, at any time"; only what a side must have done before it   *)
(* sends a message (MaySend) is kept.  PairSession models the drivers and  *)
(* is shown to implement this specification.                               *)
(***************************************************************************)
EXTENDS PairTransaction

CONSTANTS
  Attempt,  \* transaction ids, one fresh random id per attempt
  Sendable  \* the operations the sides send

ASSUME SendableAssumption == Sendable \subseteq Operations

VARIABLES
  tx,    \* tx[a][r]: the transaction of side r for attempt a
  sent,  \* sent[a][r]: the operations side r ever sent for attempt a
  told   \* told[a][r]: the statuses side r ever reported for attempt a

vars == <<tx, sent, told>>

PeerOf(r) == IF r = "Coordinator" THEN "Participant" ELSE "Coordinator"

TypeOK ==
  /\ tx \in [Attempt -> [Roles -> Transactions]]
  /\ sent \in [Attempt -> [Roles -> SUBSET Operations]]
  /\ told \in [Attempt -> [Roles -> SUBSET StatusStates]]

Init ==
  /\ tx = [a \in Attempt |-> [r \in Roles |-> NewTransaction(r)]]
  /\ sent = [a \in Attempt |-> [r \in Roles |-> {}]]
  /\ told = [a \in Attempt |-> [r \in Roles |-> {}]]

(* Mutation of MaySend: the phone acknowledges the commit before it has     *)
(* persisted its bond.                                                      *)
MaySendAckEarly(t, op) ==
  \/ op \in {"Capability"} \cup AbortOps
  \/ op = "Confirm" /\ "local" \in t.confirmed
  \/ op = "Prepared" /\ "local" \in t.prepared
  \/ op = "Commit" /\ t.role = "Coordinator" /\ t.phase = "CommitPending"
  \/ op = "CommitAck" /\ t.role = "Participant" /\ t.phase = "Prepared"
  \/ op = "Committed" /\ t.phase \in {"Committed", "Bonded"}

(* What a driver has made durable before it sends an operation.  The        *)
(* capability offer and an abort carry no promise.                          *)
MaySend(t, op) ==
  \/ op \in {"Capability"} \cup AbortOps
  \/ op = "Confirm" /\ "local" \in t.confirmed
  \/ op = "Prepared" /\ "local" \in t.prepared
  \/ op = "Commit" /\ t.role = "Coordinator" /\ t.phase = "CommitPending"
  \/ op = "CommitAck" /\ t.role = "Participant" /\ t.phase = "Committed"
  \/ op = "Committed" /\ t.phase \in {"Committed", "Bonded"}

SetTx(a, r, t) == tx' = [tx EXCEPT ![a][r] = t]

(* Both drivers open an attempt with the same three calls: the peer's       *)
(* capability, the own one, the verified key exchange.                      *)
Join(a, r) ==
  /\ "Capability" \in sent[a][PeerOf(r)]
  /\ \E t1 \in Remote(tx[a][r], "Capability") :
       \E t2 \in Local(t1, "Capability") :
         \E t3 \in Local(t2, "VerifiedExchange") : SetTx(a, r, t3)
  /\ UNCHANGED <<sent, told>>

LocalStep(a, r) ==
  /\ \E e \in LocalEvents \ {"Capability", "VerifiedExchange"} :
       \E t \in Local(tx[a][r], e) : SetTx(a, r, t)
  /\ UNCHANGED <<sent, told>>

RemoteStep(a, r) ==
  /\ \E op \in sent[a][PeerOf(r)] \ {"Capability"} :
       \E t \in Remote(tx[a][r], op) : SetTx(a, r, t)
  /\ UNCHANGED <<sent, told>>

Send(a, r) ==
  /\ \E op \in Sendable :
       /\ MaySend(tx[a][r], op)
       /\ sent' = [sent EXCEPT ![a][r] = @ \cup {op}]
  /\ UNCHANGED <<tx, told>>

Tell(a, r) ==
  /\ told' = [told EXCEPT ![a][r] = @ \cup {StatusOf(tx[a][r])}]
  /\ UNCHANGED <<tx, sent>>

Reconcile(a, r) ==
  /\ \E s \in told[a][PeerOf(r)] : SetTx(a, r, ReconcileStatus(tx[a][r], s))
  /\ UNCHANGED <<sent, told>>

Next ==
  \E a \in Attempt, r \in Roles :
    \/ Join(a, r)
    \/ LocalStep(a, r)
    \/ RemoteStep(a, r)
    \/ Send(a, r)
    \/ Tell(a, r)
    \/ Reconcile(a, r)

Spec == Init /\ [][Next]_vars

-----------------------------------------------------------------------------
(* Phases that can only be reached once the commit decision exists, and     *)
(* what either becomes when its outcome is no longer known.                 *)
Decided == {"CommitPending", "Committed", "Bonded", "Uncertain"}
Settled == {"Committed", "Bonded", "Uncertain"}

(* No message, status or local event, in any order, takes a transaction to  *)
(* flags its phase contradicts: whatever serialize writes, restore accepts  *)
(* (an aborted transaction apart).                                          *)
AlwaysValid == \A a \in Attempt, r \in Roles : Validate(tx[a][r])

(* The outcome is never split: a side that shows success faces a peer that  *)
(* has at least the commit decision, never one that rolled back or is still *)
(* before the commit; and the phone holds a commit decision only while the  *)
(* desktop holds it too.                                                    *)
NoSplitOutcome ==
  \A a \in Attempt :
    LET c == tx[a]["Coordinator"].phase
        p == tx[a]["Participant"].phase
    IN  /\ c \in {"Committed", "Bonded"} => p \in Settled
        /\ p \in {"CommitPending", "Committed", "Bonded"} => c \in Decided

(* Success means that both operators confirmed and both sides had prepared, *)
(* each by a local event of its own, not on the peer's word.                *)
BondedIsMutual ==
  \A a \in Attempt, r \in Roles :
    tx[a][r].phase = "Bonded" =>
      \A q \in Roles : "local" \in tx[a][q].confirmed \cap tx[a][q].prepared

(* Once a transaction holds the commit decision, no abort, disconnect,      *)
(* message or status makes it Aborted; and an uncertain outcome is not      *)
(* turned into success or rollback by the transaction itself.               *)
CommitIsNeverUndone ==
  [][\A a \in Attempt, r \in Roles :
       /\ tx[a][r].phase \in Decided => tx'[a][r].phase \in Decided
       /\ tx[a][r].phase = "Uncertain" => tx'[a][r].phase = "Uncertain"]_vars
=============================================================================
