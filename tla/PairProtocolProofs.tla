-------------------------- MODULE PairProtocolProofs --------------------------
(***************************************************************************)
(* Proofs about PairProtocol, for any set of attempts: the transaction     *)
(* stays valid, its outcome is never split between the two sides, success  *)
(* is mutual and a commit decision is never undone.                        *)
(***************************************************************************)
EXTENDS PairProtocol, TLAPS

\* A leaf goes to the SMT solver with this limit, unless it names another prover.
USE SMTT(60)

Done == {"Committed", "Bonded"}
Holding == {"CommitPending", "Committed", "Bonded"}

(* Validate is not preserved by itself: a milestone of a later phase must   *)
(* not be set before that phase.                                            *)
Orderly(t) ==
  /\ Validate(t)
  /\ t.phase = "Negotiating" => t.confirmed = {}
  /\ t.phase \in {"Negotiating", "OobPending"} => t.prepared = {}
  /\ t.phase \in {"Negotiating", "OobPending", "Preparing"} => t.committed = {}

(* What every call of the transaction, local, remote or by status, does.    *)
Progress(t, u) ==
  /\ u \in Transactions
  /\ u.role = t.role
  /\ Orderly(t) => Orderly(u)
  /\ t.confirmed \subseteq u.confirmed
  /\ t.prepared \subseteq u.prepared
  /\ t.phase \in Decided => u.phase \in Decided
  /\ t.phase \in Settled => u.phase \in Settled
  /\ t.phase = "Uncertain" => u.phase = "Uncertain"

LEMMA SidesNonempty == Sides # {}
  BY DEF Sides

(* Confirming, preparing and recording the commit, for one side. *)
LEMMA MilestoneEffect ==
  ASSUME NEW t \in Transactions, NEW side \in Sides
  PROVE  /\ \A u \in Confirm(t, side) :
              /\ Progress(t, u)
              /\ u.confirmed = t.confirmed \cup {side} /\ u.prepared = t.prepared
              /\ t.phase = "OobPending" /\ u.phase \in {"OobPending", "Preparing"}
         /\ \A u \in Prepare(t, side) :
              /\ Progress(t, u)
              /\ u.prepared = t.prepared \cup {side} /\ u.confirmed = t.confirmed
              /\ t.phase = "Preparing" /\ u.phase \in {"Preparing", "Prepared"}
         /\ \A u \in RecordCommitted(t, side) :
              /\ Progress(t, u)
              /\ u.confirmed = t.confirmed /\ u.prepared = t.prepared
              /\ t.phase = "Committed" /\ u.phase \in Done
  <1>1. ASSUME NEW u \in Confirm(t, side)
        PROVE  /\ Progress(t, u)
               /\ u.confirmed = t.confirmed \cup {side} /\ u.prepared = t.prepared
               /\ t.phase = "OobPending" /\ u.phase \in {"OobPending", "Preparing"}
    <2> DEFINE done == t.confirmed \cup {side}
    <2>0. t.phase = "OobPending"
      BY <1>1 DEF Confirm
    <2>1. u = [t EXCEPT !.confirmed = done,
                           !.phase = IF done = Sides THEN "Preparing" ELSE "OobPending"]
      BY <1>1, ZenonT(60) DEF Confirm
    <2>2. done \in SUBSET Sides
      BY DEF Transactions, Sides
    <2> HIDE DEF done
    <2>3. u.confirmed = done /\ u.phase = (IF done = Sides THEN "Preparing" ELSE "OobPending")
      BY <2>1 DEF Transactions
    <2>4. /\ u.role = t.role /\ u.capabilities = t.capabilities
          /\ u.prepared = t.prepared /\ u.committed = t.committed
      BY <2>1 DEF Transactions
    <2>5. u \in Transactions
      BY <2>1, <2>2, ZenonT(60) DEF Transactions, Phases, PreCommitPhases
    <2>6. Orderly(t) => Orderly(u)
      BY <2>0, <2>3, <2>4, SidesNonempty DEF Orderly, Validate
    <2> QED
      BY <2>0, <2>3, <2>4, <2>5, <2>6 DEF Progress, Decided, Settled, Done, done
  <1>2. ASSUME NEW u \in Prepare(t, side)
        PROVE  /\ Progress(t, u)
               /\ u.prepared = t.prepared \cup {side} /\ u.confirmed = t.confirmed
               /\ t.phase = "Preparing" /\ u.phase \in {"Preparing", "Prepared"}
    <2> DEFINE done == t.prepared \cup {side}
    <2>0. t.phase = "Preparing"
      BY <1>2 DEF Prepare
    <2>1. u = [t EXCEPT !.prepared = done,
                           !.phase = IF done = Sides THEN "Prepared" ELSE "Preparing"]
      BY <1>2, ZenonT(60) DEF Prepare
    <2>2. done \in SUBSET Sides
      BY DEF Transactions, Sides
    <2> HIDE DEF done
    <2>3. u.prepared = done /\ u.phase = (IF done = Sides THEN "Prepared" ELSE "Preparing")
      BY <2>1 DEF Transactions
    <2>4. /\ u.role = t.role /\ u.capabilities = t.capabilities
          /\ u.confirmed = t.confirmed /\ u.committed = t.committed
      BY <2>1 DEF Transactions
    <2>5. u \in Transactions
      BY <2>1, <2>2, ZenonT(60) DEF Transactions, Phases, PreCommitPhases
    <2>6. Orderly(t) => Orderly(u)
      BY <2>0, <2>3, <2>4, SidesNonempty DEF Orderly, Validate
    <2> QED
      BY <2>0, <2>3, <2>4, <2>5, <2>6 DEF Progress, Decided, Settled, Done, done
  <1>3. ASSUME NEW u \in RecordCommitted(t, side)
        PROVE  /\ Progress(t, u)
               /\ u.confirmed = t.confirmed /\ u.prepared = t.prepared
               /\ t.phase = "Committed" /\ u.phase \in Done
    <2> DEFINE done == t.committed \cup {side}
    <2>0. t.phase = "Committed"
      BY <1>3 DEF RecordCommitted
    <2>1. u = [t EXCEPT !.committed = done,
                           !.phase = IF done = Sides THEN "Bonded" ELSE "Committed"]
      BY <1>3, ZenonT(60) DEF RecordCommitted
    <2>2. done \in SUBSET Sides
      BY DEF Transactions, Sides
    <2> HIDE DEF done
    <2>3. u.committed = done /\ u.phase = (IF done = Sides THEN "Bonded" ELSE "Committed")
      BY <2>1 DEF Transactions
    <2>4. /\ u.role = t.role /\ u.capabilities = t.capabilities
          /\ u.confirmed = t.confirmed /\ u.prepared = t.prepared
      BY <2>1 DEF Transactions
    <2>5. u \in Transactions
      BY <2>1, <2>2, ZenonT(60) DEF Transactions, Phases, PreCommitPhases
    <2>6. Orderly(t) => Orderly(u)
      BY <2>0, <2>3, <2>4, SidesNonempty DEF Orderly, Validate
    <2> QED
      BY <2>0, <2>3, <2>4, <2>5, <2>6 DEF Progress, Decided, Settled, Done, done
  <1> QED BY <1>1, <1>2, <1>3

(* Giving up, by a lost link or an abort. *)
LEMMA GiveUpEffect ==
  ASSUME NEW t \in Transactions, NEW u \in Disconnect(t) \cup Abort(t)
  PROVE  /\ Progress(t, u)
         /\ u.confirmed = t.confirmed /\ u.prepared = t.prepared
         /\ u.phase \in Holding => t.phase = "Bonded" /\ u.phase = "Bonded"
  BY DEF Disconnect, Abort, Progress, Transactions, Orderly, Validate, Phases, PreCommitPhases,
         PostCommitPhases, Decided, Settled, Holding

DriverEvents == LocalEvents \ {"Capability", "VerifiedExchange"}

(* A local event never records anything for the peer, and only the desktop  *)
(* moves from Prepared to a commit decision by itself.                      *)
LEMMA LocalEffect ==
  ASSUME NEW t \in Transactions, NEW e \in DriverEvents, NEW u \in Local(t, e)
  PROVE  /\ Progress(t, u)
         /\ "remote" \in u.confirmed => "remote" \in t.confirmed
         /\ "remote" \in u.prepared => "remote" \in t.prepared
         /\ u.phase \in Done =>
              t.phase \in Done \/ (t.role = "Participant" /\ t.phase = "CommitPending")
         /\ u.phase \in Holding => t.phase \in Holding \/ t.role = "Coordinator"
  <1>1. CASE e = "Confirm"
    BY <1>1, MilestoneEffect DEF Local, Sides, Done, Holding
  <1>2. CASE e = "Prepared"
    BY <1>2, MilestoneEffect DEF Local, Sides, Done, Holding
  <1>3. CASE e = "Committed"
    BY <1>3, MilestoneEffect DEF Local, Sides, Done, Holding
  <1>4. CASE e \in {"Disconnected", "Abort"}
    BY <1>4, GiveUpEffect DEF Local, Done, Holding
  <1>5. CASE e = "Commit"
    <2>1. /\ t.role = "Coordinator" /\ t.phase = "Prepared"
          /\ u = [t EXCEPT !.phase = "CommitPending"]
      BY <1>5 DEF Local
    <2> QED
      BY <2>1 DEF Progress, Transactions, Orderly, Validate, Phases, Decided, Settled,
                  Done, Holding
  <1>6. CASE e = "CommitAck"
    <2>1. /\ t.role = "Participant" /\ t.phase = "CommitPending"
          /\ u = [t EXCEPT !.phase = "Committed"]
      BY <1>6 DEF Local
    <2> QED
      BY <2>1, SidesNonempty
      DEF Progress, Transactions, Orderly, Validate, Phases, Decided, Settled, Done, Holding
  <1> QED BY <1>1, <1>2, <1>3, <1>4, <1>5, <1>6 DEF DriverEvents, LocalEvents

(* A message records for the peer only what it says, and a transaction      *)
(* takes the commit decision or its acknowledgement only from the message   *)
(* that carries it.                                                         *)
LEMMA RemoteEffect ==
  ASSUME NEW t \in Transactions, NEW op \in Operations \ {"Capability"},
         NEW u \in Remote(t, op)
  PROVE  /\ Progress(t, u)
         /\ "remote" \in u.confirmed => "remote" \in t.confirmed \/ op = "Confirm"
         /\ "remote" \in u.prepared => "remote" \in t.prepared \/ op = "Prepared"
         /\ u.phase \in Done => t.phase \in Done \/ op = "CommitAck"
         /\ u.phase \in Holding => t.phase \in Holding \/ op = "Commit"
         /\ op = "CommitAck" => t.role = "Coordinator" /\ t.phase = "CommitPending"
         /\ op = "Commit" => t.role = "Participant"
  <1>1. CASE op \in {"Confirm", "Prepared", "Committed"}
    BY <1>1, MilestoneEffect DEF Remote, Sides, Done, Holding, StatusOps, AbortOps
  <1>2. CASE op \in AbortOps
    BY <1>2, GiveUpEffect DEF Remote, AbortOps, StatusOps, Done, Holding
  <1>3. CASE op \in StatusOps
    BY <1>3 DEF Remote, AbortOps, StatusOps, Progress, Done, Holding
  <1>4. CASE op = "Commit"
    <2>1. /\ t.role = "Participant" /\ t.phase = "Prepared"
          /\ u = [t EXCEPT !.phase = "CommitPending"]
      BY <1>4 DEF Remote, StatusOps, AbortOps
    <2> QED
      BY <1>4, <2>1 DEF Progress, Transactions, Orderly, Validate, Phases, Decided, Settled,
                        Done, Holding
  <1>5. CASE op = "CommitAck"
    <2>1. /\ t.role = "Coordinator" /\ t.phase = "CommitPending"
          /\ u = [t EXCEPT !.phase = "Committed"]
      BY <1>5 DEF Remote, StatusOps, AbortOps
    <2> QED
      BY <1>5, <2>1, SidesNonempty
      DEF Progress, Transactions, Orderly, Validate, Phases, Decided, Settled, Done, Holding
  <1>6. CASE op = "Revoke"
    BY <1>6 DEF Remote, StatusOps, AbortOps
  <1> QED BY <1>1, <1>2, <1>3, <1>4, <1>5, <1>6 DEF Operations

(* A status decides a pending commit only when the peer has committed. *)
LEMMA ReconcileEffect ==
  ASSUME NEW t \in Transactions, NEW s \in StatusStates
  PROVE  LET u == ReconcileStatus(t, s)
         IN  /\ Progress(t, u)
             /\ u.confirmed = t.confirmed /\ u.prepared = t.prepared
             /\ u.phase \in Done =>
                  t.phase \in Done \/ (t.phase = "CommitPending" /\ s \in Done)
             /\ u.phase \in Holding => t.phase \in Holding
  <1> DEFINE u == ReconcileStatus(t, s)
  <1>1. \/ u = t
        \/ u = [t EXCEPT !.phase = "Uncertain"]
        \/ u = [t EXCEPT !.phase = "Aborted"] /\ t.phase \in PreCommitPhases
        \/ u = [t EXCEPT !.phase = "Committed"] /\ t.phase = "CommitPending" /\ s = "Committed"
        \/ /\ u = [t EXCEPT !.committed = Sides, !.phase = "Bonded"]
           /\ t.phase \in Done \/ (t.phase = "CommitPending" /\ s = "Bonded")
    BY DEF ReconcileStatus, StatusOf, StatusStates, Transactions, Phases, PreCommitPhases, Done
  <1> HIDE DEF u
  <1>2. CASE u = t
    BY <1>2 DEF Progress, u
  <1>3. CASE u = [t EXCEPT !.phase = "Uncertain"]
    BY <1>3 DEF Progress, Transactions, Orderly, Validate, Phases, Decided, Settled, Done, Holding, u
  <1>4. CASE u = [t EXCEPT !.phase = "Aborted"] /\ t.phase \in PreCommitPhases
    BY <1>4 DEF Progress, Transactions, Orderly, Validate, Phases, PreCommitPhases, Decided,
                Settled, Done, Holding, u
  <1>5. CASE u = [t EXCEPT !.phase = "Committed"] /\ t.phase = "CommitPending" /\ s = "Committed"
    BY <1>5, SidesNonempty
    DEF Progress, Transactions, Orderly, Validate, Phases, Decided, Settled, Done, Holding, u
  <1>6. CASE /\ u = [t EXCEPT !.committed = Sides, !.phase = "Bonded"]
             /\ t.phase \in Done \/ (t.phase = "CommitPending" /\ s = "Bonded")
    BY <1>6, ZenonT(60) DEF Progress, Transactions, Orderly, Validate, Phases, Decided, Settled, Done, Holding, u
  <1> QED BY <1>1, <1>2, <1>3, <1>4, <1>5, <1>6 DEF u

(* Opening an attempt. *)
LEMMA JoinEffect ==
  ASSUME NEW t \in Transactions,
         NEW t1 \in Remote(t, "Capability"), NEW t2 \in Local(t1, "Capability"),
         NEW u \in Local(t2, "VerifiedExchange")
  PROVE  /\ Progress(t, u)
         /\ u.confirmed = t.confirmed /\ u.prepared = t.prepared
         /\ u.phase \notin Holding
  <1>1. /\ t.phase = "Negotiating"
        /\ t1 = [t EXCEPT !.capabilities = t.capabilities \cup {"remote"}]
    BY DEF Remote, StatusOps, AbortOps
  <1>2. t1 \in Transactions
    BY <1>1 DEF Transactions, Sides
  <1>3. t2 = [t1 EXCEPT !.capabilities = t1.capabilities \cup {"local"}]
    BY DEF Local
  <1>4. t2.capabilities = Sides /\ u = [t2 EXCEPT !.phase = "OobPending"]
    BY DEF Local
  <1>5. /\ u.role = t.role /\ u.phase = "OobPending" /\ u.capabilities = Sides
        /\ u.confirmed = t.confirmed /\ u.prepared = t.prepared /\ u.committed = t.committed
    BY <1>1, <1>2, <1>3, <1>4 DEF Transactions
  <1>6. u \in Transactions
    BY <1>1, <1>2, <1>3, <1>4, ZenonT(60) DEF Transactions, Phases, PreCommitPhases, Sides
  <1>7. Orderly(t) => Orderly(u)
    BY <1>1, <1>5, SidesNonempty DEF Orderly, Validate
  <1> QED
    BY <1>1, <1>5, <1>6, <1>7 DEF Progress, Decided, Settled, Holding

-----------------------------------------------------------------------------
(* The inductive invariant: what each message and each reported status      *)
(* still says about its sender, and what a transaction may believe of its   *)
(* peer.                                                                    *)
Justified(a, r) ==
  /\ tx[a][r].role = r
  /\ Orderly(tx[a][r])
  /\ "Confirm" \in sent[a][r] => "local" \in tx[a][r].confirmed
  /\ "Prepared" \in sent[a][r] => "local" \in tx[a][r].prepared
  /\ "Commit" \in sent[a][r] => r = "Coordinator" /\ tx[a][r].phase \in Decided
  /\ "CommitAck" \in sent[a][r] => r = "Participant" /\ tx[a][r].phase \in Settled
  /\ \A s \in told[a][r] : s \in Done => tx[a][r].phase \in Settled

Believed(a, r) ==
  /\ "remote" \in tx[a][r].confirmed => "local" \in tx[a][PeerOf(r)].confirmed
  /\ "remote" \in tx[a][r].prepared => "local" \in tx[a][PeerOf(r)].prepared

Agreed(a) ==
  /\ tx[a]["Coordinator"].phase \in Done => tx[a]["Participant"].phase \in Settled
  /\ tx[a]["Participant"].phase \in Holding => tx[a]["Coordinator"].phase \in Decided

IInv ==
  /\ TypeOK
  /\ \A a \in Attempt : Agreed(a)
  /\ \A a \in Attempt, r \in Roles : Justified(a, r) /\ Believed(a, r)

LEMMA RolesFacts ==
  \A r \in Roles : /\ PeerOf(r) \in Roles /\ PeerOf(r) # r /\ PeerOf(PeerOf(r)) = r
                   /\ \A q \in Roles : q = r \/ q = PeerOf(r)
  BY DEF Roles, PeerOf

LEMMA InitIInv == Init => IInv
  <1> SUFFICES ASSUME Init PROVE IInv
    OBVIOUS
  <1>1. \A r \in Roles : NewTransaction(r) \in Transactions
    BY DEF NewTransaction, Transactions, Phases, PreCommitPhases
  <1>2. TypeOK
    BY <1>1 DEF Init, TypeOK
  <1>3. \A a \in Attempt, r \in Roles :
          tx[a][r] = NewTransaction(r) /\ sent[a][r] = {} /\ told[a][r] = {}
    BY DEF Init
  <1>4. ASSUME NEW a \in Attempt, NEW r \in Roles
        PROVE  Justified(a, r) /\ Believed(a, r)
    <2>1. Orderly(NewTransaction(r)) /\ NewTransaction(r).role = r
      BY SidesNonempty DEF NewTransaction, Orderly, Validate
    <2>2. Justified(a, r)
      <3>1. tx[a][r] = NewTransaction(r) /\ sent[a][r] = {} /\ told[a][r] = {}
        BY <1>3
      <3> QED BY <3>1, <2>1 DEF Justified
    <2>3. Believed(a, r)
      <3>1. NewTransaction(r).confirmed = {} /\ NewTransaction(r).prepared = {}
        BY DEF NewTransaction
      <3>2. tx[a][r].confirmed = {} /\ tx[a][r].prepared = {}
        BY <1>3, <3>1
      <3> QED BY <3>2 DEF Believed
    <2> QED BY <2>2, <2>3
  <1>5. \A a \in Attempt : Agreed(a)
    BY <1>3 DEF Agreed, NewTransaction, Roles, Done, Holding
  <1> QED BY <1>2, <1>4, <1>5 DEF IInv

(* A step that replaces one transaction by one of its successors keeps the  *)
(* invariant when what the successor newly believes is backed by the peer.  *)
LEMMA StepIInv ==
  ASSUME IInv, NEW a \in Attempt, NEW r \in Roles, NEW u,
         SetTx(a, r, u), UNCHANGED <<sent, told>>,
         Progress(tx[a][r], u),
         "remote" \in u.confirmed =>
           "remote" \in tx[a][r].confirmed \/ "local" \in tx[a][PeerOf(r)].confirmed,
         "remote" \in u.prepared =>
           "remote" \in tx[a][r].prepared \/ "local" \in tx[a][PeerOf(r)].prepared,
         r = "Coordinator" /\ u.phase \in Done =>
           tx[a][r].phase \in Done \/ tx[a][PeerOf(r)].phase \in Settled,
         r = "Participant" /\ u.phase \in Holding =>
           tx[a][r].phase \in Holding \/ tx[a][PeerOf(r)].phase \in Decided
  PROVE  IInv'
  <1> DEFINE p == PeerOf(r)
  <1>1. /\ tx'[a][r] = u
        /\ tx'[a][p] = tx[a][p]
        /\ \A b \in Attempt \ {a} : tx'[b] = tx[b]
    BY RolesFacts DEF SetTx, IInv, TypeOK
  <1>2. TypeOK'
    BY DEF SetTx, IInv, TypeOK, Progress
  <1>3. ASSUME NEW b \in Attempt, NEW q \in Roles
        PROVE  Justified(b, q)' /\ Believed(b, q)'
    <2>0. Justified(b, q) /\ Believed(b, q)
      BY DEF IInv
    <2>1. CASE b # a
      BY <2>0, <2>1, <1>1 DEF Justified, Believed
    <2>2. CASE b = a /\ q = r
      BY <2>0, <2>2, <1>1 DEF Justified, Believed, Progress
    <2>3. CASE b = a /\ q = p
      BY <2>0, <2>3, <1>1, RolesFacts DEF Justified, Believed, Progress
    <2> QED BY <2>1, <2>2, <2>3, RolesFacts
  <1>4. ASSUME NEW b \in Attempt
        PROVE  Agreed(b)'
    <2>0. Agreed(b)
      BY DEF IInv
    <2>1. CASE b # a
      BY <2>0, <2>1, <1>1 DEF Agreed
    <2>2. CASE b = a /\ r = "Coordinator"
      BY <2>0, <2>2, <1>1 DEF Agreed, PeerOf, Progress, Decided, Settled, Done, Holding
    <2>3. CASE b = a /\ r = "Participant"
      BY <2>0, <2>3, <1>1 DEF Agreed, PeerOf, Progress, Decided, Settled, Done, Holding
    <2> QED BY <2>1, <2>2, <2>3 DEF Roles
  <1> QED BY <1>2, <1>3, <1>4 DEF IInv

LEMMA NextIInv == IInv /\ [Next]_vars => IInv'
  <1> SUFFICES ASSUME IInv, [Next]_vars PROVE IInv'
    OBVIOUS
  <1>1. CASE UNCHANGED vars
    BY <1>1 DEF vars, IInv, TypeOK, Agreed, Justified, Believed
  <1>2. CASE Next
    <2> PICK a \in Attempt, r \in Roles :
          \/ Join(a, r) \/ LocalStep(a, r) \/ RemoteStep(a, r)
          \/ Send(a, r) \/ Tell(a, r) \/ Reconcile(a, r)
      BY <1>2 DEF Next
    <2>0. /\ tx[a][r] \in Transactions /\ tx[a][r].role = r
          /\ PeerOf(r) \in Roles
          /\ sent[a][PeerOf(r)] \subseteq Operations /\ told[a][PeerOf(r)] \subseteq StatusStates
          /\ Justified(a, r) /\ Justified(a, PeerOf(r)) /\ Agreed(a)
      BY RolesFacts DEF IInv, TypeOK, Justified
    <2>1. CASE Join(a, r)
      <3> PICK t1 \in Remote(tx[a][r], "Capability") : \E t2 \in Local(t1, "Capability") :
            \E t3 \in Local(t2, "VerifiedExchange") : SetTx(a, r, t3)
        BY <2>1 DEF Join
      <3> PICK t2 \in Local(t1, "Capability") :
            \E t3 \in Local(t2, "VerifiedExchange") : SetTx(a, r, t3)
        OBVIOUS
      <3> PICK u \in Local(t2, "VerifiedExchange") : SetTx(a, r, u)
        OBVIOUS
      <3>1. /\ Progress(tx[a][r], u)
            /\ u.confirmed = tx[a][r].confirmed /\ u.prepared = tx[a][r].prepared
            /\ u.phase \notin Holding
        BY <2>0, JoinEffect
      <3> QED BY <2>1, <3>1, StepIInv DEF Join, Holding, Done
    <2>2. CASE LocalStep(a, r)
      <3> PICK e \in DriverEvents : \E u \in Local(tx[a][r], e) : SetTx(a, r, u)
        BY <2>2 DEF LocalStep, DriverEvents
      <3> PICK u \in Local(tx[a][r], e) : SetTx(a, r, u)
        OBVIOUS
      <3> DEFINE t == tx[a][r]
      <3>1. /\ Progress(t, u)
            /\ "remote" \in u.confirmed => "remote" \in t.confirmed
            /\ "remote" \in u.prepared => "remote" \in t.prepared
            /\ u.phase \in Done =>
                 t.phase \in Done \/ (r = "Participant" /\ t.phase = "CommitPending")
            /\ u.phase \in Holding => t.phase \in Holding \/ r = "Coordinator"
        BY <2>0, LocalEffect
      <3> QED BY <2>2, <3>1, StepIInv DEF LocalStep
    <2>3. CASE RemoteStep(a, r)
      <3> PICK op \in sent[a][PeerOf(r)] \ {"Capability"} :
            \E u \in Remote(tx[a][r], op) : SetTx(a, r, u)
        BY <2>3 DEF RemoteStep
      <3> PICK u \in Remote(tx[a][r], op) : SetTx(a, r, u)
        OBVIOUS
      <3> DEFINE t == tx[a][r]
      <3>1. /\ Progress(t, u)
            /\ "remote" \in u.confirmed => "remote" \in t.confirmed \/ op = "Confirm"
            /\ "remote" \in u.prepared => "remote" \in t.prepared \/ op = "Prepared"
            /\ u.phase \in Done => t.phase \in Done \/ op = "CommitAck"
            /\ u.phase \in Holding => t.phase \in Holding \/ op = "Commit"
        BY <2>0, RemoteEffect
      <3>2. /\ op = "Confirm" => "local" \in tx[a][PeerOf(r)].confirmed
            /\ op = "Prepared" => "local" \in tx[a][PeerOf(r)].prepared
            /\ op = "Commit" => tx[a][PeerOf(r)].phase \in Decided
            /\ op = "CommitAck" => tx[a][PeerOf(r)].phase \in Settled
        BY <2>0 DEF Justified
      <3> QED BY <2>3, <3>1, <3>2, StepIInv DEF RemoteStep
    <2>4. CASE Reconcile(a, r)
      <3> PICK s \in told[a][PeerOf(r)] : SetTx(a, r, ReconcileStatus(tx[a][r], s))
        BY <2>4 DEF Reconcile
      <3> DEFINE t == tx[a][r]
                 u == ReconcileStatus(t, s)
      <3>1. /\ Progress(t, u)
            /\ u.confirmed = t.confirmed /\ u.prepared = t.prepared
            /\ u.phase \in Done =>
                 t.phase \in Done \/ (t.phase = "CommitPending" /\ s \in Done)
            /\ u.phase \in Holding => t.phase \in Holding
        BY <2>0, ReconcileEffect
      <3>2. s \in Done => tx[a][PeerOf(r)].phase \in Settled
        BY <2>0 DEF Justified
      <3> HIDE DEF u
      <3>3. SetTx(a, r, u)
        BY DEF u
      <3> QED BY <2>4, <3>1, <3>2, <3>3, StepIInv DEF Reconcile
    <2>5. CASE Send(a, r)
      <3> PICK op \in Sendable : /\ MaySend(tx[a][r], op)
                                /\ sent' = [sent EXCEPT ![a][r] = @ \cup {op}]
        BY <2>5, ZenonT(60) DEF Send
      <3>1. UNCHANGED <<tx, told>>
        BY <2>5 DEF Send
      <3>2. TypeOK'
        BY <3>1, SendableAssumption DEF IInv, TypeOK
      <3>3. ASSUME NEW b \in Attempt, NEW q \in Roles
            PROVE  Justified(b, q)' /\ Believed(b, q)'
        <4>1. Justified(b, q) /\ Believed(b, q)
          BY DEF IInv
        <4>2. CASE b = a /\ q = r
          <5>1. sent'[a][r] = sent[a][r] \cup {op}
            BY DEF IInv, TypeOK
          <5> QED
            BY <4>1, <4>2, <5>1, <3>1, <2>0
            DEF Justified, Believed, MaySend, AbortOps, Decided, Settled
        <4>3. CASE b # a \/ q # r
          <5>1. sent'[b][q] = sent[b][q]
            BY <4>3 DEF IInv, TypeOK
          <5> QED BY <4>1, <5>1, <3>1 DEF Justified, Believed
        <4> QED BY <4>2, <4>3
      <3> QED BY <3>1, <3>2, <3>3 DEF IInv, Agreed
    <2>6. CASE Tell(a, r)
      <3>1. UNCHANGED <<tx, sent>> /\ told' = [told EXCEPT ![a][r] = @ \cup {StatusOf(tx[a][r])}]
        BY <2>6 DEF Tell
      <3>2. /\ StatusOf(tx[a][r]) \in StatusStates
            /\ StatusOf(tx[a][r]) \in Done => tx[a][r].phase \in Settled
        BY <2>0 DEF StatusOf, StatusStates, Transactions, Phases, PreCommitPhases, Done, Settled
      <3>3. TypeOK'
        BY <3>1, <3>2 DEF IInv, TypeOK
      <3>4. ASSUME NEW b \in Attempt, NEW q \in Roles
            PROVE  Justified(b, q)' /\ Believed(b, q)'
        <4>1. Justified(b, q) /\ Believed(b, q)
          BY DEF IInv
        <4>2. CASE b = a /\ q = r
          <5>1. told'[a][r] = told[a][r] \cup {StatusOf(tx[a][r])}
            BY <3>1 DEF IInv, TypeOK
          <5> QED BY <4>1, <4>2, <5>1, <3>1, <3>2 DEF Justified, Believed
        <4>3. CASE b # a \/ q # r
          <5>1. told'[b][q] = told[b][q]
            BY <4>3, <3>1 DEF IInv, TypeOK
          <5> QED BY <4>1, <5>1, <3>1 DEF Justified, Believed
        <4> QED BY <4>2, <4>3
      <3> QED BY <3>1, <3>3, <3>4 DEF IInv, Agreed
    <2> QED BY <2>1, <2>2, <2>3, <2>4, <2>5, <2>6
  <1> QED BY <1>1, <1>2

(* Types: whatever the drivers call and the peer sends, tx, sent and told    *)
(* keep their shape.                                                         *)
THEOREM TypeCorrect == Spec => []TypeOK
  <1>1. IInv => TypeOK
    BY DEF IInv
  <1> QED BY <1>1, InitIInv, NextIInv, PTL DEF Spec

(* Transaction::validate holds of every reachable transaction, so restore    *)
(* accepts every snapshot of a transaction that did not abort.               *)
THEOREM Validity == Spec => []AlwaysValid
  <1>1. IInv => AlwaysValid
    BY DEF IInv, Justified, Orderly, AlwaysValid
  <1> QED BY <1>1, InitIInv, NextIInv, PTL DEF Spec

(* The commit decision is never split between the desktop and the phone:     *)
(* neither side ends with success against a peer that rolled back.           *)
THEOREM Agreement == Spec => []NoSplitOutcome
  <1>1. IInv => NoSplitOutcome
    BY DEF IInv, Agreed, NoSplitOutcome, Done, Holding
  <1> QED BY <1>1, InitIInv, NextIInv, PTL DEF Spec

(* A Bonded transaction rests on a local confirmation and a local prepare of *)
(* each of the two sides.                                                    *)
THEOREM Mutuality == Spec => []BondedIsMutual
  <1>1. IInv => BondedIsMutual
    <2> SUFFICES ASSUME IInv, NEW a \in Attempt, NEW r \in Roles, NEW q \in Roles,
                        tx[a][r].phase = "Bonded"
                 PROVE  "local" \in tx[a][q].confirmed \cap tx[a][q].prepared
      BY DEF BondedIsMutual
    <2>1. tx[a][r].confirmed = Sides /\ tx[a][r].prepared = Sides
      BY DEF IInv, Justified, Orderly, Validate
    <2>2. "local" \in Sides /\ "remote" \in Sides
      BY DEF Sides
    <2>3. CASE q = r
      BY <2>1, <2>2, <2>3
    <2>4. CASE q = PeerOf(r)
      BY <2>1, <2>2, <2>4 DEF IInv, Believed
    <2> QED BY <2>3, <2>4, RolesFacts
  <1> QED BY <1>1, InitIInv, NextIInv, PTL DEF Spec

(* No call takes a transaction from the commit decision back to Aborted or   *)
(* to a phase before the commit, nor out of Uncertain.                       *)
THEOREM Irrevocability == Spec => CommitIsNeverUndone
  <1> DEFINE Kept == \A a \in Attempt, r \in Roles :
               /\ tx[a][r].phase \in Decided => tx'[a][r].phase \in Decided
               /\ tx[a][r].phase = "Uncertain" => tx'[a][r].phase = "Uncertain"
  <1>1. ASSUME IInv, NEW a \in Attempt, NEW r \in Roles, NEW u,
               SetTx(a, r, u), Progress(tx[a][r], u)
        PROVE  Kept
    <2> SUFFICES ASSUME NEW b \in Attempt, NEW q \in Roles
                 PROVE  /\ tx[b][q].phase \in Decided => tx'[b][q].phase \in Decided
                        /\ tx[b][q].phase = "Uncertain" => tx'[b][q].phase = "Uncertain"
      OBVIOUS
    <2>1. CASE b = a /\ q = r
      <3>1. tx'[b][q] = u
        BY <1>1, <2>1 DEF SetTx, IInv, TypeOK
      <3> QED BY <1>1, <2>1, <3>1 DEF Progress
    <2>2. CASE b # a \/ q # r
      <3>1. tx'[b][q] = tx[b][q]
        BY <1>1, <2>2 DEF SetTx, IInv, TypeOK
      <3> QED BY <3>1
    <2> QED BY <2>1, <2>2
  <1>2. IInv /\ [Next]_vars => [Kept]_vars
    <2> SUFFICES ASSUME IInv, Next PROVE Kept
      OBVIOUS
    <2> PICK a \in Attempt, r \in Roles :
          \/ Join(a, r) \/ LocalStep(a, r) \/ RemoteStep(a, r)
          \/ Send(a, r) \/ Tell(a, r) \/ Reconcile(a, r)
      BY DEF Next
    <2>0. /\ tx[a][r] \in Transactions
          /\ sent[a][PeerOf(r)] \subseteq Operations /\ told[a][PeerOf(r)] \subseteq StatusStates
      BY RolesFacts DEF IInv, TypeOK
    <2>1. CASE Join(a, r)
      BY <2>1, <2>0, <1>1, JoinEffect DEF Join
    <2>2. CASE LocalStep(a, r)
      BY <2>2, <2>0, <1>1, LocalEffect DEF LocalStep, DriverEvents
    <2>3. CASE RemoteStep(a, r)
      BY <2>3, <2>0, <1>1, RemoteEffect DEF RemoteStep
    <2>4. CASE Reconcile(a, r)
      BY <2>4, <2>0, <1>1, ReconcileEffect DEF Reconcile
    <2>5. CASE Send(a, r) \/ Tell(a, r)
      BY <2>5 DEF Send, Tell
    <2> QED BY <2>1, <2>2, <2>3, <2>4, <2>5
  <1> QED BY <1>2, InitIInv, NextIInv, PTL DEF Spec, CommitIsNeverUndone
=============================================================================
