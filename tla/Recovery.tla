------------------------------- MODULE Recovery -------------------------------
(***************************************************************************)
(* The writers of the bond directory against each other and against        *)
(* crashes: the daemon's commit consumer (pair_commit_consumer,            *)
(* crates/syauth-presenced/src/runtime.rs), syauth-reconcile (run_reconcile*)
(* and apply_status_decision, crates/syauth-cli/src/reconcile.rs) and      *)
(* syauth revoke (run_revoke, crates/syauth-cli/src/revoke.rs).            *)
(*                                                                         *)
(* The pairing engine is reduced to the order of its requests and to what  *)
(* it heard from the phone before each; PairSession has it in full.  The   *)
(* phone is reduced to its durable status for each attempt.                *)
(***************************************************************************)
EXTENDS TrustStore, PairTransaction

CONSTANTS
  PhoneServesStatus, \* whether the phone answers the recovery's query
  MaxFaults,         \* bound: crashes and failing file operations
  MaxRevoke          \* bound: revocations by phone and command line

ASSUME RecoveryAssumption ==
  PhoneServesStatus \in BOOLEAN /\ MaxFaults \in Nat /\ MaxRevoke \in Nat

VARIABLES
  drive,   \* the attempt the engine drives, and how far its requests are
  remote,  \* remote[a]: the phone's durable status for attempt a
  acked,   \* the attempts whose COMMIT_ACK reached the engine
  asking,  \* syauth-reconcile: what it has read, and how far it is
  used     \* bounds spent

vars == <<disk, job, drive, remote, acked, asking, used>>

DriveSteps == {"none", "staging", "staged", "marking", "marked", "promoting", "discarding"}

NotAsking == [at |-> "idle", journal |-> AbsentJournal]

TypeOK ==
  /\ StoreTypeOK
  /\ drive \in [id : AttemptOrNone, peer : Peer \cup {NoPeer}, at : DriveSteps]
  /\ remote \in [Attempt -> StatusStates]
  /\ acked \subseteq Attempt
  /\ asking \in [at : {"idle", "load", "query"}, journal : Journals \cup {AbsentJournal}]
  /\ used \in [faults : 0..MaxFaults, revokes : 0..MaxRevoke]

Init ==
  /\ StoreInit
  /\ drive = [id |-> NoAttempt, peer |-> NoPeer, at |-> "none"]
  /\ remote = [a \in Attempt |-> "PreCommit"]
  /\ acked = {}
  /\ asking = NotAsking
  /\ used = [faults |-> 0, revokes |-> 0]

-----------------------------------------------------------------------------
Free(w) == w \in Process /\ job[w].step \in {"idle", "ok", "failed"}

Run(w, step, p, a) == job' = [job EXCEPT ![w] = Started(step, p, a)]

Request(from, to, step) ==
  /\ Free("daemon")
  /\ drive.at = from
  /\ drive' = [drive EXCEPT !.at = to]
  /\ Run("daemon", step, drive.peer, drive.id)
  /\ UNCHANGED <<disk, remote, acked, asking, used>>

(* The engine's requests to the consumer.  Stage opens an attempt; Promote  *)
(* follows the phone's COMMITTED; Discard follows a failed wait for PREPARED*)
(* or COMMIT_ACK; an uncertain attempt requests nothing more.               *)
Stage(p) ==
  /\ Free("daemon")
  /\ drive.at = "none"
  /\ drive.id + 1 \in Attempt
  /\ drive' = [id |-> drive.id + 1, peer |-> p, at |-> "staging"]
  /\ Run("daemon", "stage_bond", p, drive.id + 1)
  /\ UNCHANGED <<disk, remote, acked, asking, used>>

MarkCommit == Request("staged", "marking", "mark_read")

(* Mutation of Promote: the commit decision of the desktop is enough. *)
PromoteUnilaterally == Request("marked", "promoting", "promote_load")

Promote ==
  /\ drive.id \in acked
  /\ remote[drive.id] = "Bonded"
  /\ Request("marked", "promoting", "promote_load")

Discard ==
  /\ drive.id \notin acked
  /\ Request("staged", "discarding", "discard_journal") \/ Request("marked", "discarding", "discard_journal")

LeaveUncertain ==
  /\ drive.at = "marked"
  /\ drive.id \in acked
  /\ drive' = [drive EXCEPT !.at = "none"]
  /\ UNCHANGED <<disk, job, remote, acked, asking, used>>

(* The consumer's reply reaches the engine. *)
Reply ==
  /\ drive.at \in {"staging", "marking", "promoting", "discarding"}
  /\ job["daemon"].step \in {"ok", "failed"}
  /\ drive' = [drive EXCEPT !.at =
       CASE job["daemon"].step = "failed" -> "none"
         [] @ = "staging" -> "staged"
         [] @ = "marking" -> "marked"
         [] OTHER -> "none"]
  /\ job' = [job EXCEPT !["daemon"] = NoJob]
  /\ UNCHANGED <<disk, remote, acked, asking, used>>

(* A revocation by the phone through the consumer, or by syauth revoke.     *)
Revoke(w, p) ==
  /\ w \in {"daemon", "cli"}
  /\ Free(w)
  /\ w = "daemon" => drive.at \in {"none", "staged", "marked"}
  /\ used.revokes < MaxRevoke
  /\ used' = [used EXCEPT !.revokes = @ + 1]
  /\ Run(w, "revoke_read", p, NoAttempt)
  /\ UNCHANGED <<disk, drive, remote, acked, asking>>

-----------------------------------------------------------------------------
(* The phone's durable status, as coordinateTransaction moves it.  "Aborted"*)
(* is what it would answer for an attempt it gave up before the commit.     *)
PhoneMoves(a) ==
  /\ \/ /\ remote[a] = "PreCommit"
        /\ drive.id = a /\ drive.at = "marked"
        /\ remote' = [remote EXCEPT ![a] = "CommitPending"]
     \/ /\ remote[a] = "PreCommit"
        /\ remote' = [remote EXCEPT ![a] = "Aborted"]
     \/ /\ remote[a] = "CommitPending"
        /\ remote' = [remote EXCEPT ![a] = "Committed"]
     \/ /\ remote[a] = "Committed"
        /\ a \in acked
        /\ remote' = [remote EXCEPT ![a] = "Bonded"]
  /\ UNCHANGED <<disk, job, drive, acked, asking, used>>

AckArrives ==
  /\ drive.at = "marked"
  /\ remote[drive.id] = "Committed"
  /\ acked' = acked \cup {drive.id}
  /\ UNCHANGED <<disk, job, drive, remote, asking, used>>

-----------------------------------------------------------------------------
(* run_reconcile: the journal, then the pending store, then the phone.      *)
ReadJournal ==
  /\ Free("reconcile")
  /\ asking.at = "idle"
  /\ Readable(disk.journal)
  /\ asking' = [at |-> "load", journal |-> disk.journal]
  /\ UNCHANGED <<disk, job, drive, remote, acked, used>>

LoadPending ==
  /\ asking.at = "load"
  /\ asking' = IF disk.pending.peer = asking.journal.peer
               THEN [asking EXCEPT !.at = "query"] ELSE NotAsking
  /\ UNCHANGED <<disk, job, drive, remote, acked, used>>

(* A mutation of Decision: the journal's state is not looked at.            *)
DecisionForgetsState(state, status) ==
  {ReconcileStatus(FromRecoveryStatus("Coordinator", "PreCommit"), status).phase}

(* apply_status_decision: the phase the recovered transaction ends in.      *)
Decision(state, status) ==
  LET local == IF state = "pre_commit" THEN "PreCommit" ELSE "CommitPending"
      t1 == ReconcileStatus(FromRecoveryStatus("Coordinator", local), status)
      t2 == IF t1.phase = "Committed"
            THEN {ReconcileStatus(t, status) : t \in Local(t1, "Committed")} ELSE {t1}
  IN  {t.phase : t \in t2}

(* authenticated_status and the decision on its answer.  No answer: the     *)
(* staged files are kept for the next run.                                  *)
QueryPhone ==
  /\ asking.at = "query"
  /\ asking' = NotAsking
  /\ LET j == asking.journal
         phases == IF PhoneServesStatus THEN Decision(j.state, remote[j.id]) ELSE {"Uncertain"}
     IN  CASE "Bonded" \in phases  -> Run("reconcile", "promote_load", j.peer, NoAttempt)
           [] "Aborted" \in phases -> Run("reconcile", "discard_journal", j.peer, NoAttempt)
           [] OTHER                -> UNCHANGED job
  /\ UNCHANGED <<disk, drive, remote, acked, used>>

-----------------------------------------------------------------------------
FileOperation(w) ==
  /\ StoreStep(w)
  /\ UNCHANGED <<drive, remote, acked, asking, used>>

Strikes == used.faults < MaxFaults /\ used' = [used EXCEPT !.faults = @ + 1]

FileOperationFails(w) ==
  /\ Strikes
  /\ IoFails(w)
  /\ UNCHANGED <<drive, remote, acked, asking>>

(* A process is killed; the daemon is started again, the others later.      *)
Crash(w) ==
  /\ Strikes
  /\ job' = [job EXCEPT ![w] = NoJob]
  /\ drive' = IF w = "daemon" THEN [drive EXCEPT !.at = "none"] ELSE drive
  /\ asking' = IF w = "reconcile" THEN NotAsking ELSE asking
  /\ UNCHANGED <<disk, remote, acked>>

Reconciles == ReadJournal \/ LoadPending \/ QueryPhone

(* Nothing is left to do: no attempt, no procedure and no query. *)
Quiet ==
  /\ drive.at = "none" /\ asking.at = "idle"
  /\ \A w \in Process : Free(w)
  /\ UNCHANGED vars

Next ==
  \/ \E p \in Peer : Stage(p)
  \/ MarkCommit \/ Promote \/ Discard \/ LeaveUncertain \/ Reply
  \/ \E a \in Attempt : PhoneMoves(a)
  \/ AckArrives
  \/ Reconciles
  \/ \E w \in Process : FileOperation(w) \/ FileOperationFails(w) \/ Crash(w)
  \/ \E w \in Process, p \in Peer : Revoke(w, p)
  \/ Quiet

Spec == Init /\ [][Next]_vars

(* The daemon is restarted and serves its consumer; the timer starts the    *)
(* recovery again and again while a journal is there.                       *)
FairSpec ==
  /\ Spec
  /\ WF_vars(FileOperation("daemon") \/ Reply)
  /\ WF_vars(FileOperation("reconcile") \/ Reconciles)

-----------------------------------------------------------------------------
(* A bond that is served has its key: promote installs the key before the   *)
(* bond, a revocation marks the bond before it removes the key, and a crash *)
(* or a failed file operation between the two never shows the other order.  *)
(* It is a property of one writer at a time: beside a second process that   *)
(* revokes, the race of RevocationIsKept breaks it as well.                 *)
ServedBondHasKey ==
  \A p \in Peer : disk.active[p].status = "Bonded" => disk.activeKey[p] # NoAttempt

(* "The active trust is written only by promote, which runs exclusively     *)
(* after the bilateral V2 COMMITTED": the key that is served belongs to an  *)
(* attempt the phone has committed.                                         *)
PromotedIsCommitted ==
  \A p \in Peer :
    disk.activeKey[p] # NoAttempt => remote[disk.activeKey[p]] \in {"Committed", "Bonded"}

(* A revoked bond is served again only by a new pairing: no save of a store *)
(* that was loaded earlier brings the old bond back.                        *)
RevocationIsKept ==
  [][\A p \in Peer :
       disk.active[p].status = "Revoked" /\ disk'.active[p].status = "Bonded"
         => disk'.active[p].id # disk.active[p].id]_vars

(* Once the phone has the bond, the desktop eventually has it too, although *)
(* the engine may stop listening, the daemon may be killed in the middle of *)
(* the promotion, and the recovery may start in the middle of it.           *)
CommittedIsPromoted ==
  \A a \in Attempt :
    (remote[a] = "Bonded") ~> (\E p \in Peer : disk.active[p].status = "Bonded" /\ disk.activeKey[p] = a)
=============================================================================
