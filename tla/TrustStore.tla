------------------------------ MODULE TrustStore ------------------------------
(***************************************************************************)
(* The bond directory of the desktop and the procedures that write it, one *)
(* step per file-system operation:                                         *)
(*   stage, mark_commit_pending, promote, discard                          *)
(*                       crates/syauth-core/src/pair_recovery.rs           *)
(*   revoke_bond_by_peer_id  crates/syauth-presenced/src/runtime.rs        *)
(*   run_revoke              crates/syauth-cli/src/revoke.rs               *)
(* over BondStore::load and BondStore::save (crates/syauth-core/src/bond.rs)*)
(*                                                                         *)
(* Three processes run them: the daemon (its commit consumer, one request  *)
(* at a time), syauth-reconcile and syauth revoke.  No lock is shared, so  *)
(* their steps interleave, and a process may die between any two steps.    *)
(* A load and the save that follows it are two steps.                      *)
(*                                                                         *)
(* A bond or a key is identified by the attempt that staged it.            *)
(***************************************************************************)
EXTENDS Naturals, FiniteSets

CONSTANTS
  Peer,     \* peer ids: one per phone key
  Attempt,  \* pairing attempts, numbered in the order they start
  Process   \* the processes that write the bond directory

ASSUME AttemptAssumption == Attempt \subseteq Nat \ {0}

ASSUME ProcessAssumption == Process \subseteq {"daemon", "reconcile", "cli"}

NoAttempt == 0
AttemptOrNone == Attempt \cup {NoAttempt}

(* pairing-v2.journal.  fs::write truncates before it writes: in between    *)
(* the file is torn, which readers refuse as malformed.                     *)
NoPeer == "no peer"
Journals == [state : {"pre_commit", "commit_pending"}, peer : Peer, id : Attempt]
AbsentJournal == [state |-> "absent", peer |-> NoPeer, id |-> NoAttempt]
TornJournal == [state |-> "torn", peer |-> NoPeer, id |-> NoAttempt]
Readable(j) == j.state \in {"pre_commit", "commit_pending"}

NoBond == [id |-> NoAttempt, status |-> "none"]
Bonds == [id : Attempt, status : {"Bonded", "Revoked"}]
Stores == [Peer -> Bonds \cup {NoBond}]

Files ==
  [journal    : Journals \cup {AbsentJournal, TornJournal},
   pending    : [peer : Peer, id : Attempt] \cup {[peer |-> NoPeer, id |-> NoAttempt]},
   pendingKey : [Peer -> AttemptOrNone],
   active     : Stores,
   activeKey  : [Peer -> AttemptOrNone]]

NothingPending == [peer |-> NoPeer, id |-> NoAttempt]

Steps ==
  {"idle", "stage_bond", "stage_key", "stage_truncate", "stage_write",
   "mark_read", "mark_truncate", "mark_write",
   "promote_load", "promote_key", "promote_read", "promote_save",
   "discard_journal", "discard_pending", "discard_key",
   "revoke_read", "revoke_save", "revoke_key", "ok", "failed"}

(* A running procedure: its next step, its arguments and what it has read.  *)
Jobs == [step : Steps, peer : Peer \cup {NoPeer}, id : AttemptOrNone,
         journal : Journals \cup {AbsentJournal}, bond : AttemptOrNone,
         store : Stores]

VARIABLES
  disk,  \* the files of the bond directory
  job    \* job[w]: the procedure process w is running

storeVars == <<disk, job>>

EmptyStore == [p \in Peer |-> NoBond]

NoJob == [step |-> "idle", peer |-> NoPeer, id |-> NoAttempt,
          journal |-> AbsentJournal, bond |-> NoAttempt, store |-> EmptyStore]

StoreTypeOK == disk \in Files /\ job \in [Process -> Jobs]

StoreInit ==
  /\ disk = [journal |-> AbsentJournal, pending |-> NothingPending,
             pendingKey |-> [p \in Peer |-> NoAttempt],
             active |-> EmptyStore, activeKey |-> [p \in Peer |-> NoAttempt]]
  /\ job = [w \in Process |-> NoJob]

-----------------------------------------------------------------------------
(* The job of process w, started at the first step of its procedure.        *)
Started(step, p, a) == [NoJob EXCEPT !.step = step, !.peer = p, !.id = a]

At(w, step) == job[w].step = step

Goto(w, step) == job' = [job EXCEPT ![w].step = step]

(* One file-system operation of process w, then its next step. *)
Write(w, from, to, files) ==
  /\ At(w, from)
  /\ disk' = files
  /\ Goto(w, to)

(* stage: the pending store, the pending key, and the journal last. *)
StageBond(w) ==
  Write(w, "stage_bond", "stage_key",
        [disk EXCEPT !.pending = [peer |-> job[w].peer, id |-> job[w].id]])

(* Mutation of StageKey: the key is staged under its final name. *)
StageKeyInPlace(w) ==
  Write(w, "stage_key", "stage_truncate",
        [disk EXCEPT !.activeKey[job[w].peer] = job[w].id])

StageKey(w) ==
  Write(w, "stage_key", "stage_truncate",
        [disk EXCEPT !.pendingKey[job[w].peer] = job[w].id])

StageTruncate(w) ==
  Write(w, "stage_truncate", "stage_write", [disk EXCEPT !.journal = TornJournal])

StageWrite(w) ==
  Write(w, "stage_write", "ok",
        [disk EXCEPT !.journal =
           [state |-> "pre_commit", peer |-> job[w].peer, id |-> job[w].id]])

(* mark_commit_pending: rewrite the journal that is there, whoever's it is. *)
MarkRead(w) ==
  /\ At(w, "mark_read")
  /\ IF Readable(disk.journal)
     THEN job' = [job EXCEPT ![w].step = "mark_truncate", ![w].journal = disk.journal]
     ELSE Goto(w, "failed")
  /\ UNCHANGED disk

MarkTruncate(w) ==
  Write(w, "mark_truncate", "mark_write", [disk EXCEPT !.journal = TornJournal])

(* Mutation of MarkWrite: the journal is rewritten with the state it had. *)
MarkWriteSame(w) ==
  Write(w, "mark_write", "ok", [disk EXCEPT !.journal = job[w].journal])

MarkWrite(w) ==
  Write(w, "mark_write", "ok",
        [disk EXCEPT !.journal = [job[w].journal EXCEPT !.state = "commit_pending"]])

(* promote: the staged bond is read first, its key installed next, the bond *)
(* saved into the active store last; then the staging is discarded.         *)
PromoteLoad(w) ==
  /\ At(w, "promote_load")
  /\ IF disk.pending.peer = job[w].peer
     THEN job' = [job EXCEPT ![w].step = "promote_key", ![w].bond = disk.pending.id]
     ELSE Goto(w, "failed")
  /\ UNCHANGED disk

(* A mutation of PromoteKey: the key is not installed.                      *)
PromoteKeySkipped(w) == At(w, "promote_key") /\ Goto(w, "promote_read") /\ UNCHANGED disk

PromoteKey(w) ==
  /\ At(w, "promote_key")
  /\ LET p == job[w].peer
         staged == disk.pendingKey[p]
     IN  IF staged # NoAttempt
         THEN disk' = [disk EXCEPT !.activeKey[p] = staged] /\ Goto(w, "promote_read")
         ELSE /\ Goto(w, IF disk.activeKey[p] = NoAttempt THEN "failed" ELSE "promote_read")
              /\ UNCHANGED disk

ReadStore(w, from, to) ==
  /\ At(w, from)
  /\ job' = [job EXCEPT ![w].step = to, ![w].store = disk.active]
  /\ UNCHANGED disk

PromoteRead(w) == ReadStore(w, "promote_read", "promote_save")

PromoteSave(w) ==
  Write(w, "promote_save", "discard_journal",
        [disk EXCEPT !.active =
           [job[w].store EXCEPT ![job[w].peer] = [id |-> job[w].bond, status |-> "Bonded"]]])

(* discard: errors are ignored, a file that cannot be removed stays. *)
DiscardJournal(w) ==
  Write(w, "discard_journal", "discard_pending", [disk EXCEPT !.journal = AbsentJournal])

DiscardPending(w) ==
  Write(w, "discard_pending", "discard_key", [disk EXCEPT !.pending = NothingPending])

DiscardKey(w) ==
  Write(w, "discard_key", "ok", [disk EXCEPT !.pendingKey[job[w].peer] = NoAttempt])

(* revoke_bond_by_peer_id and run_revoke: only the daemon removes the key,  *)
(* and only the command line skips the save of an already revoked bond.     *)
RevokeRead(w) ==
  /\ At(w, "revoke_read")
  /\ LET status == disk.active[job[w].peer].status
     IN  IF status = "none" THEN Goto(w, "failed")
         ELSE IF status = "Revoked" /\ w = "cli" THEN Goto(w, "ok")
         ELSE job' = [job EXCEPT ![w].step = "revoke_save", ![w].store = disk.active]
  /\ UNCHANGED disk

RevokeSave(w) ==
  Write(w, "revoke_save", IF w = "daemon" THEN "revoke_key" ELSE "ok",
        [disk EXCEPT !.active = [job[w].store EXCEPT ![job[w].peer].status = "Revoked"]])

RevokeKey(w) ==
  Write(w, "revoke_key", "ok", [disk EXCEPT !.activeKey[job[w].peer] = NoAttempt])

(* A file operation fails.  discard and the key removal of a revocation go  *)
(* on; every other procedure returns its error.  A torn journal is the      *)
(* failed second half of fs::write.                                         *)
IoFails(w) ==
  /\ job[w].step \notin {"idle", "ok", "failed"}
  /\ Goto(w, CASE At(w, "discard_journal") -> "discard_pending"
               [] At(w, "discard_pending") -> "discard_key"
               [] At(w, "discard_key") \/ At(w, "revoke_key") -> "ok"
               [] OTHER -> "failed")
  /\ UNCHANGED disk

StoreStep(w) ==
  \/ StageBond(w) \/ StageKey(w) \/ StageTruncate(w) \/ StageWrite(w)
  \/ MarkRead(w) \/ MarkTruncate(w) \/ MarkWrite(w)
  \/ PromoteLoad(w) \/ PromoteKey(w) \/ PromoteRead(w) \/ PromoteSave(w)
  \/ DiscardJournal(w) \/ DiscardPending(w) \/ DiscardKey(w)
  \/ RevokeRead(w) \/ RevokeSave(w) \/ RevokeKey(w)
=============================================================================
