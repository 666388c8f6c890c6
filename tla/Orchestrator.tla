---------------------------- MODULE Orchestrator ----------------------------
(***************************************************************************)
(* The presence daemon's orchestrator (crates/syauth-presenced/src/        *)
(* orchestrator.rs) over the peripheral, with the start-up and the bond    *)
(* watcher of runtime.rs.  A challenge takes a snapshot of its peer's      *)
(* entry, queues for the entry's one slot, sends a nonce and judges the    *)
(* answer against the entry's nonce cache.  A reload reads the bond store, *)
(* notifies and removes the peers that left, adds the ones that came and   *)
(* publishes the advertisement.  Both run at the same time; a client that  *)
(* hangs up drops its challenge wherever it is.                            *)
(***************************************************************************)
EXTENDS Peripheral

CONSTANTS
    MaxChanges,   \* bound on the changes of the bond store
    NonceLruCap,  \* NONCE_LRU_CAP
    FreshNonces   \* TRUE: getrandom never repeats itself; FALSE: it may, as issue_challenge_with_nonce does

ASSUME OrchestratorAssumption ==
    /\ MaxChanges \in Nat
    /\ NonceLruCap \in Nat \ {0}
    /\ FreshNonces \in BOOLEAN

VARIABLES
    disk,      \* the bonds.toml peers that are not revoked and have a key
    changes,   \* changes the operator and the pairing may still make
    dirty,     \* the watcher has an event it has not turned into a command
    commands,  \* the reload queue
    entry,     \* Orchestrator.peers: the generation of each peer's entry, 0 without entry
    gens,      \* entries made so far
    cache,     \* the nonce cache of each entry
    chal,      \* the challenge of each PAM connection
    requests,  \* challenges requested so far
    audit,     \* lines in the audit log
    accepted,  \* history: the nonces each entry accepted
    reload,    \* where the orchestrator's task is
    adv,       \* the advertised peers, with NoPeer for the pair-mode UUID; {} for no advertisement
    daemon     \* life of the process

ovars == <<disk, changes, dirty, commands, entry, gens, cache, chal, requests, audit, accepted, reload, adv, daemon>>
vars == <<pvars, ovars>>

Gens == 1..(Cardinality(Peer) + MaxChanges)
Outcomes == {"none", "ok", "replay", "bad-signature", "response-timeout", "unknown-peer", "transport-error", "busy",
             "cancelled"}
Challenges == [pc : {"idle", "queue", "notify", "wait", "done"}, peer : Peer \cup {NoPeer}, gen : {0} \cup Gens,
               no : 0..MaxAsked, nonce : Frame, answer : Answers \cup {NoAnswer}, outcome : Outcomes]
NoChallenge == [pc |-> "idle", peer |-> NoPeer, gen |-> 0, no |-> 0, nonce |-> 0, answer |-> NoAnswer, outcome |-> "none"]
Reloads == [pc : {"boot", "booting", "idle", "next", "notice", "removing", "adding"}, remove : SUBSET Peer, add : SUBSET Peer]

TypeOK ==
    /\ PeripheralTypeOK
    /\ disk \subseteq Peer /\ changes \in 0..MaxChanges /\ dirty \in BOOLEAN /\ commands \in 0..MaxChanges
    /\ entry \in [Peer -> {0} \cup Gens] /\ gens \in {0} \cup Gens
    /\ cache \in [Gens -> Seq(Frame)] /\ accepted \in [Gens -> Seq(Frame)]
    /\ chal \in [Caller -> Challenges] /\ requests \in 0..MaxAsked /\ audit \in 0..MaxAsked
    /\ reload \in Reloads
    /\ adv \subseteq Peer \cup {NoPeer}
    /\ daemon \in {"starting", "running", "socket-only", "stopping", "down"}

Init ==
    /\ PeripheralInit
    /\ disk \in SUBSET Peer /\ changes = MaxChanges /\ dirty = FALSE /\ commands = 0
    /\ entry = [p \in Peer |-> 0] /\ gens = 0
    /\ cache = [g \in Gens |-> <<>>] /\ accepted = [g \in Gens |-> <<>>]
    /\ chal = [c \in Caller |-> NoChallenge] /\ requests = 0 /\ audit = 0
    /\ reload = [pc |-> "boot", remove |-> {}, add |-> {}]
    /\ adv = {}
    /\ daemon = "starting"

Known == {p \in Peer : entry[p] # 0}
Serving == daemon \in {"running", "stopping"}

\* PeerEntry::new, with an empty nonce cache and a free slot.
EntryAdded(p) ==
    /\ entry' = [entry EXCEPT ![p] = gens + 1]
    /\ gens' = gens + 1

\* rotate_once: the old advertisement is torn down before the new one is registered.
Rotate(ps) ==
    \/ adv' = ps \cup {NoPeer} /\ UNCHANGED budget
    \/ adv' = {} /\ budget.faults > 0 /\ budget' = [budget EXCEPT !.faults = @ - 1]

-----------------------------------------------------------------------------
(* maybe_spawn_orchestrator: the first active bond is the seed.            *)

BootEmpty ==
    /\ reload.pc = "boot" /\ disk = {}
    /\ reload' = [reload EXCEPT !.pc = "idle"]
    /\ daemon' = "running"
    /\ Rotate({})
    /\ UNCHANGED <<disk, changes, dirty, commands, entry, gens, cache, chal, requests, audit, accepted>>
    /\ UNCHANGED <<peers, lock, app, regs, reg, call, link, inbox, asked>>

BootSeeds(p) ==
    /\ reload.pc = "boot" /\ p \in disk
    /\ reload' = [reload EXCEPT !.pc = "booting"]
    /\ call' = Begin(Reloader, "add", p, Revoke)
    /\ UNCHANGED <<disk, changes, dirty, commands, entry, gens, cache, chal, requests, audit, accepted, adv, daemon>>
    /\ UNCHANGED <<peers, lock, app, regs, reg, link, inbox, asked, budget>>

BootSeeded ==
    /\ reload.pc = "booting" /\ At(Reloader, "returned")
    /\ reload' = [reload EXCEPT !.pc = "idle"]
    /\ call' = [call EXCEPT ![Reloader] = Idle]
    /\ IF call[Reloader].result = "ok"
       THEN /\ daemon' = "running"
            /\ EntryAdded(call[Reloader].peer)
            /\ Rotate({call[Reloader].peer})
       ELSE daemon' = "socket-only" /\ UNCHANGED <<entry, gens, adv, budget>>
    /\ UNCHANGED <<disk, changes, dirty, commands, cache, chal, requests, audit, accepted>>
    /\ UNCHANGED <<peers, lock, app, regs, reg, link, inbox, asked>>

-----------------------------------------------------------------------------
(* issue_challenge_cancellable                                             *)

Finish(c, outcome, lines) ==
    /\ chal' = [chal EXCEPT ![c].pc = "done", ![c].outcome = outcome]
    /\ audit' = audit + lines

\* lookup_peer: what the challenge knows of its peer from here on is this entry.
Request(c, p) ==
    /\ Serving /\ chal[c].pc \in {"idle", "done"} /\ requests < MaxAsked
    /\ requests' = requests + 1
    /\ IF p \in Known
       THEN chal' = [chal EXCEPT ![c] = [NoChallenge EXCEPT !.pc = "queue", !.peer = p, !.gen = entry[p]]] /\ UNCHANGED audit
       ELSE chal' = [chal EXCEPT ![c] = [NoChallenge EXCEPT !.pc = "done", !.peer = p, !.outcome = "unknown-peer"]] /\ audit' = audit + 1
    /\ UNCHANGED <<disk, changes, dirty, commands, entry, gens, cache, accepted, reload, adv, daemon, pvars>>

SlotTaken(g) == \E c \in Caller : chal[c].gen = g /\ chal[c].pc \in {"notify", "wait"}

AcquireSlot(c) ==
    /\ chal[c].pc = "queue" /\ ~SlotTaken(chal[c].gen)
    /\ asked' = asked + 1
    /\ \E nonce \in IF FreshNonces THEN {asked + 1} ELSE 1..(asked + 1) :
         /\ chal' = [chal EXCEPT ![c].pc = "notify", ![c].no = asked + 1, ![c].nonce = nonce]
         /\ call' = Begin(c, "drain", chal[c].peer, nonce)
    /\ UNCHANGED <<disk, changes, dirty, commands, entry, gens, cache, requests, audit, accepted, reload, adv, daemon>>
    /\ UNCHANGED <<peers, lock, app, regs, reg, link, inbox, budget>>

\* BUSY_QUEUE_DEADLINE runs out behind another challenge.
QueueTimesOut(c) ==
    /\ chal[c].pc = "queue" /\ SlotTaken(chal[c].gen)
    /\ Finish(c, "busy", 1)
    /\ UNCHANGED <<disk, changes, dirty, commands, entry, gens, cache, requests, accepted, reload, adv, daemon, pvars>>

\* challenge_outcome_for_transport
TransportOutcome(result) ==
    CASE result = "unknown-peer" -> "unknown-peer"
      [] result = "timeout" -> "response-timeout"
      [] OTHER -> "transport-error"

Notified(c) ==
    /\ chal[c].pc = "notify" /\ At(c, "returned")
    /\ IF call[c].result = "ok"
       THEN /\ chal' = [chal EXCEPT ![c].pc = "wait"]
            /\ call' = Begin(c, "await", chal[c].peer, chal[c].nonce)
            /\ UNCHANGED audit
       ELSE /\ Finish(c, TransportOutcome(call[c].result), 1)
            /\ call' = [call EXCEPT ![c] = Idle]
    /\ UNCHANGED <<disk, changes, dirty, commands, entry, gens, cache, requests, accepted, reload, adv, daemon>>
    /\ UNCHANGED <<peers, lock, app, regs, reg, link, inbox, asked, budget>>

MutantEvictsEarly(s, n) == IF Len(s) >= NonceLruCap - 1 /\ s # <<>> THEN Append(Tail(s), n) ELSE Append(s, n)

\* NonceCache::insert
Remember(s, n) == IF Len(s) = NonceLruCap THEN Append(Tail(s), n) ELSE Append(s, n)
Contains(s, n) == \E i \in DOMAIN s : s[i] = n

\* verify_frame checks the answer against the peer's key and this challenge's nonce.
Verifies(c, answer) == answer.by = chal[c].peer /\ answer.frame = chal[c].nonce

Judge(c) ==
    /\ chal[c].pc = "wait" /\ At(c, "returned")
    /\ call' = [call EXCEPT ![c] = Idle]
    /\ LET a == call[c].answer
           g == chal[c].gen
           n == chal[c].nonce
           outcome == CASE call[c].result # "ok" -> TransportOutcome(call[c].result)
                        [] ~Verifies(c, a) -> "bad-signature"
                        [] Contains(cache[g], n) -> "replay"
                        [] OTHER -> "ok"
       IN /\ chal' = [chal EXCEPT ![c].pc = "done", ![c].answer = a, ![c].outcome = outcome]
          /\ cache' = IF outcome = "ok" THEN [cache EXCEPT ![g] = Remember(@, n)] ELSE cache
          /\ accepted' = IF outcome = "ok" THEN [accepted EXCEPT ![g] = Append(@, n)] ELSE accepted
    /\ audit' = audit + 1
    /\ UNCHANGED <<disk, changes, dirty, commands, entry, gens, requests, reload, adv, daemon>>
    /\ UNCHANGED <<peers, lock, app, regs, reg, link, inbox, asked, budget>>

\* The client hangs up and handle_connection drops the future, with the slot and the lock it holds.
Cancel(c) ==
    /\ chal[c].pc \in {"queue", "notify", "wait"}
    /\ Finish(c, "cancelled", 0)
    /\ call' = [call EXCEPT ![c] = Idle]
    /\ lock' = IF lock = c THEN NoCall ELSE lock
    /\ UNCHANGED <<disk, changes, dirty, commands, entry, gens, cache, requests, accepted, reload, adv, daemon>>
    /\ UNCHANGED <<peers, app, regs, reg, link, inbox, asked, budget>>

-----------------------------------------------------------------------------
(* Bond store, watcher and reload                                          *)

\* A pairing is promoted or a bond is revoked.
Change(p) ==
    /\ daemon # "down" /\ changes > 0
    /\ disk' = IF p \in disk THEN disk \ {p} ELSE disk \cup {p}
    /\ changes' = changes - 1
    /\ dirty' = TRUE
    /\ UNCHANGED <<commands, entry, gens, cache, chal, requests, audit, accepted, reload, adv, daemon, pvars>>

\* spawn_inotify_watcher: the events of one debounce window become one command.
Watch ==
    /\ Serving /\ dirty
    /\ dirty' = FALSE
    /\ commands' = commands + 1
    /\ UNCHANGED <<disk, changes, entry, gens, cache, chal, requests, audit, accepted, reload, adv, daemon, pvars>>

\* compute_new_set and compute_diff
ReloadBegins ==
    /\ Serving /\ reload.pc = "idle" /\ commands > 0
    /\ commands' = commands - 1
    /\ reload' = [pc |-> "next", remove |-> Known \ disk, add |-> disk \ Known]
    /\ UNCHANGED <<disk, changes, dirty, entry, gens, cache, chal, requests, audit, accepted, adv, daemon, pvars>>

ReloadCalls(next, pc, p) ==
    /\ call' = Begin(Reloader, pc, p, Revoke)
    /\ reload' = next
    /\ UNCHANGED <<disk, changes, dirty, commands, cache, chal, requests, audit, accepted, adv, daemon>>
    /\ UNCHANGED <<peers, lock, app, regs, reg, link, inbox, asked, budget>>

ReloadNotifies(p) ==
    /\ reload.pc = "next" /\ p \in reload.remove
    /\ ReloadCalls([reload EXCEPT !.pc = "notice", !.remove = @ \ {p}], "drain", p)
    /\ UNCHANGED <<entry, gens>>

\* The notice is best effort: delivered or not, the peer goes.
ReloadNotified ==
    /\ reload.pc = "notice" /\ At(Reloader, "returned")
    /\ ReloadCalls([reload EXCEPT !.pc = "removing"], "remove", call[Reloader].peer)
    /\ UNCHANGED <<entry, gens>>

ReloadAdds(p) ==
    /\ reload.pc = "next" /\ reload.remove = {} /\ p \in reload.add
    /\ ReloadCalls([reload EXCEPT !.pc = "adding", !.add = @ \ {p}], "add", p)
    /\ UNCHANGED <<entry, gens>>

MutantIgnoresResult ==
    /\ reload.pc \in {"removing", "adding"} /\ At(Reloader, "returned")
    /\ LET p == call[Reloader].peer IN
         IF reload.pc = "adding" THEN EntryAdded(p)
         ELSE entry' = [entry EXCEPT ![p] = 0] /\ UNCHANGED gens
    /\ call' = [call EXCEPT ![Reloader] = Idle]
    /\ reload' = [reload EXCEPT !.pc = "next"]
    /\ UNCHANGED <<disk, changes, dirty, commands, cache, chal, requests, audit, accepted, adv, daemon>>
    /\ UNCHANGED <<peers, lock, app, regs, reg, link, inbox, asked, budget>>

\* do_remove_peer and do_add_peer: the orchestrator's map follows the peripheral's answer.
ReloadReturned ==
    /\ reload.pc \in {"removing", "adding"} /\ At(Reloader, "returned")
    /\ LET p == call[Reloader].peer IN
         IF call[Reloader].result # "ok" THEN UNCHANGED <<entry, gens>>
         ELSE IF reload.pc = "adding" THEN EntryAdded(p)
         ELSE entry' = [entry EXCEPT ![p] = 0] /\ UNCHANGED gens
    /\ call' = [call EXCEPT ![Reloader] = Idle]
    /\ reload' = [reload EXCEPT !.pc = "next"]
    /\ UNCHANGED <<disk, changes, dirty, commands, cache, chal, requests, audit, accepted, adv, daemon>>
    /\ UNCHANGED <<peers, lock, app, regs, reg, link, inbox, asked, budget>>

MutantNoRotation ==
    /\ reload.pc = "next" /\ reload.remove = {} /\ reload.add = {}
    /\ daemon' = IF Known = {} THEN "stopping" ELSE daemon
    /\ reload' = [reload EXCEPT !.pc = "idle"]
    /\ UNCHANGED <<disk, changes, dirty, commands, entry, gens, cache, chal, requests, audit, accepted, adv>>
    /\ UNCHANGED pvars

\* The last entry is gone: SIGTERM to itself.  Either way the advertisement is published.
ReloadEnds ==
    /\ reload.pc = "next" /\ reload.remove = {} /\ reload.add = {}
    /\ daemon' = IF Known = {} THEN "stopping" ELSE daemon
    /\ reload' = [reload EXCEPT !.pc = "idle"]
    /\ Rotate(Known)
    /\ UNCHANGED <<disk, changes, dirty, commands, entry, gens, cache, chal, requests, audit, accepted>>
    /\ UNCHANGED <<peers, lock, app, regs, reg, call, link, inbox, asked>>

Tick ==
    /\ Serving /\ reload.pc = "idle"
    /\ Rotate(Known) /\ adv' # adv
    /\ UNCHANGED <<disk, changes, dirty, commands, entry, gens, cache, chal, requests, audit, accepted, reload, daemon>>
    /\ UNCHANGED <<peers, lock, app, regs, reg, call, link, inbox, asked>>

\* The signal reaches run: the loop stops between two commands, and the process takes its connections with it.
Exit ==
    /\ daemon = "stopping" /\ reload.pc = "idle"
    /\ daemon' = "down"
    /\ adv' = {} /\ app' = 0 /\ lock' = NoCall
    /\ call' = [t \in Task |-> Idle]
    /\ chal' = [c \in Caller |-> IF chal[c].pc \in {"idle", "done"} THEN chal[c] ELSE [chal[c] EXCEPT !.pc = "done", !.outcome = "cancelled"]]
    /\ UNCHANGED <<disk, changes, dirty, commands, entry, gens, cache, requests, audit, accepted, reload>>
    /\ UNCHANGED <<peers, regs, reg, link, inbox, asked, budget>>

ChallengeStep(c) == AcquireSlot(c) \/ QueueTimesOut(c) \/ Notified(c) \/ Judge(c)

ReloadStep ==
    \/ BootEmpty \/ BootSeeded \/ ReloadBegins \/ ReloadNotified \/ ReloadReturned \/ ReloadEnds
    \/ \E p \in Peer : BootSeeds(p) \/ ReloadNotifies(p) \/ ReloadAdds(p)

Next ==
    \/ \E t \in Task : CallStep(t) /\ UNCHANGED ovars
    \/ Surroundings /\ UNCHANGED ovars
    \/ \E c \in Caller : ChallengeStep(c) \/ Cancel(c) \/ \E p \in Peer : Request(c, p)
    \/ \E p \in Peer : Change(p)
    \/ Watch \/ ReloadStep \/ Tick \/ Exit

Spec == Init /\ [][Next]_vars

\* Every task of the runtime is polled again once it can go on, and its timers fire.
Fairness ==
    /\ \A t \in Task : WF_vars(CallStep(t) /\ UNCHANGED ovars)
    /\ \A c \in Caller : WF_vars(ChallengeStep(c))
    /\ WF_vars(Watch) /\ WF_vars(ReloadStep) /\ WF_vars(Tick)

FairSpec == Spec /\ Fairness

-----------------------------------------------------------------------------
(* Properties                                                              *)

\* Between the steps of a reload the orchestrator's map and the peripheral's hold the same peers
\* (do_remove_peer, do_add_peer): a challenge never finds a peer in one and not in the other.
MapsAgree == reload.pc \in {"idle", "next"} => Known = {p \in Peer : peers[p] # 0}

\* The answer a challenge judges was written by the phone after that challenge began: the drain of
\* notify_challenge leaves nothing of an earlier, timed-out or abandoned challenge behind.
AnswerIsAfterRequest == \A c \in Caller : chal[c].answer # NoAnswer => chal[c].answer.at >= chal[c].no

\* Once a reload is over, no peer that left is advertised any more, even when BlueZ refuses the new
\* advertisement (rotate_once, set_session_uuids).
RevokedIsNotAdvertised == reload.pc = "idle" => adv \ {NoPeer} \subseteq Known

\* An entry accepts a nonce once as long as its cache remembers it (NonceCache, NONCE_LRU_CAP), whatever
\* challenges overlap, time out or are abandoned in between.
NonceIsSingleUse ==
    \A g \in Gens : \A i, j \in DOMAIN accepted[g] : i < j /\ accepted[g][i] = accepted[g][j] => j - i > NonceLruCap

\* No task of the daemon is inside the peripheral and no reload is under way.
Quiet == daemon = "running" /\ reload.pc = "idle" /\ \A t \in Task : At(t, "idle")

\* "Register the GATT Application with N services (one per peer)" (specs/unlock-proximity/SPEC.md, Rehydration):
\* at rest every peer the orchestrator serves has its service in the live application.
EveryPeerHasItsService == Quiet => \A p \in Known : app # 0 /\ reg[app].peer = p

\* "Load bonds.toml. For each non-revoked bond, load the corresponding key" (SPEC.md, Rehydration): a daemon
\* that has started serves every bond it found.
ColdStartServesEveryBond == Quiet /\ changes = MaxChanges => Known = disk

\* "The pair service is always-present" (PersistentPeripheral::new): at rest the live application carries it.
PairServiceIsPresent == Quiet => app # 0 /\ reg[app].peer = NoPeer

\* "Drop a peer's characteristics from the GATT application" (Peripheral::remove_peer): at rest the live
\* application carries no peer the orchestrator has removed.
RemovedPeerHasNoService == Quiet /\ app # 0 => reg[app].peer \in Known \cup {NoPeer}

\* "at most one in-flight challenge per peer" (SPEC.md, Backpressure).
OneChallengePerPeer ==
    \A c, d \in Caller : {chal[c].pc, chal[d].pc} \subseteq {"notify", "wait"} /\ chal[c].peer = chal[d].peer => c = d

\* "Response nonce mismatch ... reason=replay" (SPEC.md, Failure Taxonomy): an answer the peer signed for
\* another nonce ends the challenge as a replay.
MismatchIsReplay ==
    \A c \in Caller : chal[c].answer.by = chal[c].peer /\ chal[c].answer.frame # chal[c].nonce => chal[c].outcome = "replay"

\* "every challenge transaction writes one structured line" (SPEC.md, Audit).
EveryChallengeIsAudited ==
    requests = audit + Cardinality({c \in Caller : chal[c].pc \in {"queue", "notify", "wait"}})

\* "with no associated phone there is nothing to serve" (Orchestrator.exit_when_empty): the daemon stops itself
\* only when the store has no bond.
StopsOnlyWithoutBonds == [][daemon # "stopping" /\ daemon' = "stopping" => disk = {}]_vars

\* Every challenge ends (issue_challenge_cancellable), although wait_for_response keeps the whole map locked
\* and a rebuild may be under way for another peer.
EveryChallengeEnds == \A c \in Caller : chal[c].pc = "queue" ~> chal[c].pc = "done"

\* Without refusals, a change of the store is followed by the peers it leaves being served
\* (spawn_inotify_watcher, reload_bonds_with_trigger), or by the daemon stopping.
ReloadConverges ==
    dirty \/ commands > 0 ~> Known = disk \/ budget.faults < MaxFaults \/ daemon \in {"down", "stopping", "socket-only"}
=============================================================================
