----------------------------- MODULE Peripheral -----------------------------
(***************************************************************************)
(* PersistentPeripheral of crates/syauth-transport/src/peripheral.rs: the  *)
(* peers map with its lock, the one live GATT application, one             *)
(* registration per application ever served, and the calls notify_         *)
(* challenge, wait_for_response, add_peer and remove_peer, cut where the   *)
(* code awaits.  Several calls run at once: one per PAM connection and one *)
(* for the orchestrator's reload.                                          *)
(*                                                                         *)
(* The phones and BlueZ are external.  A phone subscribes to the live      *)
(* application when it carries its service, loses its link at any time,    *)
(* and answers each challenge it was given at most once, late or never.    *)
(***************************************************************************)
EXTENDS Naturals, Sequences, FiniteSets

CONSTANTS
    Peer,       \* peer ids
    NoPeer,     \* owner of the pair-mode application
    Caller,     \* PAM connections served at the same time
    Reloader,   \* the orchestrator's own task
    MaxRegs,    \* bound on the GATT applications ever served
    MaxAsked,   \* bound on the challenges sent
    MaxFaults,  \* bound on refused registrations and advertisements
    MaxDrops    \* bound on lost links

ASSUME PeripheralAssumption ==
    /\ NoPeer \notin Peer
    /\ Reloader \notin Caller
    /\ MaxRegs \in Nat \ {0}
    /\ {MaxAsked, MaxFaults, MaxDrops} \subseteq Nat

VARIABLES
    peers,   \* PersistentPeripheral.peers: the registration a peer's entry holds, 0 without entry
    lock,    \* the call that holds the lock of peers across an await, or NoCall
    app,     \* app_handle: the live registration, 0 for None
    regs,    \* applications served so far
    reg,     \* per registration: its peer, its writer slot (dead once the link is lost), its control task, its responses
    call,    \* the peripheral call each task is in
    link,    \* the registration each phone is subscribed to, 0 for none
    inbox,   \* the challenges each phone holds unanswered
    asked,   \* challenges begun so far: the clock of AnswerIsAfterRequest
    budget   \* refusals and lost links the environment may still cause

pvars == <<peers, lock, app, regs, reg, call, link, inbox, asked, budget>>

Task == Caller \cup {Reloader}
NoCall == "none"
Revoke == 0                 \* the frame of a revoke notice; a challenge is its nonce
Frame == 0..MaxAsked
Regs == 1..MaxRegs

\* response_tx carries the signature a phone made, with the number of challenges begun when it was written.
Answers == [by : Peer, frame : Frame, at : 0..MaxAsked]
NoAnswer == [by |-> NoPeer, frame |-> Revoke, at |-> 0]

Registration == [peer : Peer \cup {NoPeer}, writer : BOOLEAN, dead : BOOLEAN, task : BOOLEAN, rx : Seq(Answers)]
Fresh(p) == [peer |-> p, writer |-> FALSE, dead |-> FALSE, task |-> TRUE, rx |-> <<>>]

Results == {"none", "ok", "unknown-peer", "already-added", "backend", "timeout"}
CallPc == {"idle", "drain", "look", "write", "rebuild", "drop", "serve", "swap", "resubscribe", "await", "receiving",
           "remove", "add", "add_serve", "add_insert", "returned"}
Calls == [pc : CallPc, peer : Peer \cup {NoPeer}, frame : Frame, attempt : 0..1, slot : 0..MaxRegs,
          result : Results, answer : Answers \cup {NoAnswer}]

Idle == [pc |-> "idle", peer |-> NoPeer, frame |-> Revoke, attempt |-> 0, slot |-> 0, result |-> "none", answer |-> NoAnswer]

PeripheralTypeOK ==
    /\ peers \in [Peer -> 0..MaxRegs]
    /\ lock \in Task \cup {NoCall}
    /\ app \in 0..MaxRegs /\ regs \in 0..MaxRegs
    /\ reg \in [Regs -> Registration]
    /\ call \in [Task -> Calls]
    /\ link \in [Peer -> 0..MaxRegs]
    /\ inbox \in [Peer -> SUBSET Frame]
    /\ asked \in 0..MaxAsked
    /\ budget \in [faults : 0..MaxFaults, drops : 0..MaxDrops]

\* PersistentPeripheral::new serves the pair-mode application alone.
PeripheralInit ==
    /\ peers = [p \in Peer |-> 0]
    /\ lock = NoCall
    /\ app = 1 /\ regs = 1
    /\ reg = [r \in Regs |-> IF r = 1 THEN Fresh(NoPeer) ELSE [Fresh(NoPeer) EXCEPT !.task = FALSE]]
    /\ call = [t \in Task |-> Idle]
    /\ link = [p \in Peer |-> 0]
    /\ inbox = [p \in Peer |-> {}]
    /\ asked = 0
    /\ budget = [faults |-> MaxFaults, drops |-> MaxDrops]

-----------------------------------------------------------------------------
(* How a call begins, moves and returns.                                   *)

Begin(t, pc, p, frame) == [call EXCEPT ![t] = [Idle EXCEPT !.pc = pc, !.peer = p, !.frame = frame]]
GoesTo(t, pc) == call' = [call EXCEPT ![t].pc = pc]
Returns(t, result) == call' = [call EXCEPT ![t].pc = "returned", ![t].result = result]
At(t, pc) == call[t].pc = pc
Unlocked == lock = NoCall

-----------------------------------------------------------------------------
(* notify_challenge                                                        *)

MutantNoDrain(t) ==
    /\ At(t, "drain") /\ Unlocked
    /\ IF peers[call[t].peer] = 0 THEN Returns(t, "unknown-peer") ELSE GoesTo(t, "look")
    /\ UNCHANGED <<peers, lock, app, regs, reg, link, inbox, asked, budget>>

\* The answers left by an earlier challenge are thrown away.
Drain(t) ==
    /\ At(t, "drain") /\ Unlocked
    /\ LET r == peers[call[t].peer] IN
         IF r = 0 THEN Returns(t, "unknown-peer") /\ UNCHANGED reg
         ELSE GoesTo(t, "look") /\ reg' = [reg EXCEPT ![r].rx = <<>>]
    /\ UNCHANGED <<peers, lock, app, regs, link, inbox, asked, budget>>

\* The writer slot is cloned under the lock and used after it.
LookUpWriter(t) ==
    /\ At(t, "look") /\ Unlocked
    /\ LET r == peers[call[t].peer] IN
         IF r = 0 THEN Returns(t, "unknown-peer")
         ELSE call' = [call EXCEPT ![t].pc = "write", ![t].slot = r]
    /\ UNCHANGED <<peers, lock, app, regs, reg, link, inbox, asked, budget>>

Reaches(r) == app = r /\ ~reg[r].dead /\ reg[r].peer \in Peer /\ link[reg[r].peer] = r

\* The frame is on its way to the subscribed phone.
WriteDelivers(t) ==
    /\ At(t, "write")
    /\ LET r == call[t].slot IN
         /\ reg[r].writer /\ Reaches(r)
         /\ inbox' = [inbox EXCEPT ![reg[r].peer] = IF call[t].frame = Revoke THEN @ ELSE @ \cup {call[t].frame}]
    /\ Returns(t, "ok")
    /\ UNCHANGED <<peers, lock, app, regs, reg, link, asked, budget>>

\* The writer outlived its subscription and the write disappears without an error.
WriteVanishes(t) ==
    /\ At(t, "write")
    /\ LET r == call[t].slot IN reg[r].writer /\ ~Reaches(r)
    /\ Returns(t, "ok")
    /\ UNCHANGED <<peers, lock, app, regs, reg, link, inbox, asked, budget>>

\* No writer, or one that reports its subscription is gone: rebuild once, then give up.
WriteFails(t) ==
    /\ At(t, "write")
    /\ LET r == call[t].slot IN
         /\ ~(reg[r].writer /\ Reaches(r))
         /\ reg' = IF call[t].attempt = 0 THEN [reg EXCEPT ![r].writer = FALSE] ELSE reg
    /\ IF call[t].attempt = 0 THEN GoesTo(t, "rebuild") ELSE Returns(t, "backend")
    /\ UNCHANGED <<peers, lock, app, regs, link, inbox, asked, budget>>

\* rebuild_peer_registration: the peer's control task is aborted ...
RebuildAborts(t) ==
    /\ At(t, "rebuild") /\ Unlocked
    /\ LET r == peers[call[t].peer] IN
         IF r = 0 THEN Returns(t, "unknown-peer") /\ UNCHANGED reg
         ELSE GoesTo(t, "drop") /\ reg' = [reg EXCEPT ![r].task = FALSE]
    /\ UNCHANGED <<peers, lock, app, regs, link, inbox, asked, budget>>

\* ... the live application is dropped and every connected phone is disconnected ...
RebuildDrops(t) ==
    /\ At(t, "drop")
    /\ app' = 0
    /\ link' = [p \in Peer |-> 0]
    /\ GoesTo(t, "serve")
    /\ UNCHANGED <<peers, lock, regs, reg, inbox, asked, budget>>

\* build_and_register_peer: an application with the service of this one peer replaces the live one.
Served(t, next) ==
    /\ regs < MaxRegs
    /\ regs' = regs + 1
    /\ app' = regs + 1
    /\ reg' = [reg EXCEPT ![regs + 1] = Fresh(call[t].peer)]
    /\ call' = [call EXCEPT ![t].pc = next, ![t].slot = regs + 1]
    /\ UNCHANGED <<peers, lock, link, inbox, asked, budget>>

\* BlueZ refuses the registration: a fault, or another application is live.
Refused(t) ==
    /\ \/ app # 0 /\ UNCHANGED budget
       \/ budget.faults > 0 /\ budget' = [budget EXCEPT !.faults = @ - 1]
    /\ Returns(t, "backend")
    /\ UNCHANGED <<peers, lock, app, regs, reg, link, inbox, asked>>

RebuildServes(t) == At(t, "serve") /\ (Served(t, "swap") \/ Refused(t))

\* ... and the new registration goes into the peer's entry, if there still is one.
RebuildSwaps(t) ==
    /\ At(t, "swap") /\ Unlocked
    /\ LET p == call[t].peer IN
         IF peers[p] = 0 THEN UNCHANGED <<peers, reg>>
         ELSE /\ reg' = [reg EXCEPT ![peers[p]].writer = FALSE]
              /\ peers' = [peers EXCEPT ![p] = call[t].slot]
    /\ GoesTo(t, "resubscribe")
    /\ UNCHANGED <<lock, app, regs, link, inbox, asked, budget>>

\* One poll of the wait for a fresh subscription.
Resubscribed(t) ==
    /\ At(t, "resubscribe") /\ Unlocked
    /\ LET r == peers[call[t].peer] IN
         IF r = 0 THEN Returns(t, "unknown-peer")
         ELSE reg[r].writer /\ call' = [call EXCEPT ![t].pc = "look", ![t].attempt = 1]
    /\ UNCHANGED <<peers, lock, app, regs, reg, link, inbox, asked, budget>>

MutantPollsForever(t) ==
    /\ At(t, "resubscribe") /\ Unlocked
    /\ peers[call[t].peer] # 0 /\ ~reg[peers[call[t].peer]].writer
    /\ UNCHANGED pvars

ResubscribeTimesOut(t) ==
    /\ At(t, "resubscribe") /\ Unlocked
    /\ peers[call[t].peer] # 0 /\ ~reg[peers[call[t].peer]].writer
    /\ Returns(t, "backend")
    /\ UNCHANGED <<peers, lock, app, regs, reg, link, inbox, asked, budget>>

-----------------------------------------------------------------------------
(* wait_for_response holds the lock of the whole map while it waits.       *)

Await(t) ==
    /\ At(t, "await") /\ Unlocked
    /\ IF peers[call[t].peer] = 0 THEN Returns(t, "unknown-peer") /\ UNCHANGED lock
       ELSE GoesTo(t, "receiving") /\ lock' = t
    /\ UNCHANGED <<peers, app, regs, reg, link, inbox, asked, budget>>

Receive(t) ==
    /\ At(t, "receiving")
    /\ LET r == peers[call[t].peer] IN
         /\ reg[r].rx # <<>>
         /\ reg' = [reg EXCEPT ![r].rx = Tail(@)]
         /\ call' = [call EXCEPT ![t].pc = "returned", ![t].result = "ok", ![t].answer = Head(reg[r].rx)]
    /\ lock' = NoCall
    /\ UNCHANGED <<peers, app, regs, link, inbox, asked, budget>>

MutantKeepsLock(t) ==
    /\ At(t, "receiving")
    /\ reg[peers[call[t].peer]].rx = <<>>
    /\ Returns(t, "timeout")
    /\ UNCHANGED <<peers, lock, app, regs, reg, link, inbox, asked, budget>>

ReceiveTimesOut(t) ==
    /\ At(t, "receiving")
    /\ reg[peers[call[t].peer]].rx = <<>>
    /\ Returns(t, "timeout")
    /\ lock' = NoCall
    /\ UNCHANGED <<peers, app, regs, reg, link, inbox, asked, budget>>

-----------------------------------------------------------------------------
(* remove_peer and add_peer                                                *)

RemovePeer(t) ==
    /\ At(t, "remove") /\ Unlocked
    /\ LET p == call[t].peer IN
         IF peers[p] = 0 THEN Returns(t, "unknown-peer") /\ UNCHANGED <<peers, reg, app>>
         ELSE /\ peers' = [peers EXCEPT ![p] = 0]
              /\ reg' = [reg EXCEPT ![peers[p]].task = FALSE]
              /\ app' = 0
              /\ Returns(t, "ok")
    /\ UNCHANGED <<lock, regs, link, inbox, asked, budget>>

AddPeer(t) ==
    /\ At(t, "add") /\ Unlocked
    /\ IF peers[call[t].peer] # 0 THEN Returns(t, "already-added") /\ UNCHANGED app
       ELSE GoesTo(t, "add_serve") /\ app' = 0
    /\ UNCHANGED <<peers, lock, regs, reg, link, inbox, asked, budget>>

AddServes(t) == At(t, "add_serve") /\ (Served(t, "add_insert") \/ Refused(t))

AddInserts(t) ==
    /\ At(t, "add_insert") /\ Unlocked
    /\ peers' = [peers EXCEPT ![call[t].peer] = call[t].slot]
    /\ Returns(t, "ok")
    /\ UNCHANGED <<lock, app, regs, reg, link, inbox, asked, budget>>

-----------------------------------------------------------------------------
(* Control tasks and phones                                                *)

\* The streams of an application end with it; its task clears the writer slot and exits.
TaskEnds(r) ==
    /\ reg[r].task /\ app # r
    /\ reg' = [reg EXCEPT ![r].task = FALSE, ![r].writer = FALSE]
    /\ UNCHANGED <<peers, lock, app, regs, call, link, inbox, asked, budget>>

\* A phone finds its service in the live application and subscribes: the task stores the writer.  When the
\* application had a subscription before, BlueZ may merge the new one into it and raise no Notify event.
Subscribe(p) ==
    /\ app # 0 /\ reg[app].peer = p /\ reg[app].task /\ link[p] # app
    /\ link' = [link EXCEPT ![p] = app]
    /\ \/ reg' = [reg EXCEPT ![app].writer = TRUE, ![app].dead = FALSE]
       \/ reg[app].dead /\ UNCHANGED reg
    /\ UNCHANGED <<peers, lock, app, regs, call, inbox, asked, budget>>

LoseLink(p) ==
    /\ link[p] # 0 /\ budget.drops > 0
    /\ link' = [link EXCEPT ![p] = 0]
    /\ reg' = [reg EXCEPT ![link[p]].dead = TRUE]
    /\ budget' = [budget EXCEPT !.drops = @ - 1]
    /\ UNCHANGED <<peers, lock, app, regs, call, inbox, asked>>

\* The user approves a challenge; the signature is written on the response characteristic.
Answer(p) ==
    /\ app # 0 /\ link[p] = app /\ reg[app].task
    /\ \E f \in inbox[p] :
         /\ inbox' = [inbox EXCEPT ![p] = @ \ {f}]
         /\ reg' = [reg EXCEPT ![app].rx = Append(@, [by |-> p, frame |-> f, at |-> asked])]
    /\ UNCHANGED <<peers, lock, app, regs, call, link, asked, budget>>

CallStep(t) ==
    \/ Drain(t) \/ LookUpWriter(t) \/ WriteDelivers(t) \/ WriteVanishes(t) \/ WriteFails(t)
    \/ RebuildAborts(t) \/ RebuildDrops(t) \/ RebuildServes(t) \/ RebuildSwaps(t)
    \/ Resubscribed(t) \/ ResubscribeTimesOut(t)
    \/ Await(t) \/ Receive(t) \/ ReceiveTimesOut(t)
    \/ RemovePeer(t) \/ AddPeer(t) \/ AddServes(t) \/ AddInserts(t)

Surroundings ==
    \/ \E r \in Regs : TaskEnds(r)
    \/ \E p \in Peer : Subscribe(p) \/ LoseLink(p) \/ Answer(p)
=============================================================================
