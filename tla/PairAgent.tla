----------------------------- MODULE PairAgent ------------------------------
(***************************************************************************)
(* The BlueZ pairing agent of a pair session: spawn_pair_session_listener  *)
(* (runtime.rs), which runs one task for every connection a pairing dialog *)
(* opens, and acquire_pair_agent / release_pair_agent (peripheral.rs),     *)
(* which register the agent and drive the adapter's Pairable flag under    *)
(* one mutex.  The adapter is external: a write can answer Busy and change *)
(* nothing, a read can fail, a registration can be refused.  Nothing else  *)
(* writes the flag.                                                        *)
(***************************************************************************)
EXTENDS Naturals

CONSTANTS
    Dialog,      \* connections to the pair-session socket
    NoDialog,    \* the mutex is free
    Retries,     \* ADAPTER_MODE_RETRIES
    MaxBusy,     \* bound on the writes BlueZ refuses
    MaxUnread,   \* bound on the reads that fail
    MaxRefused   \* bound on the registrations that fail

ASSUME PairAgentAssumption ==
    /\ NoDialog \notin Dialog
    /\ Retries \in Nat /\ MaxBusy \in Nat /\ MaxUnread \in Nat /\ MaxRefused \in Nat

VARIABLES
    pairable,  \* the adapter's flag
    own,       \* history: its value before DeskUnlock touched it
    held,      \* PairAgentSession.handle is Some
    restore,   \* PairAgentSession.restore: whether the flag was changed, and its previous value
    mutex,     \* the task inside acquire or release
    pc,        \* where each connection's task is
    previous,  \* previous_pairable of the acquiring task
    changed,   \* pairable_changed of the acquiring task
    tries,     \* attempts left in ensure_pairable_with
    unrestored,\* history: a write meant to restore the flag was refused
    faults     \* what BlueZ may still refuse

agentVars == <<pairable, own, held, restore, mutex, pc, previous, changed, tries, unrestored, faults>>

\* The types, and the mutex: only its owner is inside an acquisition.
AgentTypeOK ==
    /\ pairable \in BOOLEAN /\ own \in BOOLEAN /\ held \in BOOLEAN
    /\ previous \in BOOLEAN /\ changed \in BOOLEAN /\ unrestored \in BOOLEAN
    /\ restore \in [changed : BOOLEAN, previous : BOOLEAN]
    /\ pc \in [Dialog -> {"closed", "connected", "previous", "check", "set", "verify", "register", "open", "leaving"}]
    /\ mutex \in Dialog \cup {NoDialog}
    /\ tries \in 0..Retries
    /\ faults \in [busy : 0..MaxBusy, unread : 0..MaxUnread, refused : 0..MaxRefused]
    /\ \A d \in Dialog : (mutex = d) = (pc[d] \in {"previous", "check", "set", "verify", "register"})

NothingToRestore == [changed |-> FALSE, previous |-> FALSE]

AgentInit ==
    /\ own \in BOOLEAN /\ pairable = own
    /\ held = FALSE /\ restore = NothingToRestore
    /\ mutex = NoDialog
    /\ pc = [d \in Dialog |-> "closed"]
    /\ previous = FALSE /\ changed = FALSE /\ tries = 0
    /\ unrestored = FALSE
    /\ faults = [busy |-> MaxBusy, unread |-> MaxUnread, refused |-> MaxRefused]

GoesTo(d, p) == pc' = [pc EXCEPT ![d] = p]

\* adapter.pairable().await.unwrap_or(false)
Reads(value) ==
    \/ value = pairable /\ UNCHANGED faults
    \/ value = FALSE /\ faults.unread > 0 /\ faults' = [faults EXCEPT !.unread = @ - 1]

\* let _ = adapter.set_pairable(value).await
Writes(value) ==
    \/ pairable' = value /\ UNCHANGED faults
    \/ faults.busy > 0 /\ faults' = [faults EXCEPT !.busy = @ - 1] /\ UNCHANGED pairable

\* The flag goes back to what it was, when it was changed.
Restores(isChanged, value) ==
    IF isChanged
    THEN Writes(value) /\ unrestored' = (unrestored \/ pairable' # value)
    ELSE UNCHANGED <<pairable, unrestored, faults>>

-----------------------------------------------------------------------------
OpenSession(d) ==
    /\ pc[d] = "closed"
    /\ GoesTo(d, "connected")
    /\ UNCHANGED <<pairable, own, held, restore, mutex, previous, changed, tries, unrestored, faults>>

\* acquire_pair_agent: an agent that is held already is enough.
Acquire(d) ==
    /\ pc[d] = "connected" /\ mutex = NoDialog
    /\ IF held THEN GoesTo(d, "open") /\ UNCHANGED mutex ELSE GoesTo(d, "previous") /\ mutex' = d
    /\ UNCHANGED <<pairable, own, held, restore, previous, changed, tries, unrestored, faults>>

ReadPrevious(d) ==
    /\ pc[d] = "previous"
    /\ \E value \in BOOLEAN : Reads(value) /\ previous' = value
    /\ GoesTo(d, "check")
    /\ UNCHANGED <<pairable, own, held, restore, mutex, changed, tries, unrestored>>

\* ensure_pairable_with, up to its loop.
Check(d) ==
    /\ pc[d] = "check"
    /\ \E value \in BOOLEAN : Reads(value) /\ GoesTo(d, IF value THEN "register" ELSE "set")
    /\ changed' = FALSE
    /\ tries' = Retries
    /\ UNCHANGED <<pairable, own, held, restore, mutex, previous, unrestored>>

SetPairable(d) ==
    /\ pc[d] = "set" /\ tries > 0
    /\ Writes(TRUE)
    /\ tries' = tries - 1
    /\ GoesTo(d, "verify")
    /\ UNCHANGED <<own, held, restore, mutex, previous, changed, unrestored>>

Verify(d) ==
    /\ pc[d] = "verify"
    /\ \E value \in BOOLEAN :
          /\ Reads(value)
          /\ changed' = value
          /\ GoesTo(d, IF value THEN "register" ELSE "set")
    /\ UNCHANGED <<pairable, own, held, restore, mutex, previous, tries, unrestored>>

\* The error of ensure_pairable leaves acquire_pair_agent_with at once, and the task ends.
Unverified(d) ==
    /\ pc[d] = "set" /\ tries = 0
    /\ GoesTo(d, "closed")
    /\ mutex' = NoDialog
    /\ UNCHANGED <<pairable, own, held, restore, previous, changed, tries, unrestored, faults>>

Register(d) ==
    /\ pc[d] = "register"
    /\ held' = TRUE
    /\ restore' = [changed |-> changed, previous |-> changed /\ previous]
    /\ GoesTo(d, "open")
    /\ mutex' = NoDialog
    /\ UNCHANGED <<pairable, own, previous, changed, tries, unrestored, faults>>

MutantNoRollback(d) ==
    /\ pc[d] = "register" /\ faults.refused > 0
    /\ faults' = [faults EXCEPT !.refused = @ - 1]
    /\ GoesTo(d, "closed")
    /\ mutex' = NoDialog
    /\ UNCHANGED <<pairable, own, held, restore, previous, changed, tries, unrestored>>

\* A refused registration rolls the flag back.
Refused(d) ==
    /\ pc[d] = "register" /\ faults.refused > 0
    /\ \/ /\ faults' = [faults EXCEPT !.refused = @ - 1]
          /\ pairable' = (IF changed THEN previous ELSE pairable)
          /\ UNCHANGED unrestored
       \/ /\ changed /\ faults.busy > 0
          /\ faults' = [faults EXCEPT !.refused = @ - 1, !.busy = @ - 1]
          /\ unrestored' = TRUE
          /\ UNCHANGED pairable
    /\ GoesTo(d, "closed")
    /\ mutex' = NoDialog
    /\ UNCHANGED <<own, held, restore, previous, changed, tries>>

\* The dialog closes: the task's read of one byte returns.
Disconnect(d) ==
    /\ pc[d] = "open"
    /\ GoesTo(d, "leaving")
    /\ UNCHANGED <<pairable, own, held, restore, mutex, previous, changed, tries, unrestored, faults>>

MutantReleaseByNobody(d) ==
    /\ pc[d] = "leaving" /\ mutex = NoDialog
    /\ GoesTo(d, "closed")
    /\ UNCHANGED <<pairable, own, held, restore, mutex, previous, changed, tries, unrestored, faults>>

\* release_pair_agent: whoever leaves first drops the agent, the others find none.
Release(d) ==
    /\ pc[d] = "leaving" /\ mutex = NoDialog
    /\ Restores(restore.changed, restore.previous)
    /\ held' = FALSE /\ restore' = NothingToRestore
    /\ GoesTo(d, "closed")
    /\ UNCHANGED <<own, mutex, previous, changed, tries>>

AgentNext ==
    \E d \in Dialog :
        \/ OpenSession(d) \/ Acquire(d) \/ ReadPrevious(d) \/ Check(d) \/ SetPairable(d) \/ Verify(d)
        \/ Unverified(d) \/ Register(d) \/ Refused(d) \/ Disconnect(d) \/ Release(d)

AgentSpec == AgentInit /\ [][AgentNext]_agentVars

-----------------------------------------------------------------------------
(* Properties                                                              *)

\* DeskUnlock "never owns the general Bluetooth pairing role outside a pair session"
\* (spawn_pair_session_listener): an agent is held only while a dialog is connected or its task is leaving.
NoAgentOutsideSession == held => \E d \in Dialog : pc[d] \in {"open", "leaving"}

\* A session restores Pairable ("Pairable restored to the desktop's own value", release_pair_agent) and "a
\* failed acquisition leaves no partially acquired adapter state behind" (acquire_pair_agent_with): with nobody
\* connected the flag has the desktop's own value, unless BlueZ refused the write that would have restored it.
PairableIsAlwaysRestored ==
    (\A d \in Dialog : pc[d] \in {"closed", "connected"}) /\ ~held /\ ~unrestored => pairable = own

\* The same as long as every read of the flag succeeded: no sequence of refused writes and registrations in
\* acquire_pair_agent_with and release_pair_agent leaves the flag changed.
PairableIsRestored == faults.unread = MaxUnread => PairableIsAlwaysRestored

\* "The BlueZ default agent is acquired on connect and released on disconnect": a dialog that got its agent
\* has it until it disconnects.
AgentWhileConnected == \A d \in Dialog : pc[d] = "open" => held
=============================================================================
