--------------------------- MODULE PairAgentProofs ---------------------------
(***************************************************************************)
(* Proofs about the pairing agent, for any number of dialogs and any       *)
(* number of refused writes, failed reads and refused registrations.       *)
(***************************************************************************)
EXTENDS PairAgent, TLAPS

\* A leaf goes to the SMT solver with this limit, unless it names another prover.
USE SMTT(60)

\* The states of a task that holds the mutex.
Inside == {"previous", "check", "set", "verify", "register"}

AgentSteps == Inside \cup {"closed", "connected", "open", "leaving"}

Faults == [busy : 0..MaxBusy, unread : 0..MaxUnread, refused : 0..MaxRefused]

USE DEF Inside

LEMMA ReadsFaults ==
    ASSUME faults \in Faults, NEW value, Reads(value) PROVE faults' \in Faults
  BY PairAgentAssumption DEF Reads, Faults

LEMMA WritesFaults ==
    ASSUME faults \in Faults, NEW value, Writes(value) PROVE faults' \in Faults
  BY PairAgentAssumption DEF Writes, Faults

\* AgentTypeOK is inductive: the mutex of PairAgentSession is held by the one task that is inside an acquisition.
THEOREM AgentTypeCorrect == AgentSpec => []AgentTypeOK
<1>1. AgentInit => AgentTypeOK
  <2> SUFFICES ASSUME AgentInit PROVE AgentTypeOK
    OBVIOUS
  <2> USE PairAgentAssumption DEF AgentInit
  <2>1. faults \in Faults /\ tries \in 0..Retries /\ restore \in [changed : BOOLEAN, previous : BOOLEAN]
    BY DEF NothingToRestore, Faults
  <2>2. pc \in [Dialog -> AgentSteps] /\ mutex \in Dialog \cup {NoDialog}
        /\ \A d \in Dialog : (mutex = d) = (pc[d] \in Inside)
    BY DEF AgentSteps
  <2> QED
    BY <2>1, <2>2, ZenonT(60) DEF AgentTypeOK, AgentSteps, Faults
<1>2. AgentTypeOK /\ [AgentNext]_agentVars => AgentTypeOK'
  <2> SUFFICES ASSUME AgentTypeOK, [AgentNext]_agentVars PROVE AgentTypeOK'
    OBVIOUS
  <2> USE PairAgentAssumption DEF AgentTypeOK, GoesTo, AgentSteps
  <2>1. ASSUME NEW d \in Dialog, OpenSession(d) PROVE AgentTypeOK'
    BY <2>1 DEF OpenSession
  <2>2. ASSUME NEW d \in Dialog, Acquire(d) PROVE AgentTypeOK'
    BY <2>2 DEF Acquire
  <2>3. ASSUME NEW d \in Dialog, ReadPrevious(d) PROVE AgentTypeOK'
    BY <2>3 DEF ReadPrevious, Reads
  <2>4. ASSUME NEW d \in Dialog, Check(d) PROVE AgentTypeOK'
    <3>1. faults' \in Faults
      BY <2>4, ReadsFaults DEF Check, Faults
    <3>2. tries' \in 0..Retries
      BY <2>4 DEF Check
    <3>3. changed' \in BOOLEAN
      BY <2>4, ZenonT(60) DEF Check
    <3> QED
      BY <2>4, <3>1, <3>2, <3>3 DEF Check, Faults
  <2>5. ASSUME NEW d \in Dialog, SetPairable(d) PROVE AgentTypeOK'
    <3>1. faults' \in Faults
      BY <2>5, WritesFaults, ZenonT(60) DEF SetPairable, Faults
    <3>2. tries' \in 0..Retries
      BY <2>5 DEF SetPairable
    <3>3. pairable' \in BOOLEAN
      BY <2>5, ZenonT(60) DEF SetPairable, Writes
    <3> QED
      BY <2>5, <3>1, <3>2, <3>3 DEF SetPairable, Faults
  <2>6. ASSUME NEW d \in Dialog, Verify(d) PROVE AgentTypeOK'
    <3>1. faults' \in Faults /\ changed' \in BOOLEAN
      BY <2>6 DEF Verify, Reads, Faults
    <3> QED
      BY <2>6, <3>1 DEF Verify, Faults
  <2>7. ASSUME NEW d \in Dialog, Unverified(d) PROVE AgentTypeOK'
    BY <2>7 DEF Unverified
  <2>8. ASSUME NEW d \in Dialog, Register(d) PROVE AgentTypeOK'
    BY <2>8 DEF Register
  <2>9. ASSUME NEW d \in Dialog, Refused(d) PROVE AgentTypeOK'
    <3>1. faults' \in Faults
      <4>1. CASE faults' = [faults EXCEPT !.refused = @ - 1]
        BY <2>9, <4>1 DEF Refused, Faults
      <4>2. CASE faults.busy > 0 /\ faults' = [faults EXCEPT !.refused = @ - 1, !.busy = @ - 1]
        <5>1. faults.refused - 1 \in 0..MaxRefused /\ faults.busy - 1 \in 0..MaxBusy
          BY <2>9, <4>2 DEF Refused
        <5> QED
          BY <4>2, <5>1, ZenonT(60) DEF Faults
      <4> QED
        BY <2>9, <4>1, <4>2 DEF Refused
    <3>2. pairable' \in BOOLEAN /\ own' \in BOOLEAN /\ held' \in BOOLEAN
          /\ previous' \in BOOLEAN /\ changed' \in BOOLEAN /\ unrestored' \in BOOLEAN
          /\ restore' \in [changed : BOOLEAN, previous : BOOLEAN]
      BY <2>9, ZenonT(60) DEF Refused
    <3>3. pc' \in [Dialog -> AgentSteps]
          /\ mutex' \in Dialog \cup {NoDialog} /\ tries' \in 0..Retries
          /\ \A e \in Dialog : (mutex' = e) = (pc'[e] \in Inside)
      BY <2>9 DEF Refused
    <3> QED
      BY <3>1, <3>2, <3>3 DEF Faults
  <2>10. ASSUME NEW d \in Dialog, Disconnect(d) PROVE AgentTypeOK'
    BY <2>10 DEF Disconnect
  <2>11. ASSUME NEW d \in Dialog, Release(d) PROVE AgentTypeOK'
    <3>1. faults' \in Faults
      BY <2>11 DEF Release, Restores, Writes, Faults
    <3>2. pairable' \in BOOLEAN /\ own' \in BOOLEAN /\ held' \in BOOLEAN
          /\ previous' \in BOOLEAN /\ changed' \in BOOLEAN /\ unrestored' \in BOOLEAN
      BY <2>11, ZenonT(60) DEF Release, Restores, Writes
    <3>3. restore' \in [changed : BOOLEAN, previous : BOOLEAN]
      BY <2>11 DEF Release, NothingToRestore
    <3>4. pc' \in [Dialog -> AgentSteps]
          /\ mutex' \in Dialog \cup {NoDialog} /\ tries' \in 0..Retries
          /\ \A e \in Dialog : (mutex' = e) = (pc'[e] \in Inside)
      BY <2>11 DEF Release
    <3> QED
      BY <3>1, <3>2, <3>3, <3>4 DEF Faults
  <2>12. CASE UNCHANGED agentVars
    BY <2>12 DEF agentVars
  <2> QED
    BY <2>1, <2>2, <2>3, <2>4, <2>5, <2>6, <2>7, <2>8, <2>9, <2>10, <2>11, <2>12 DEF AgentNext
<1> QED
  BY <1>1, <1>2, PTL DEF AgentSpec

\* "DeskUnlock never owns the general Bluetooth pairing role outside a pair session": NoAgentOutsideSession follows
\* from the types alone, since only a task that is leaving drops the agent and only an acquisition makes one.
THEOREM AgentOnlyInSession == AgentSpec => []NoAgentOutsideSession
<1>1. AgentInit => NoAgentOutsideSession
  BY DEF AgentInit, NoAgentOutsideSession
<1>2. AgentTypeOK /\ NoAgentOutsideSession /\ [AgentNext]_agentVars => NoAgentOutsideSession'
  <2> SUFFICES ASSUME AgentTypeOK, NoAgentOutsideSession, [AgentNext]_agentVars, held'
               PROVE  \E e \in Dialog : pc'[e] \in {"open", "leaving"}
    BY DEF NoAgentOutsideSession
  <2>1. ASSUME NEW d \in Dialog, OpenSession(d) \/ Acquire(d) \/ ReadPrevious(d) \/ Check(d) \/ SetPairable(d)
                               \/ Verify(d) \/ Unverified(d) \/ Refused(d) \/ Disconnect(d)
        PROVE  \E e \in Dialog : pc'[e] \in {"open", "leaving"}
    <3>1. PICK e \in Dialog : pc[e] \in {"open", "leaving"}
      BY <2>1, ZenonT(60) DEF NoAgentOutsideSession, OpenSession, Acquire, ReadPrevious, Check, SetPairable, Verify, Unverified,
                  Refused, Disconnect
    <3>2. pc'[e] \in {"open", "leaving"}
      BY <2>1, <3>1, ZenonT(60) DEF AgentTypeOK, OpenSession, Acquire, ReadPrevious, Check, SetPairable, Verify, Unverified,
                        Refused, Disconnect, GoesTo
    <3> QED
      BY <3>2
  <2>2. ASSUME NEW d \in Dialog, Register(d) PROVE pc'[d] \in {"open", "leaving"}
    BY <2>2 DEF Register, GoesTo, AgentTypeOK
  <2>3. ASSUME NEW d \in Dialog, Release(d) PROVE FALSE
    BY <2>3 DEF Release
  <2>4. CASE UNCHANGED agentVars
    BY <2>4 DEF agentVars, NoAgentOutsideSession
  <2> QED
    BY <2>1, <2>2, <2>3, <2>4 DEF AgentNext
<1> QED
  BY <1>1, <1>2, AgentTypeCorrect, PTL DEF AgentSpec

-----------------------------------------------------------------------------
(* Pairable is restored.  As long as no read of the flag failed and no      *)
(* write that would restore it was refused, the flag has the desktop's own  *)
(* value except between the write of an acquisition and its rollback or     *)
(* release, and the value to go back to is kept where the next step needs   *)
(* it: in the acquiring task, then in PairAgentSession.restore.             *)
Faithful == faults.unread = MaxUnread /\ ~unrestored

Kept ==
    /\ ~held => restore = NothingToRestore
    /\ mutex # NoDialog => ~held
    /\ Faithful =>
        /\ mutex = NoDialog /\ ~held => pairable = own
        /\ held => IF restore.changed THEN restore.previous = own ELSE pairable = own
        /\ \A d \in Dialog :
            /\ pc[d] \in {"previous", "check", "set"} => pairable = own
            /\ pc[d] \in {"check", "set", "verify", "register"} => previous = own
            /\ pc[d] \in {"set", "verify"} => own = FALSE
            /\ pc[d] = "register" /\ ~changed => pairable = own

\* A failed read or a refused restoring write is remembered: what is Faithful after a step was Faithful before it.
LEMMA FaithfulBefore ==
    ASSUME AgentTypeOK, AgentTypeOK', [AgentNext]_agentVars, Faithful'
    PROVE  Faithful
<1> USE DEF AgentTypeOK
<1>1. faults.unread \in 0..MaxUnread /\ faults'.unread <= faults.unread
  <2>1. ASSUME NEW value, Reads(value) PROVE faults'.unread <= faults.unread
    BY <2>1 DEF Reads
  <2>2. ASSUME NEW value, Writes(value) PROVE faults'.unread <= faults.unread
    BY <2>2 DEF Writes
  <2>3. ASSUME NEW d \in Dialog, Refused(d) PROVE faults'.unread <= faults.unread
    <3>1. \/ faults' = [faults EXCEPT !.refused = @ - 1]
          \/ faults' = [faults EXCEPT !.refused = @ - 1, !.busy = @ - 1]
      BY <2>3 DEF Refused
    <3>2. CASE faults' = [faults EXCEPT !.refused = @ - 1]
      BY <3>2
    <3>3. CASE faults' = [faults EXCEPT !.refused = @ - 1, !.busy = @ - 1]
      <4>1. faults \in Faults
        BY DEF Faults
      <4>2. faults'.unread = faults.unread
        BY <3>3, <4>1 DEF Faults
      <4> QED
        BY <4>2
    <3> QED
      BY <3>1, <3>2, <3>3
  <2>4. ASSUME UNCHANGED faults PROVE faults'.unread <= faults.unread
    BY <2>4
  <2>5. \/ UNCHANGED faults
        \/ \E value \in BOOLEAN : Reads(value) \/ Writes(value)
        \/ \E d \in Dialog : Refused(d)
    <3>1. ASSUME NEW d \in Dialog, ReadPrevious(d) \/ Check(d) \/ Verify(d) PROVE \E value \in BOOLEAN : Reads(value)
      BY <3>1 DEF ReadPrevious, Check, Verify
    <3>2. ASSUME NEW d \in Dialog, SetPairable(d) PROVE Writes(TRUE)
      BY <3>2, ZenonT(60) DEF SetPairable
    <3>3. ASSUME NEW d \in Dialog, Release(d) PROVE UNCHANGED faults \/ Writes(restore.previous)
      BY <3>3 DEF Release, Restores
    <3>4. restore.previous \in BOOLEAN
      OBVIOUS
    <3>5. ASSUME NEW d \in Dialog, OpenSession(d) \/ Acquire(d) \/ Unverified(d) \/ Register(d) \/ Disconnect(d)
          PROVE  UNCHANGED faults
      BY <3>5 DEF OpenSession, Acquire, Unverified, Register, Disconnect
    <3> QED
      BY <3>1, <3>2, <3>3, <3>4, <3>5, ZenonT(60) DEF AgentNext, agentVars
  <2>6. faults.unread \in 0..MaxUnread
    OBVIOUS
  <2> QED
    BY <2>1, <2>2, <2>3, <2>4, <2>5, <2>6
<1>2. unrestored => unrestored'
  BY ZenonT(60) DEF AgentNext, OpenSession, Acquire, ReadPrevious, Check, SetPairable, Verify, Unverified, Register, Refused,
         Disconnect, Release, Restores, agentVars
<1> QED
  BY <1>1, <1>2, PairAgentAssumption DEF Faithful

\* "Pairable restored to the desktop's own value", and "a failed acquisition leaves no partially acquired adapter
\* state behind": PairableIsRestored for every interleaving of dialogs, and every pattern of refused writes and
\* registrations.
THEOREM PairableRestored == AgentSpec => []PairableIsRestored
<1>1. AgentInit => Kept
  BY DEF AgentInit, Kept, Faithful, NothingToRestore
<1>2. AgentTypeOK /\ AgentTypeOK' /\ Kept /\ [AgentNext]_agentVars => Kept'
  <2> SUFFICES ASSUME AgentTypeOK, AgentTypeOK', Kept, [AgentNext]_agentVars PROVE Kept'
    OBVIOUS
  <2> USE PairAgentAssumption DEF AgentTypeOK, Kept, GoesTo
  <2>0. Faithful' => Faithful
    BY FaithfulBefore
  <2>1. ASSUME NEW d \in Dialog, OpenSession(d) PROVE Kept'
    BY <2>0, <2>1 DEF OpenSession
  <2>2. ASSUME NEW d \in Dialog, Acquire(d) PROVE Kept'
    BY <2>0, <2>2 DEF Acquire
  <2>3. ASSUME NEW d \in Dialog, ReadPrevious(d) PROVE Kept'
    BY <2>0, <2>3 DEF ReadPrevious, Reads, Faithful
  <2>4. ASSUME NEW d \in Dialog, Check(d) PROVE Kept'
    BY <2>0, <2>4 DEF Check, Reads, Faithful
  <2>5. ASSUME NEW d \in Dialog, SetPairable(d) PROVE Kept'
    BY <2>0, <2>5 DEF SetPairable, Writes
  <2>6. ASSUME NEW d \in Dialog, Verify(d) PROVE Kept'
    BY <2>0, <2>6 DEF Verify, Reads, Faithful
  <2>7. ASSUME NEW d \in Dialog, Unverified(d) PROVE Kept'
    BY <2>0, <2>7 DEF Unverified
  <2>8. ASSUME NEW d \in Dialog, Register(d) PROVE Kept'
    BY <2>0, <2>8 DEF Register
  <2>9. ASSUME NEW d \in Dialog, Refused(d) PROVE Kept'
    BY <2>0, <2>9 DEF Refused, Faithful
  <2>10. ASSUME NEW d \in Dialog, Disconnect(d) PROVE Kept'
    BY <2>0, <2>10 DEF Disconnect
  <2>11. ASSUME NEW d \in Dialog, Release(d) PROVE Kept'
    BY <2>0, <2>11 DEF Release, Restores, Writes, NothingToRestore, Faithful
  <2>12. CASE UNCHANGED agentVars
    BY <2>12 DEF agentVars, Faithful
  <2> QED
    BY <2>1, <2>2, <2>3, <2>4, <2>5, <2>6, <2>7, <2>8, <2>9, <2>10, <2>11, <2>12, ZenonT(60) DEF AgentNext
<1>3. AgentTypeOK /\ Kept => PairableIsRestored
  BY DEF AgentTypeOK, Kept, Faithful, PairableIsRestored, PairableIsAlwaysRestored
<1> QED
  BY <1>1, <1>2, <1>3, AgentTypeCorrect, PTL DEF AgentSpec
=============================================================================
