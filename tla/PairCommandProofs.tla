------------------------- MODULE PairCommandProofs -------------------------
(***************************************************************************)
(* Proofs about `syauth pair`, for any number of overlapping invocations,  *)
(* phones and revocations: whose answer a comparison takes, what a failed  *)
(* invocation leaves, and when a bond without its key can be recovered.    *)
(***************************************************************************)
EXTENDS PairCommand, TLAPS

\* A leaf goes to the SMT solver with this limit, unless it names another prover.
USE SMTT(60)

USE DEF Makers, Stores, NoBond, BuildBond, Goto, Ends, files, waybar, history

\* The types of what the proofs index.
Shapes ==
    /\ pc \in [Process -> Steps] /\ result \in [Process -> Results]
    /\ peer \in [Process -> Peer \cup {None}]
    /\ active \in Stores /\ snapshot \in [Process -> Stores]
    /\ key \in [Peer -> Makers \cup {None, "torn"}] /\ pendingKey \in [Peer -> Process \cup {None}]
    /\ compared \in [Process -> Answers] /\ alone \in [Process -> BOOLEAN]
    /\ response \in [id : Process \cup {None}, decision : Answers]
    /\ request \in Process \cup {None} /\ shown \in Process \cup {None}

\* The phone of an invocation is known from the end of the scan on.
Chosen == \A p \in Process : pc[p] \notin {"scan", "request", "poll", "unrequest", "unanswer", "ended"} => peer[p] \in Peer

\* The steps that only move an invocation on, and leave every file of the pairing alone.
Moves(p) ==
    \/ ScanFails(p) \/ Lesc(p) \/ (\E answer \in {"accept", "reject"} : Oob(p, answer))
    \/ StagingFails(p) \/ Coordinate(p) \/ ActivationFails(p) \/ Dies(p)

LEMMA MovesStep ==
    ASSUME Shapes, NEW p \in Process, Moves(p)
    PROVE  /\ UNCHANGED <<peer, files, snapshot, waybar, history>>
           /\ \E to \in Steps : pc' = [pc EXCEPT ![p] = to]
           /\ UNCHANGED result \/ \E how \in Results : result' = [result EXCEPT ![p] = how]
  BY DEF Moves, Shapes, Steps, Results, ScanFails, Lesc, Oob, StagingFails, Coordinate, ActivationFails, Dies

LEMMA NextCases ==
    ASSUME [Next]_vars
    PROVE  \/ \E p \in Process :
                \/ Moves(p) \/ Asked(p) \/ Request(p) \/ Poll(p) \/ PollTimeout(p) \/ RequestFails(p)
                \/ Unrequest(p) \/ Unanswer(p) \/ Load(p) \/ StageBond(p) \/ StageKey(p) \/ Journal(p)
                \/ Save(p) \/ TruncateKey(p) \/ WriteKey(p) \/ Discard(p)
                \/ \E x \in Peer : Scanned(p, x)
           \/ AppletShows \/ (\E d \in {"accept", "reject"} : AppletClick(d)) \/ (\E x \in Peer : Revoke(x))
           \/ UNCHANGED vars
  BY ZenonT(60) DEF Next, Moves, Comparing, Staging, Activation

LEMMA ShapesCorrect == Spec => [](Shapes /\ Chosen)
<1>1. Init => Shapes /\ Chosen
  <2> SUFFICES ASSUME Init PROVE Shapes /\ Chosen
    OBVIOUS
  <2>1. active \in Stores /\ key \in [Peer -> Makers \cup {None, "torn"}]
    BY DEF Init
  <2>2. snapshot \in [Process -> Stores] /\ alone \in [Process -> BOOLEAN]
    BY DEF Init
  <2>3. response \in [id : Process \cup {None}, decision : Answers]
    BY DEF Init, NoResponse, Answers
  <2> QED
    BY <2>1, <2>2, <2>3 DEF Init, Shapes, Chosen, Steps, Results, Answers
<1>2. Shapes /\ Chosen /\ [Next]_vars => Shapes' /\ Chosen'
  <2> SUFFICES ASSUME Shapes, Chosen, [Next]_vars PROVE Shapes' /\ Chosen'
    OBVIOUS
  <2>1. ASSUME NEW p \in Process, Moves(p) PROVE Shapes' /\ Chosen'
    <3>1. Shapes'
      <4>1. UNCHANGED <<peer, active, snapshot, key, pendingKey, compared, alone, response, request, shown>>
        BY <2>1, MovesStep
      <4>2. pc' \in [Process -> Steps]
        <5>1. PICK to \in Steps : pc' = [pc EXCEPT ![p] = to]
          BY <2>1, MovesStep
        <5> QED
          BY <5>1 DEF Shapes
      <4>3. result' \in [Process -> Results]
        <5>1. CASE UNCHANGED result
          BY <5>1 DEF Shapes
        <5>2. ASSUME NEW how \in Results, result' = [result EXCEPT ![p] = how] PROVE result' \in [Process -> Results]
          BY <5>2 DEF Shapes
        <5> QED
          BY <2>1, <5>1, <5>2, MovesStep
      <4> QED
        BY <4>1, <4>2, <4>3 DEF Shapes
    <3>2. Chosen'
      BY <2>1, ZenonT(60) DEF Shapes, Chosen, Moves, ScanFails, Lesc, Oob, StagingFails, Coordinate, ActivationFails, Dies
    <3> QED
      BY <3>1, <3>2
  <2>2. ASSUME NEW p \in Process, Asked(p) \/ Request(p) \/ Unrequest(p) \/ Unanswer(p) PROVE Shapes' /\ Chosen'
    <3>1. response' \in [id : Process \cup {None}, decision : Answers]
      BY <2>2 DEF Shapes, Asked, Request, Unrequest, Unanswer, NoResponse, Answers
    <3>2. UNCHANGED <<result, peer, files, snapshot, compared, alone, shown>>
      BY <2>2 DEF Asked, Request, Unrequest, Unanswer
    <3>3. pc' \in [Process -> Steps] /\ request' \in Process \cup {None}
      BY <2>2, ZenonT(60) DEF Shapes, Steps, Asked, Request, Unrequest, Unanswer
    <3>4. \A q \in Process : pc'[q] \notin {"scan", "request", "poll", "unrequest", "unanswer", "ended"} => pc'[q] = pc[q]
      BY <2>2 DEF Shapes, Asked, Request, Unrequest, Unanswer
    <3> QED
      BY <3>1, <3>2, <3>3, <3>4 DEF Shapes, Chosen
  <2>3. ASSUME NEW p \in Process, NEW answer \in {"accept", "reject"}, NEW to \in {"unrequest", "scan"},
               pc' = [pc EXCEPT ![p] = to], compared' = [compared EXCEPT ![p] = answer],
               UNCHANGED <<result, peer, files, snapshot, waybar, alone>>
        PROVE  Shapes' /\ Chosen'
    <3>1. compared' \in [Process -> Answers] /\ pc' \in [Process -> Steps]
      BY <2>3 DEF Shapes, Answers, Steps
    <3> QED
      BY <2>3, <3>1 DEF Shapes, Chosen
  <2>4. ASSUME NEW p \in Process, Poll(p) \/ PollTimeout(p) \/ RequestFails(p) PROVE Shapes' /\ Chosen'
    <3>1. ASSUME NEW answer \in Answers, Compared(p, answer) PROVE Shapes' /\ Chosen'
      <4>1. compared' \in [Process -> Answers] /\ pc' \in [Process -> Steps]
        BY <3>1 DEF Shapes, Steps, Compared
      <4> QED
        BY <3>1, <4>1 DEF Shapes, Chosen, Compared
    <3>2. CASE RequestFails(p)
      BY <2>3, <3>2, ZenonT(60) DEF RequestFails
    <3>3. response.decision \in Answers /\ "reject" \in Answers
      BY DEF Shapes, Answers
    <3> QED
      BY <2>4, <3>1, <3>2, <3>3 DEF Poll, PollTimeout
  <2>5. ASSUME NEW p \in Process, Load(p) PROVE Shapes' /\ Chosen'
    <3>1. snapshot' \in [Process -> Stores] /\ UNCHANGED <<peer, files, waybar, history>>
      BY <2>5 DEF Load, Shapes
    <3>2. pc' \in [Process -> Steps] /\ result' \in [Process -> Results]
      BY <2>5, ZenonT(60) DEF Load, Shapes, Steps, Results
    <3>3. Chosen'
      BY <2>5 DEF Load, Shapes, Chosen
    <3> QED
      BY <3>1, <3>2, <3>3 DEF Shapes
  <2>6. ASSUME NEW p \in Process, StageBond(p) PROVE Shapes' /\ Chosen'
    <3>1. alone' \in [Process -> BOOLEAN]
      BY <2>6 DEF StageBond
    <3>2. pc' = [pc EXCEPT ![p] = "stage_key"] /\ pc[p] = "stage_bond"
      BY <2>6 DEF StageBond
    <3>3. UNCHANGED <<result, peer, active, key, pendingKey, snapshot, waybar, compared>>
      BY <2>6 DEF StageBond
    <3> QED
      BY <3>1, <3>2, <3>3 DEF Shapes, Chosen, Steps
  <2>7. ASSUME NEW p \in Process, StageKey(p) \/ Journal(p) PROVE Shapes' /\ Chosen'
    <3>1. CASE StageKey(p)
      <4>1. pendingKey' \in [Peer -> Process \cup {None}]
        BY <3>1, ZenonT(60) DEF Shapes, StageKey
      <4> QED
        BY <3>1, <4>1 DEF Shapes, Chosen, Steps, StageKey
    <3>2. CASE Journal(p)
      BY <3>2 DEF Shapes, Chosen, Steps, Journal
    <3> QED
      BY <2>7, <3>1, <3>2
  <2>8. ASSUME NEW p \in Process, Save(p) PROVE Shapes' /\ Chosen'
    <3>1. active' \in Stores
      BY <2>8, ZenonT(60) DEF Shapes, Save
    <3> QED
      BY <2>8, <3>1 DEF Shapes, Chosen, Steps, Save
  <2>9. ASSUME NEW p \in Process, TruncateKey(p) \/ WriteKey(p) PROVE Shapes' /\ Chosen'
    <3>1. key' \in [Peer -> Makers \cup {None, "torn"}]
      BY <2>9, ZenonT(60) DEF Shapes, TruncateKey, WriteKey
    <3>2. pc' \in [Process -> Steps] /\ result' \in [Process -> Results]
      BY <2>9, ZenonT(60) DEF Shapes, Steps, Results, TruncateKey, WriteKey
    <3>3. UNCHANGED <<peer, active, pendingKey, snapshot, waybar, history>>
      BY <2>9 DEF TruncateKey, WriteKey
    <3>4. Chosen'
      BY <2>9, ZenonT(60) DEF Shapes, Chosen, TruncateKey, WriteKey
    <3> QED
      BY <3>1, <3>2, <3>3, <3>4 DEF Shapes
  <2>10. ASSUME NEW p \in Process, Discard(p) PROVE Shapes' /\ Chosen'
    <3>1. pendingKey' \in [Peer -> Process \cup {None}]
      BY <2>10, ZenonT(60) DEF Shapes, Discard
    <3> QED
      BY <2>10, <3>1 DEF Shapes, Chosen, Steps, Discard
  <2>11. ASSUME NEW p \in Process, NEW x \in Peer, Scanned(p, x) PROVE Shapes' /\ Chosen'
    BY <2>11 DEF Shapes, Chosen, Steps, Answers, Scanned
  <2>12. CASE AppletShows
    BY <2>12 DEF Shapes, Chosen, AppletShows
  <2>13. ASSUME NEW d \in {"accept", "reject"}, AppletClick(d) PROVE Shapes' /\ Chosen'
    <3>1. response' \in [id : Process \cup {None}, decision : Answers]
      BY <2>13 DEF Shapes, Answers, AppletClick
    <3> QED
      BY <2>13, <3>1 DEF Shapes, Chosen, AppletClick
  <2>14. ASSUME NEW x \in Peer, Revoke(x) PROVE Shapes' /\ Chosen'
    <3> DEFINE bond == [active[x] EXCEPT !.revoked = TRUE]
    <3>1. active' \in Stores
      <4>1. bond \in [by : Makers \cup {None}, revoked : BOOLEAN]
        <5>1. active[x] \in [by : Makers \cup {None}, revoked : BOOLEAN]
          BY DEF Shapes
        <5> HIDE DEF Makers
        <5> QED
          BY <5>1, ZenonT(60)
      <4>2. active' = [active EXCEPT ![x] = bond]
        BY <2>14, ZenonT(60) DEF Revoke
      <4> HIDE DEF bond
      <4> QED
        BY <4>1, <4>2 DEF Shapes
    <3> QED
      BY <2>14, <3>1 DEF Shapes, Chosen, Revoke
  <2>15. CASE UNCHANGED vars
    BY <2>15 DEF vars, Shapes, Chosen
  <2> QED
    BY <2>1, <2>2, <2>4, <2>5, <2>6, <2>7, <2>8, <2>9, <2>10, <2>11, <2>12, <2>13, <2>14, <2>15, NextCases
<1> QED
  BY <1>1, <1>2, PTL DEF Spec

-----------------------------------------------------------------------------
(* The comparison: a response that accepts was clicked, whosever it is.    *)
Clicks == response.decision = "accept" => response.id \in clicked

\* parse_decision takes only the answer to this invocation's own request, and the operator gave it: no response file
\* left over from, or removed by, another invocation accepts a comparison.
THEOREM AcceptOwn == Spec => []AcceptIsOwn
<1>1. Init => Clicks /\ AcceptIsOwn
  BY DEF Init, Clicks, AcceptIsOwn, NoResponse
<1>2. Shapes /\ Clicks /\ AcceptIsOwn /\ [Next]_vars => Clicks' /\ AcceptIsOwn'
  <2> SUFFICES ASSUME Shapes, Clicks, AcceptIsOwn, [Next]_vars PROVE Clicks' /\ AcceptIsOwn'
    OBVIOUS
  <2> USE DEF Shapes, Clicks, AcceptIsOwn
  <2>1. CASE UNCHANGED <<response, clicked, compared>>
    BY <2>1
  <2>2. ASSUME NEW p \in Process, Moves(p) PROVE UNCHANGED <<response, clicked, compared>>
    BY <2>2, MovesStep
  <2>3. ASSUME NEW p \in Process, Asked(p) \/ Unanswer(p) PROVE Clicks' /\ AcceptIsOwn'
    BY <2>3 DEF Asked, Unanswer, NoResponse
  <2>4. ASSUME NEW p \in Process, Poll(p) \/ PollTimeout(p) \/ RequestFails(p) PROVE Clicks' /\ AcceptIsOwn'
    BY <2>4 DEF Poll, PollTimeout, Compared, RequestFails
  <2>5. ASSUME NEW p \in Process, NEW x \in Peer, Scanned(p, x) PROVE Clicks' /\ AcceptIsOwn'
    BY <2>5 DEF Scanned
  <2>6. ASSUME NEW d \in {"accept", "reject"}, AppletClick(d) PROVE Clicks' /\ AcceptIsOwn'
    BY <2>6 DEF AppletClick
  <2>7. ASSUME NEW p \in Process, Request(p) \/ Unrequest(p) \/ Load(p) \/ StageBond(p) \/ StageKey(p) \/ Journal(p)
                                  \/ Save(p) \/ TruncateKey(p) \/ WriteKey(p) \/ Discard(p)
        PROVE  UNCHANGED <<response, clicked, compared>>
    BY <2>7 DEF Request, Unrequest, Load, StageBond, StageKey, Journal, Save, TruncateKey, WriteKey, Discard
  <2>8. ASSUME AppletShows \/ (\E x \in Peer : Revoke(x)) \/ UNCHANGED vars PROVE UNCHANGED <<response, clicked, compared>>
    BY <2>8 DEF AppletShows, Revoke, vars
  <2> QED
    BY <2>1, <2>2, <2>3, <2>4, <2>5, <2>6, <2>7, <2>8, NextCases
<1> QED
  BY <1>1, <1>2, ShapesCorrect, PTL DEF Spec

-----------------------------------------------------------------------------
(* What is in the files was put there by an invocation that is past its    *)
(* save, or is at work on its staging, or ended without a clean failure.   *)
Past == {"truncate_key", "write_key", "discard", "ended"}
Clean == {"refused", "aborted", "already"}
Early == {"scan", "request", "poll", "unrequest", "unanswer", "lesc", "oob", "load"}

Owner(p, x) == x = peer[p] /\ pc[p] \in Past /\ result[p] \notin Clean
Stager(p) == pc[p] \in Staged \/ (pc[p] = "ended" /\ result[p] \notin Clean)

Marks ==
    /\ \A p \in Process : pc[p] \notin {"discard", "ended"} => result[p] = "none"
    /\ \A p \in Process : pc[p] = "discard" => result[p] \in {"aborted", "bonded"}
    /\ \A p \in Process, x \in Peer : active[x].by = p => Owner(p, x)
    /\ \A p, q \in Process, x \in Peer : snapshot[q][x].by = p => Owner(p, x)
    /\ \A p \in Process, x \in Peer : key[x] = p => Owner(p, x)
    /\ \A p \in Process : pending = p \/ journal = p => Stager(p)

\* The steps outside coordinate_staged_bond move invocations among their early steps, or end them.
LEMMA EarlyStep ==
    ASSUME Shapes, NEW p \in Process,
           \/ Asked(p) \/ Request(p) \/ Poll(p) \/ PollTimeout(p) \/ RequestFails(p) \/ Unrequest(p) \/ Unanswer(p)
           \/ \E x \in Peer : Scanned(p, x)
    PROVE  /\ UNCHANGED <<files, snapshot, alone, result>>
           /\ pc[p] \in Early /\ pc'[p] \in Early
           /\ \A q \in Process \ {p} : pc'[q] = pc[q] /\ peer'[q] = peer[q]
<1>1. CASE Asked(p) \/ Request(p) \/ Unrequest(p) \/ Unanswer(p)
  BY <1>1 DEF Shapes, Early, Asked, Request, Unrequest, Unanswer
<1>2. CASE Poll(p) \/ PollTimeout(p) \/ RequestFails(p)
  BY <1>2 DEF Shapes, Early, Poll, PollTimeout, Compared, RequestFails
<1>3. ASSUME NEW x \in Peer, Scanned(p, x)
      PROVE  /\ UNCHANGED <<files, snapshot, alone, result>> /\ pc[p] \in Early /\ pc'[p] \in Early
             /\ \A q \in Process \ {p} : pc'[q] = pc[q] /\ peer'[q] = peer[q]
  BY <1>3 DEF Shapes, Early, Scanned
<1> QED
  BY <1>1, <1>2, <1>3, ZenonT(60)

LEMMA MovesTo ==
    ASSUME Shapes, NEW p \in Process, Moves(p)
    PROVE  /\ UNCHANGED <<peer, files, snapshot, alone>> /\ pc[p] # "ended"
           /\ \A q \in Process \ {p} : pc'[q] = pc[q] /\ result'[q] = result[q]
           /\ \/ pc[p] \in Early /\ pc'[p] \in Early /\ result'[p] = result[p]
              \/ pc[p] \in Early /\ pc'[p] = "ended"
              \/ pc'[p] = "ended" /\ result'[p] \in {"io", "uncertain", "dead"}
              \/ pc[p] = "coordinate" /\ pc'[p] = "save" /\ result'[p] = result[p]
              \/ pc[p] = "coordinate" /\ pc'[p] = "discard" /\ result'[p] = "aborted"
<1>1. CASE ScanFails(p) \/ Lesc(p) \/ \E answer \in {"accept", "reject"} : Oob(p, answer)
  BY <1>1 DEF Shapes, Early, ScanFails, Lesc, Oob
<1>2. CASE StagingFails(p) \/ ActivationFails(p) \/ Dies(p)
  BY <1>2 DEF Shapes, StagingFails, ActivationFails, Dies
<1>3. CASE Coordinate(p)
  BY <1>3 DEF Shapes, Coordinate
<1> QED
  BY <1>1, <1>2, <1>3 DEF Moves

\* The file steps: where they are taken, where they lead, and what they leave.
LEMMA FileStep ==
    ASSUME Shapes, NEW p \in Process,
           StageBond(p) \/ StageKey(p) \/ Journal(p) \/ Save(p) \/ TruncateKey(p) \/ WriteKey(p) \/ Discard(p)
    PROVE  /\ UNCHANGED <<peer, snapshot>>
           /\ \A q \in Process \ {p} : pc'[q] = pc[q] /\ result'[q] = result[q]
           /\ result'[p] = IF WriteKey(p) THEN "bonded" ELSE result[p]
           /\ pc[p] \in Staged \cup {"stage_bond"} /\ pc'[p] \in Staged \cup {"ended"}
           /\ pc[p] \in Past => pc'[p] \in Past
           /\ pc'[p] = "ended" => pc[p] = "discard"
<1>1. CASE StageBond(p) \/ StageKey(p) \/ Journal(p) \/ Save(p) \/ TruncateKey(p)
  <2>1. pc[p] # "write_key"
    BY <1>1, ZenonT(60) DEF StageBond, StageKey, Journal, Save, TruncateKey
  <2> QED
    BY <1>1, <2>1 DEF Shapes, Staged, Past, StageBond, StageKey, Journal, Save, TruncateKey, WriteKey
<1>2. CASE WriteKey(p)
  BY <1>2 DEF Shapes, Staged, Past, WriteKey
<1>3. CASE Discard(p)
  BY <1>3 DEF Shapes, Staged, Past, Discard, WriteKey
<1> QED
  BY <1>1, <1>2, <1>3

LEMMA LoadStep ==
    ASSUME Shapes, NEW p \in Process, Load(p)
    PROVE  /\ UNCHANGED <<peer, files, alone>> /\ snapshot' = [snapshot EXCEPT ![p] = active]
           /\ \A q \in Process \ {p} : pc'[q] = pc[q] /\ result'[q] = result[q]
           /\ pc[p] = "load"
           /\ \/ pc'[p] = "stage_bond" /\ result'[p] = result[p]
              \/ pc'[p] = "ended"
  BY DEF Shapes, Load

LEMMA RestStep ==
    ASSUME Shapes, AppletShows \/ (\E d \in {"accept", "reject"} : AppletClick(d)) \/ (\E x \in Peer : Revoke(x)) \/ UNCHANGED vars
    PROVE  /\ UNCHANGED <<pc, result, peer, key, pending, pendingKey, journal, snapshot, alone>>
           /\ \A x \in Peer : active'[x].by = active[x].by
<1>1. CASE AppletShows \/ (\E d \in {"accept", "reject"} : AppletClick(d)) \/ UNCHANGED vars
  BY <1>1 DEF AppletShows, AppletClick, vars
<1>2. ASSUME NEW x \in Peer, Revoke(x) PROVE \A y \in Peer : active'[y].by = active[y].by
  BY <1>2 DEF Shapes, Revoke
<1> QED
  BY <1>1, <1>2 DEF Revoke

LEMMA OwnerStays ==
    ASSUME Shapes, Marks, [Next]_vars, NEW p \in Process, NEW x \in Peer, Owner(p, x) PROVE Owner(p, x)'
<1> USE DEF Owner, Past, Clean, Early
<1>1. ASSUME NEW q \in Process, Moves(q) PROVE Owner(p, x)'
  BY <1>1, MovesTo
<1>2. ASSUME NEW q \in Process,
             \/ Asked(q) \/ Request(q) \/ Poll(q) \/ PollTimeout(q) \/ RequestFails(q) \/ Unrequest(q) \/ Unanswer(q)
             \/ \E y \in Peer : Scanned(q, y)
      PROVE  Owner(p, x)'
  BY <1>2, EarlyStep
<1>3. ASSUME NEW q \in Process, Load(q) PROVE Owner(p, x)'
  BY <1>3, LoadStep
<1>4. ASSUME NEW q \in Process,
             StageBond(q) \/ StageKey(q) \/ Journal(q) \/ Save(q) \/ TruncateKey(q) \/ WriteKey(q) \/ Discard(q)
      PROVE  Owner(p, x)'
  BY <1>4, FileStep
<1>5. ASSUME AppletShows \/ (\E d \in {"accept", "reject"} : AppletClick(d)) \/ (\E y \in Peer : Revoke(y)) \/ UNCHANGED vars
      PROVE  Owner(p, x)'
  BY <1>5, RestStep
<1> QED
  BY <1>1, <1>2, <1>3, <1>4, <1>5, NextCases

LEMMA MarksStep ==
    ASSUME Shapes, Chosen, Marks, [Next]_vars PROVE Marks'
<1> DEFINE Progress == /\ \A p \in Process : pc[p] \notin {"discard", "ended"} => result[p] = "none"
                       /\ \A p \in Process : pc[p] = "discard" => result[p] \in {"aborted", "bonded"}
           Bonds == \A p \in Process, x \in Peer : active[x].by = p => Owner(p, x)
           Snapshots == \A p, q \in Process, x \in Peer : snapshot[q][x].by = p => Owner(p, x)
           Keys == \A p \in Process, x \in Peer : key[x] = p => Owner(p, x)
           Pending == \A p \in Process : pending = p \/ journal = p => Stager(p)
<1>0. Progress /\ Bonds /\ Snapshots /\ Keys /\ Pending
  BY DEF Marks
<1>1. \A p \in Process, x \in Peer : Owner(p, x) => Owner(p, x)'
  BY OwnerStays
<1>2. ASSUME UNCHANGED <<key, snapshot>>, \A x \in Peer : active'[x].by = active[x].by, Progress', Pending' PROVE Marks'
  BY <1>0, <1>1, <1>2 DEF Marks
<1>3. ASSUME NEW q \in Process, Moves(q) PROVE Marks'
  <2>1. Progress'
    BY <1>0, <1>3, MovesTo DEF Early
  <2>2. Pending'
    BY <1>0, <1>3, MovesTo DEF Stager, Staged, Early, Clean
  <2> QED
    BY <1>2, <1>3, <2>1, <2>2, MovesTo
<1>4. ASSUME NEW q \in Process,
             \/ Asked(q) \/ Request(q) \/ Poll(q) \/ PollTimeout(q) \/ RequestFails(q) \/ Unrequest(q) \/ Unanswer(q)
             \/ \E y \in Peer : Scanned(q, y)
      PROVE  Marks'
  <2>1. Progress' /\ Pending'
    BY <1>0, <1>4, EarlyStep DEF Stager, Staged, Early, Clean
  <2> QED
    BY <1>2, <1>4, <2>1, EarlyStep
<1>5. ASSUME NEW q \in Process, Load(q) PROVE Marks'
  <2>1. Progress' /\ Pending'
    BY <1>0, <1>5, LoadStep DEF Stager, Staged, Clean
  <2>2. Snapshots'
    <3>1. snapshot \in [Process -> Stores] /\ snapshot' = [snapshot EXCEPT ![q] = active]
      BY <1>5, LoadStep DEF Shapes
    <3>2. \A r \in Process : snapshot'[r] = snapshot[r] \/ snapshot'[r] = active
      BY <3>1
    <3> QED
      BY <1>0, <1>1, <3>2
  <2>3. Bonds' /\ Keys'
    BY <1>0, <1>1, <1>5, LoadStep
  <2> QED
    BY <2>1, <2>2, <2>3 DEF Marks
<1>6. ASSUME NEW q \in Process, StageBond(q) \/ StageKey(q) \/ Journal(q) PROVE Marks'
  <2>1. UNCHANGED <<active, key, snapshot, result>>
    BY <1>6 DEF StageBond, StageKey, Journal
  <2>2. Progress'
    BY <1>0, <1>6, <2>1, ZenonT(60) DEF Shapes, StageBond, StageKey, Journal
  <2>3. Pending'
    BY <1>0, <1>6, <2>1 DEF Shapes, StageBond, StageKey, Journal, Stager, Staged
  <2> QED
    BY <1>2, <2>1, <2>2, <2>3
<1>7. ASSUME NEW q \in Process, Save(q) PROVE Marks'
  <2>1. /\ UNCHANGED <<result, peer, key, pending, journal, snapshot>> /\ pc[q] = "save"
        /\ pc' = [pc EXCEPT ![q] = "truncate_key"]
        /\ active' = [snapshot[q] EXCEPT ![peer[q]] = BuildBond(q)]
    BY <1>7 DEF Save
  <2>2. Progress' /\ Pending'
    BY <1>0, <2>1 DEF Shapes, Stager, Staged
  <2>3. Snapshots' /\ Keys'
    BY <1>0, <1>1, <2>1
  <2>4. Owner(q, peer[q])'
    BY <1>0, <2>1, ZenonT(60) DEF Shapes, Owner, Past, Clean
  <2>5. \A x \in Peer : active'[x].by = IF x = peer[q] THEN q ELSE snapshot[q][x].by
    BY <2>1 DEF Shapes
  <2>6. Bonds'
    <3> SUFFICES ASSUME NEW p \in Process, NEW x \in Peer, active'[x].by = p PROVE Owner(p, x)'
      OBVIOUS
    <3>1. CASE x = peer[q]
      BY <2>1, <2>4, <2>5, <3>1 DEF Owner
    <3>2. CASE x # peer[q]
      BY <1>0, <1>1, <2>5, <3>2
    <3> QED
      BY <3>1, <3>2
  <2> QED
    BY <2>2, <2>3, <2>6 DEF Marks
<1>8. ASSUME NEW q \in Process, TruncateKey(q) \/ WriteKey(q) PROVE Marks'
  <2>1. UNCHANGED <<active, peer, pending, journal, snapshot>> /\ pc[q] \in {"truncate_key", "write_key"}
    BY <1>8 DEF TruncateKey, WriteKey
  <2>2. Progress'
    BY <1>0, <1>8, ZenonT(60) DEF Shapes, TruncateKey, WriteKey
  <2>3. Pending'
    <3>1. pc'[q] \in Staged /\ \A p \in Process \ {q} : pc'[p] = pc[p] /\ result'[p] = result[p]
      BY <1>8 DEF Shapes, TruncateKey, WriteKey, Staged
    <3> QED
      BY <1>0, <2>1, <3>1 DEF Stager
  <2>4. Keys'
    <3>1. CASE TruncateKey(q)
      <4>1. \A x \in Peer : key'[x] = key[x] \/ key'[x] = "torn"
        BY <3>1 DEF TruncateKey, Shapes
      <4> QED
        BY <1>0, <1>1, <4>1, PairCommandAssumption
    <3>2. CASE WriteKey(q)
      <4>1. \A x \in Peer : key'[x] = key[x] \/ (x = peer[q] /\ key'[x] = q)
        BY <3>2 DEF WriteKey, Shapes
      <4>2. Owner(q, peer[q])'
        BY <3>2 DEF WriteKey, Shapes, Owner, Past, Clean
      <4> QED
        BY <1>0, <1>1, <2>1, <4>1, <4>2
    <3> QED
      BY <1>8, <3>1, <3>2
  <2>5. Bonds' /\ Snapshots'
    BY <1>0, <1>1, <2>1
  <2> QED
    BY <2>2, <2>3, <2>4, <2>5 DEF Marks
<1>9. ASSUME NEW q \in Process, Discard(q) PROVE Marks'
  <2>1. UNCHANGED <<active, key, snapshot, result>> /\ pending' = None /\ journal' = None
    BY <1>9 DEF Discard
  <2>2. Progress'
    BY <1>0, <1>9, <2>1 DEF Shapes, Discard
  <2> QED
    BY <1>2, <2>1, <2>2, PairCommandAssumption
<1>10. ASSUME AppletShows \/ (\E d \in {"accept", "reject"} : AppletClick(d)) \/ (\E y \in Peer : Revoke(y)) \/ UNCHANGED vars
       PROVE  Marks'
  <2>1. Progress' /\ Pending'
    BY <1>0, <1>10, RestStep DEF Stager
  <2> QED
    BY <1>2, <1>10, <2>1, RestStep
<1> QED
  BY <1>3, <1>4, <1>5, <1>6, <1>7, <1>8, <1>9, <1>10, NextCases

LEMMA MarksCorrect == Spec => []Marks
<1>1. Init => Marks
  BY PairCommandAssumption DEF Init, Marks
<1> QED
  BY <1>1, MarksStep, ShapesCorrect, PTL DEF Spec

\* run_pair_with_io: an invocation that ended refused, aborted or on a bonded peer has left nothing of its own in the
\* store, the keys or the recovery files, whatever other invocations did meanwhile.
THEOREM FailureClean == Spec => []FailureLeavesNothing
<1>1. Marks => FailureLeavesNothing
  BY DEF Marks, Owner, Stager, Staged, Clean, FailureLeavesNothing
<1> QED
  BY <1>1, MarksCorrect, PTL

-----------------------------------------------------------------------------
(* Recovery: while an invocation is alone, whatever it staged stays there. *)
Exclusive == \A p, q \in Process : p # q /\ pc[q] \in Staged => ~alone[p]

Secured ==
    \A p \in Process : alone[p] =>
        /\ pc[p] \in Staged => pending = p
        /\ pc[p] \in Staged \ {"stage_key"} => pendingKey[peer[p]] = p
        /\ pc[p] \in Staged \ {"stage_key", "journal"} => journal = p
        /\ pc[p] = "discard" /\ active[peer[p]].by = p => key[peer[p]] = p

Recoverable(p, x) == active[x].by = p /\ key[x] # p /\ alone[p] => pending = p /\ journal = p /\ pendingKey[x] = p

Recovers == Exclusive /\ Secured /\ \A p \in Process, x \in Peer : Recoverable(p, x)

\* A step that leaves the files, and brings no invocation among those that have staged.
LEMMA StagedStays ==
    ASSUME Shapes, Recovers, UNCHANGED <<key, pending, pendingKey, journal, alone>>,
           \A x \in Peer : active'[x].by = active[x].by,
           \A q \in Process : pc'[q] \in Staged => pc[q] \in Staged /\ peer'[q] = peer[q] /\ peer[q] \in Peer,
           \A q \in Process : pc'[q] \in {"stage_key", "journal"} \/ pc'[q] = pc[q] \/ pc'[q] \notin Staged
                                \/ (pc[q] = "coordinate" /\ (pc'[q] = "discard" => active[peer[q]].by # q)),
           \A q \in Process : pc'[q] \in {"stage_key", "journal"} => pc'[q] = pc[q]
    PROVE  Recovers'
<1>1. Exclusive'
  BY DEF Recovers, Exclusive
<1>2. Secured'
  BY DEF Recovers, Secured, Staged
<1>3. \A p \in Process, x \in Peer : Recoverable(p, x)'
  BY DEF Recovers, Recoverable
<1> QED
  BY <1>1, <1>2, <1>3 DEF Recovers

LEMMA RecoversStep ==
    ASSUME Shapes, Chosen, Marks, Recovers, [Next]_vars PROVE Recovers'
<1>0. \A q \in Process : pc[q] \in Staged => peer[q] \in Peer
  BY DEF Chosen, Staged
<1>1. ASSUME NEW q \in Process, Moves(q) PROVE Recovers'
  <2>1. pc[q] = "coordinate" => active[peer[q]].by # q
    BY <1>0 DEF Marks, Owner, Past, Staged
  <2>2. /\ UNCHANGED <<peer, files, snapshot, alone>>
        /\ \A p \in Process \ {q} : pc'[p] = pc[p]
        /\ pc'[q] \notin Staged \/ (pc[q] = "coordinate" /\ pc'[q] \in {"save", "discard"})
    BY <1>1, MovesTo DEF Early, Staged
  <2>3. \A p \in Process : pc'[p] \in Staged => pc[p] \in Staged /\ peer'[p] = peer[p] /\ peer[p] \in Peer
    BY <1>0, <2>2 DEF Staged
  <2> QED
    BY <2>1, <2>2, <2>3, StagedStays DEF Staged
<1>2. ASSUME NEW q \in Process,
             \/ Asked(q) \/ Request(q) \/ Poll(q) \/ PollTimeout(q) \/ RequestFails(q) \/ Unrequest(q) \/ Unanswer(q)
             \/ \E y \in Peer : Scanned(q, y)
      PROVE  Recovers'
  <2>1. /\ UNCHANGED <<files, alone>> /\ pc'[q] \notin Staged
        /\ \A p \in Process \ {q} : pc'[p] = pc[p] /\ peer'[p] = peer[p]
    BY <1>2, EarlyStep DEF Early, Staged
  <2> QED
    BY <1>0, <2>1, StagedStays DEF Staged
<1>3. ASSUME NEW q \in Process, Load(q) PROVE Recovers'
  <2>1. /\ UNCHANGED <<peer, files, alone>> /\ pc'[q] \notin Staged
        /\ \A p \in Process \ {q} : pc'[p] = pc[p]
    BY <1>3, LoadStep DEF Staged
  <2> QED
    BY <1>0, <2>1, StagedStays DEF Staged
<1>4. ASSUME AppletShows \/ (\E d \in {"accept", "reject"} : AppletClick(d)) \/ (\E y \in Peer : Revoke(y)) \/ UNCHANGED vars
      PROVE  Recovers'
  BY <1>0, <1>4, RestStep, StagedStays
<1>5. ASSUME NEW q \in Process, StageBond(q) PROVE Recovers'
  <2>1. /\ pc' = [pc EXCEPT ![q] = "stage_key"] /\ pending' = q /\ UNCHANGED <<peer, active, key, pendingKey, journal>>
        /\ pc[q] = "stage_bond"
    BY <1>5 DEF StageBond
  <2>2. /\ \A p \in Process \ {q} : ~alone'[p]
        /\ alone'[q] => \A p \in Process \ {q} : pc[p] \notin Staged
    BY <1>5, ZenonT(60) DEF StageBond
  <2>3. \A x \in Peer : active[x].by # q
    BY <2>1 DEF Marks, Owner, Past
  <2>4. \A p \in Process \ {q} : pc'[p] = pc[p]
    BY <2>1 DEF Shapes
  <2>5. pc'[q] = "stage_key"
    BY <2>1 DEF Shapes
  <2>6. Exclusive'
    BY <2>2, <2>4 DEF Exclusive
  <2>7. Secured'
    BY <2>1, <2>2, <2>5 DEF Secured, Staged
  <2> QED
    BY <2>1, <2>2, <2>3, <2>6, <2>7 DEF Recovers, Recoverable
<1>6. ASSUME NEW q \in Process, pc[q] \in Staged, pc'[q] \in Staged \cup {"ended"}, UNCHANGED <<peer, alone>>,
             \A p \in Process \ {q} : pc'[p] = pc[p],
             alone[q] => /\ pc'[q] \in Staged => pending' = q
                         /\ pc'[q] \in Staged \ {"stage_key"} => pendingKey'[peer[q]] = q
                         /\ pc'[q] \in Staged \ {"stage_key", "journal"} => journal' = q
                         /\ pc'[q] = "discard" /\ active'[peer[q]].by = q => key'[peer[q]] = q,
             alone[q] => \A x \in Peer : Recoverable(q, x)'
      PROVE  Recovers'
  <2>1. \A p \in Process \ {q} : ~alone[p]
    BY <1>6 DEF Recovers, Exclusive
  <2>2. Exclusive'
    BY <1>6 DEF Recovers, Exclusive, Staged
  <2>3. Secured'
    BY <1>6, <2>1 DEF Secured
  <2>4. \A p \in Process, x \in Peer : Recoverable(p, x)'
    BY <1>6, <2>1 DEF Recoverable
  <2> QED
    BY <2>2, <2>3, <2>4 DEF Recovers
<1>7. ASSUME NEW q \in Process,
             StageKey(q) \/ Journal(q) \/ Save(q) \/ TruncateKey(q) \/ WriteKey(q) \/ Discard(q)
      PROVE  Recovers'
  <2>0. /\ peer[q] \in Peer /\ pc[q] \in Staged /\ pc'[q] \in Staged \cup {"ended"} /\ UNCHANGED <<peer, alone>>
        /\ \A p \in Process \ {q} : pc'[p] = pc[p]
    BY <1>0, <1>7 DEF Shapes, Staged, StageKey, Journal, Save, TruncateKey, WriteKey, Discard
  <2>1. alone[q] => /\ pending = q
                    /\ pc[q] # "stage_key" => pendingKey[peer[q]] = q
                    /\ pc[q] \notin {"stage_key", "journal"} => journal = q
                    /\ pc[q] = "discard" /\ active[peer[q]].by = q => key[peer[q]] = q
    BY <2>0, ZenonT(60) DEF Recovers, Secured
  <2>2. \A x \in Peer : active[x].by = q => x = peer[q] /\ pc[q] \in Past
    BY DEF Marks, Owner
  <2>3. CASE StageKey(q)
    <3>1. /\ pc[q] = "stage_key" /\ pc'[q] = "journal" /\ pendingKey'[peer[q]] = q
          /\ UNCHANGED <<active, key, pending, journal>>
      BY <2>0, <2>3 DEF StageKey, Shapes
    <3> QED
      BY <1>6, <2>0, <2>1, <2>2, <3>1 DEF Recoverable, Past
  <2>4. CASE Journal(q)
    <3>1. /\ pc[q] = "journal" /\ pc'[q] = "coordinate" /\ journal' = q /\ UNCHANGED <<active, key, pending, pendingKey>>
      BY <2>4 DEF Journal, Shapes
    <3> QED
      BY <1>6, <2>0, <2>1, <2>2, <3>1 DEF Recoverable, Past
  <2>5. CASE Save(q)
    <3>1. /\ pc[q] = "save" /\ pc'[q] = "truncate_key" /\ UNCHANGED <<key, pending, pendingKey, journal>>
          /\ active' = [snapshot[q] EXCEPT ![peer[q]] = BuildBond(q)]
      BY <2>5 DEF Save, Shapes
    <3>2. \A x \in Peer : active'[x].by = q => x = peer[q]
      <4>1. \A x \in Peer : snapshot[q][x].by # q
        BY <3>1, ZenonT(60) DEF Marks, Owner, Past
      <4> QED
        BY <3>1, <4>1 DEF Shapes
    <3> QED
      BY <1>6, <2>0, <2>1, <3>1, <3>2, ZenonT(60) DEF Recoverable
  <2>6. CASE TruncateKey(q)
    <3>1. /\ pc[q] = "truncate_key" /\ pc'[q] = "write_key" /\ UNCHANGED <<active, pending, pendingKey, journal>>
      BY <2>6 DEF TruncateKey, Shapes
    <3> QED
      BY <1>6, <2>0, <2>1, <2>2, <3>1, ZenonT(60) DEF Recoverable
  <2>7. CASE WriteKey(q)
    <3>1. /\ pc[q] = "write_key" /\ pc'[q] = "discard" /\ UNCHANGED <<active, pending, pendingKey, journal>>
          /\ key'[peer[q]] = q
      BY <2>0, <2>7 DEF WriteKey, Shapes
    <3> QED
      BY <1>6, <2>0, <2>1, <2>2, <3>1 DEF Recoverable
  <2>8. CASE Discard(q)
    <3>1. pc[q] = "discard" /\ pc'[q] = "ended" /\ UNCHANGED <<active, key>>
      BY <2>8 DEF Discard, Shapes
    <3> QED
      BY <1>6, <2>0, <2>1, <2>2, <3>1 DEF Recoverable, Staged
  <2> QED
    BY <1>7, <2>3, <2>4, <2>5, <2>6, <2>7, <2>8
<1> QED
  BY <1>1, <1>2, <1>3, <1>4, <1>5, <1>7, NextCases

\* coordinate_staged_bond: however an invocation that staged alone failed or was killed, a bond of its own without its
\* key stands beside the journal, the staged store and the staged key that finish it.
THEOREM BondRecoverable == Spec => []BondHasKeyOrJournal
<1>1. Init => Recovers
  <2> SUFFICES ASSUME Init PROVE Recovers
    OBVIOUS
  <2>1. \A p \in Process : pc[p] = "scan"
    BY ZenonT(60) DEF Init
  <2>2. \A p \in Process, x \in Peer : active[x].by # p
    BY PairCommandAssumption DEF Init
  <2> QED
    BY <2>1, <2>2 DEF Recovers, Exclusive, Secured, Recoverable, Staged
<1>2. Recovers => BondHasKeyOrJournal
  BY DEF Recovers, Recoverable, BondHasKeyOrJournal
<1> QED
  BY <1>1, <1>2, RecoversStep, MarksCorrect, ShapesCorrect, PTL DEF Spec
=============================================================================
