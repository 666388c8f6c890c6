------------------------- MODULE ConfirmationProofs -------------------------
(***************************************************************************)
(* Proofs about the operator's confirmations, for any number of requests,  *)
(* clients and cancelled comparisons: an accepted request is one the       *)
(* operator confirmed on display, an association is a confirmed one, and   *)
(* the broker's slot is taken exactly while an exchange is under way.      *)
(***************************************************************************)
EXTENDS Confirmation, TLAPS

\* A leaf goes to the SMT solver with this limit, unless it names another prover.
USE SMTT(60)

Commands == {"confirm", "reject", "cancel"}
Dialogs == [shown : Request \cup {None}, enabled : BOOLEAN, bonded : BOOLEAN, cancelled : BOOLEAN]
ClientSteps == {"off", "binding", "listening", "deciding", "ended"}
Bytes == {"none", "yes", "no", "eof"}

USE DEF Commands, ClientSteps, Bytes

LEMMA CloseTypes ==
    ASSUME TypeOK, NEW c \in Client, NEW answered \in Bytes, Close(c, answered)
    PROVE  /\ client' \in [Client -> ClientSteps] /\ backlog' \in [Client -> Seq(Request)]
           /\ wire' \in [Request -> Bytes] /\ serving' \in [Client -> Request \cup {None}]
<1>1. client' \in [Client -> ClientSteps] /\ serving' \in [Client -> Request \cup {None}]
  BY DEF TypeOK, Close
<1>2. backlog' \in [Client -> Seq(Request)]
  BY DEF TypeOK, Close
<1>3. wire' \in [Request -> Bytes]
  BY DEF TypeOK, Close
<1> QED
  BY <1>1, <1>2, <1>3

\* The types are an invariant.
LEMMA TypeCorrect == Spec => []TypeOK
<1>1. Init => TypeOK
  <2> SUFFICES ASSUME Init PROVE TypeOK
    OBVIOUS
  <2>1. dialog \in [Client -> Dialogs]
    BY DEF Init, NewDialog, Dialogs
  <2>2. socketActive \in BOOLEAN
    BY ZenonT(60) DEF Init
  <2>3. cancels \in 0..MaxCancels
    BY ConfirmationAssumption DEF Init
  <2>4. /\ backlog \in [Client -> Seq(Request)] /\ stdout \in [Client -> Seq(Request)]
        /\ stdin \in [Client -> Seq(Commands)]
    BY DEF Init
  <2> QED
    BY <2>1, <2>2, <2>3, <2>4 DEF Init, TypeOK, InExchange, Dialogs
<1>2. TypeOK /\ [Next]_vars => TypeOK'
  <2> SUFFICES ASSUME TypeOK, [Next]_vars PROVE TypeOK'
    OBVIOUS
  <2> USE ConfirmationAssumption DEF TypeOK, InExchange, Becomes, broker, clients, dialogs
  <2>1. ASSUME NEW r \in Request, Ask(r) PROVE TypeOK'
    <3>1. socketActive' \in BOOLEAN
      BY <2>1 DEF Ask
    <3> QED
      BY <2>1, <3>1 DEF Ask
  <2>2. ASSUME NEW r \in Request, Connect(r) PROVE TypeOK'
    <3>1. socketActive' \in BOOLEAN
      BY <2>2, ZenonT(60) DEF Connect
    <3>2. \/ UNCHANGED backlog
          \/ path # None /\ backlog' = [backlog EXCEPT ![path] = Append(@, r)]
      BY <2>2, ZenonT(60) DEF Connect
    <3>3. backlog' \in [Client -> Seq(Request)]
      <4>1. ASSUME path \in Client PROVE Append(backlog[path], r) \in Seq(Request)
        BY <4>1
      <4> QED
        BY <3>2, <4>1, ZenonT(60)
    <3>4. \E s \in {"accepted", "refused", "waiting"} : req' = [req EXCEPT ![r] = s]
      BY <2>2, ZenonT(60) DEF Connect
    <3> QED
      BY <2>2, <3>1, <3>3, <3>4 DEF Connect
  <2>3. ASSUME NEW r \in Request, Read(r) PROVE TypeOK'
    BY <2>3, ZenonT(60) DEF Read
  <2>4. ASSUME NEW r \in Request, Timeout(r) PROVE TypeOK'
    BY <2>4, ZenonT(60) DEF Timeout
  <2>5. ASSUME NEW r \in Request, Cancel(r) PROVE TypeOK'
    BY <2>5 DEF Cancel
  <2>6. ASSUME NEW c \in Client, Start(c) PROVE TypeOK'
    BY <2>6 DEF Start
  <2>7. ASSUME NEW c \in Client, Bind(c) PROVE TypeOK'
    BY <2>7 DEF Bind
  <2>8. ASSUME NEW c \in Client, Accept(c) PROVE TypeOK'
    <3>1. Head(backlog[c]) \in Request /\ Tail(backlog[c]) \in Seq(Request)
      BY <2>8 DEF Accept
    <3>2. stdout' = [stdout EXCEPT ![c] = Append(@, Head(backlog[c]))] /\ UNCHANGED <<broker, stdin, dialog, decision>>
      BY <2>8 DEF Accept
    <3>3. stdout' \in [Client -> Seq(Request)]
      BY <3>1, <3>2
    <3>4. CASE Head(backlog[c])[1] = "bonded"
      <4>1. Close(c, "eof") /\ path' = None
        BY <2>8, <3>4 DEF Accept
      <4> QED
        BY <3>2, <3>3, <4>1, CloseTypes
    <3>5. CASE Head(backlog[c])[1] # "bonded"
      <4>1. /\ client' = [client EXCEPT ![c] = "deciding"] /\ serving' = [serving EXCEPT ![c] = Head(backlog[c])]
            /\ backlog' = [backlog EXCEPT ![c] = Tail(@)] /\ UNCHANGED <<path, wire>>
        BY <2>8, <3>5 DEF Accept
      <4> QED
        BY <3>1, <3>2, <3>3, <4>1
    <3> QED
      BY <3>4, <3>5
  <2>9. ASSUME NEW c \in Client, Decide(c) PROVE TypeOK'
    <3>1. Tail(stdin[c]) \in Seq(Commands)
      BY <2>9 DEF Decide
    <3>2. stdin' \in [Client -> Seq(Commands)]
      BY <2>9, <3>1 DEF Decide
    <3>3. UNCHANGED <<broker, stdout, dialog, decision>>
      BY <2>9 DEF Decide
    <3>4. CASE Close(c, "eof") /\ path' = None
      BY <3>2, <3>3, <3>4, CloseTypes
    <3>5. CASE Close(c, "no") /\ path' = None
      BY <3>2, <3>3, <3>5, CloseTypes
    <3>6. CASE /\ client' = [client EXCEPT ![c] = "listening"]
               /\ wire' = [wire EXCEPT ![serving[c]] = "yes"]
               /\ UNCHANGED <<path, backlog, serving>>
      BY <3>2, <3>3, <3>6, ZenonT(60)
    <3> QED
      BY <2>9, <3>4, <3>5, <3>6, ZenonT(60) DEF Decide
  <2>10. ASSUME NEW c \in Client, ApplyEvent(c) PROVE TypeOK'
    <3>1. Head(stdout[c]) \in Request /\ Tail(stdout[c]) \in Seq(Request)
      BY <2>10 DEF ApplyEvent
    <3>2. stdout' \in [Client -> Seq(Request)]
      BY <2>10, <3>1 DEF ApplyEvent
    <3>3. dialog' \in [Client -> Dialogs]
      <4> DEFINE r == Head(stdout[c])
      <4>1. dialog[c] \in Dialogs
        BY DEF Dialogs
      <4>2. (r[1] = "oob" \/ (dialog[c].enabled /\ r[1] # "bonded")) \in BOOLEAN
        OBVIOUS
      <4>3. (dialog[c].bonded \/ r[1] = "bonded") \in BOOLEAN
        OBVIOUS
      <4>4. ASSUME NEW x \in Request \cup {None}, NEW e \in BOOLEAN, NEW b \in BOOLEAN
            PROVE  [dialog EXCEPT ![c].shown = x, ![c].enabled = e, ![c].bonded = b] \in [Client -> Dialogs]
        <5> DEFINE after == [dialog[c] EXCEPT !.shown = x, !.enabled = e, !.bonded = b]
        <5>1. after \in Dialogs
          BY <4>1, ZenonT(60) DEF Dialogs
        <5>2. [dialog EXCEPT ![c] = after] \in [Client -> Dialogs]
          BY <5>1 DEF Dialogs
        <5> QED
          BY <5>2, ZenonT(60)
      <4> QED
        BY <2>10, <3>1, <4>2, <4>3, <4>4, ZenonT(60) DEF ApplyEvent
    <3> QED
      BY <2>10, <3>2, <3>3 DEF ApplyEvent, Dialogs
  <2>11. ASSUME NEW c \in Client, CancelPairing(c) PROVE TypeOK'
    <3>1. stdin' \in [Client -> Seq(Commands)]
      BY <2>11 DEF CancelPairing
    <3>2. dialog' \in [Client -> Dialogs]
      <4>1. ASSUME NEW e \in BOOLEAN, NEW b \in BOOLEAN
            PROVE  [dialog EXCEPT ![c].enabled = e, ![c].cancelled = b] \in [Client -> Dialogs]
        BY ZenonT(60) DEF Dialogs
      <4> QED
        BY <2>11, <4>1, ZenonT(60) DEF CancelPairing
    <3> QED
      BY <2>11, <3>1, <3>2 DEF CancelPairing, Dialogs
  <2>12. ASSUME NEW c \in Client, Kill(c) PROVE TypeOK'
    BY <2>12 DEF Kill, Close
  <2>13. ASSUME NEW c \in Client, NEW command \in {"confirm", "reject"}, Click(c, command) PROVE TypeOK'
    <3>1. stdin' \in [Client -> Seq(Commands)]
      BY <2>13 DEF Click
    <3>2. dialog' \in [Client -> Dialogs]
      BY <2>13, ZenonT(60) DEF Click, Dialogs
    <3>3. decision' \in [Request -> {"none", "confirm", "reject"}]
      BY <2>13 DEF Click
    <3> QED
      BY <2>13, <3>1, <3>2, <3>3 DEF Click, Dialogs
  <2>14. CASE UNCHANGED vars
    BY <2>14 DEF vars
  <2> QED
    BY <2>1, <2>2, <2>3, <2>4, <2>5, <2>6, <2>7, <2>8, <2>9, <2>10, <2>11, <2>12, <2>13, <2>14, ZenonT(60) DEF Next
<1> QED
  BY <1>1, <1>2, PTL DEF Spec

-----------------------------------------------------------------------------
\* The single exchange slot of the broker (State.socket_active): SlotIsOwned is inductive by itself.
THEOREM SlotOwned == Spec => []SlotIsOwned
<1>1. Init => SlotIsOwned
  BY DEF Init, SlotIsOwned, InExchange
<1>2. TypeOK /\ SlotIsOwned /\ [Next]_vars => SlotIsOwned'
  <2> SUFFICES ASSUME TypeOK, SlotIsOwned, [Next]_vars PROVE SlotIsOwned'
    OBVIOUS
  <2> USE DEF TypeOK, SlotIsOwned, InExchange, Becomes, broker, clients, dialogs
  <2>1. ASSUME NEW r \in Request, Ask(r) PROVE SlotIsOwned'
    BY <2>1 DEF Ask, Due
  <2>2. ASSUME NEW r \in Request, Connect(r) PROVE SlotIsOwned'
    <3>1. CASE cancels # 0
      BY <2>2, <3>1 DEF Connect
    <3>2. CASE cancels = 0
      <4>1. ASSUME NEW q \in Request, q # r PROVE req'[q] = req[q] /\ req[q] \notin InExchange
        BY <2>2, <3>2, <4>1, ZenonT(60) DEF Connect
      <4>2. req'[r] \in InExchange <=> socketActive'
        BY <2>2, ZenonT(60) DEF Connect
      <4>3. \A q \in Request : req'[q] \in InExchange => q = r
        BY <4>1, ZenonT(60)
      <4> QED
        BY <4>2, <4>3, ZenonT(60)
    <3> QED
      BY <3>1, <3>2
  <2>3. ASSUME NEW r \in Request, Read(r) \/ Timeout(r) PROVE SlotIsOwned'
    BY <2>3, ZenonT(60) DEF Read, Timeout
  <2>4. ASSUME NEW r \in Request, Cancel(r) PROVE SlotIsOwned'
    BY <2>4 DEF Cancel
  <2>5. CASE UNCHANGED broker
    BY <2>5
  <2>6. ASSUME NEW c \in Client, NEW command \in {"confirm", "reject"},
               Start(c) \/ Bind(c) \/ Accept(c) \/ Decide(c) \/ ApplyEvent(c) \/ CancelPairing(c) \/ Kill(c)
               \/ Click(c, command)
        PROVE  UNCHANGED broker
    BY <2>6 DEF Start, Bind, Accept, Decide, ApplyEvent, CancelPairing, Kill, Click
  <2> QED
    BY <2>1, <2>2, <2>3, <2>4, <2>5, <2>6 DEF Next, vars
<1> QED
  BY <1>1, <1>2, TypeCorrect, PTL DEF Spec

-----------------------------------------------------------------------------
(* An accepted request was confirmed.  Four facts carry the argument:       *)
(*  - a request reaches at most one client, once (Delivered);               *)
(*  - between two prompts a client has no event unread and no click unused, *)
(*    and during one the buttons work only while the request it serves is   *)
(*    on display and unanswered (Dialogue);                                 *)
(*  - what was answered yes was confirmed, and is nowhere on display with   *)
(*    working buttons any more, so its decision is final (Final);           *)
(*  - only a yes on its own stream makes a request accepted (Answered).     *)
InSeq(s, r) == \E i \in 1..Len(s) : s[i] = r

Holds(c, r) == InSeq(backlog[c], r) \/ serving[c] = r \/ InSeq(stdout[c], r) \/ dialog[c].shown = r

Delivered ==
    /\ \A c \in Client, r \in Request : Holds(c, r) => req[r] \notin {"idle", "connecting"}
    /\ \A c, d \in Client, r \in Request : Holds(c, r) /\ Holds(d, r) => c = d
    /\ \A c \in Client : \A i, j \in 1..Len(backlog[c]) : backlog[c][i] = backlog[c][j] => i = j
    /\ \A c \in Client : ~InSeq(backlog[c], serving[c])

Unclicked(c) == \A i \in 1..Len(stdin[c]) : stdin[c][i] = "cancel"

Clicked(c) ==
    /\ ~dialog[c].enabled
    /\ stdin[c] # <<>> /\ stdin[c][1] = "confirm" =>
           decision[serving[c]] = "confirm" /\ \A i \in 2..Len(stdin[c]) : stdin[c][i] = "cancel"

Useless(c) == dialog[c].shown # None => ~dialog[c].enabled

Talk(c) ==
    /\ client[c] \in {"off", "binding", "listening"} => stdout[c] = <<>> /\ Useless(c) /\ Unclicked(c)
    /\ client[c] = "deciding" =>
         /\ serving[c] # None /\ serving[c][1] # "bonded"
         /\ \/ stdout[c] = <<serving[c]>> /\ Useless(c) /\ Unclicked(c)
            \/ stdout[c] = <<>> /\ dialog[c].shown = serving[c] /\ (Unclicked(c) \/ Clicked(c))

Dialogue == \A c \in Client : Talk(c)

Gone(c, r) ==
    /\ ~InSeq(backlog[c], r) /\ ~InSeq(stdout[c], r)
    /\ serving[c] = r => client[c] # "deciding"
    /\ dialog[c].shown = r => ~dialog[c].enabled

Settled(r) ==
    wire[r] = "yes" =>
        /\ decision[r] = "confirm" /\ req[r] \notin {"idle", "connecting"}
        /\ \A c \in Client : Gone(c, r)

Final == \A r \in Request : Settled(r)

Answered == \A r \in Request : req[r] = "accepted" /\ r[1] # "bonded" => wire[r] = "yes"

Trusted ==
    /\ \A a \in Attempt : req[<<"bonded", a>>] # "idle" => req[<<"oob", a>>] = "accepted"
    /\ \A c \in Client : dialog[c].bonded => \E a \in Attempt : req[<<"oob", a>>] = "accepted"

LEMMA InAppend ==
    ASSUME NEW S, NEW s \in Seq(S), NEW e \in S, NEW r PROVE InSeq(Append(s, e), r) <=> InSeq(s, r) \/ r = e
  BY DEF InSeq

LEMMA InTail ==
    ASSUME NEW S, NEW s \in Seq(S), s # <<>>, NEW r PROVE InSeq(Tail(s), r) => InSeq(s, r)
  BY DEF InSeq

LEMMA InHead ==
    ASSUME NEW S, NEW s \in Seq(S), s # <<>> PROVE InSeq(s, Head(s))
  BY DEF InSeq

LEMMA InEmpty ==
    ASSUME NEW r PROVE ~InSeq(<<>>, r)
  BY DEF InSeq

\* Ask, Read, Timeout and Cancel leave the clients and the dialogs alone, and no request returns to its beginning.
LEMMA BrokerStep ==
    ASSUME TypeOK, NEW r \in Request, Ask(r) \/ Read(r) \/ Timeout(r) \/ Cancel(r)
    PROVE  /\ UNCHANGED <<path, client, backlog, serving, wire, stdout, stdin, dialog, decision>>
           /\ \A q \in Request : req[q] \notin {"idle", "connecting"} => req'[q] \notin {"idle", "connecting"}
           /\ \A q \in Request : req[q] = "accepted" => req'[q] = "accepted"
           /\ \A q \in Request : req'[q] = "accepted" => req[q] = "accepted" \/ wire[q] = "yes"
  BY DEF TypeOK, Ask, Due, Read, Timeout, Cancel, Becomes, InExchange, clients, dialogs

LEMMA ConnectStep ==
    ASSUME TypeOK, NEW r \in Request, Connect(r)
    PROVE  /\ UNCHANGED <<client, serving, wire, stdout, stdin, dialog, decision>>
           /\ req[r] = "connecting" /\ req'[r] \notin {"idle", "connecting"}
           /\ \A q \in Request \ {r} : req'[q] = req[q]
           /\ req'[r] = "accepted" => r[1] = "bonded"
           /\ \/ UNCHANGED backlog
              \/ path \in Client /\ backlog' = [backlog EXCEPT ![path] = Append(@, r)]
  BY ZenonT(60) DEF TypeOK, Connect, Becomes, dialogs

\* Start, Bind, CancelPairing and Click move no request.
LEMMA StartStep ==
    ASSUME TypeOK, NEW c \in Client, Start(c) \/ Bind(c)
    PROVE  /\ UNCHANGED <<req, backlog, serving, wire, stdout, stdin, dialog, decision>>
           /\ client[c] \in {"off", "binding"} /\ client'[c] \in {"binding", "listening", "ended"}
           /\ \A d \in Client \ {c} : client'[d] = client[d]
  BY DEF TypeOK, Start, Bind, broker, dialogs

LEMMA CancelStep ==
    ASSUME TypeOK, NEW c \in Client, CancelPairing(c)
    PROVE  /\ UNCHANGED <<req, client, backlog, serving, wire, stdout, decision>>
           /\ stdin' = [stdin EXCEPT ![c] = Append(@, "cancel")]
           /\ \A d \in Client : dialog'[d].shown = dialog[d].shown /\ dialog'[d].bonded = dialog[d].bonded
           /\ \A d \in Client \ {c} : dialog'[d] = dialog[d]
           /\ ~dialog'[c].enabled
  BY DEF TypeOK, CancelPairing, broker, clients

LEMMA ClickStep ==
    ASSUME TypeOK, NEW c \in Client, NEW command \in {"confirm", "reject"}, Click(c, command)
    PROVE  /\ UNCHANGED <<req, client, backlog, serving, wire, stdout>>
           /\ client[c] \in {"binding", "listening", "deciding"}
           /\ dialog[c].shown \in Request /\ dialog[c].enabled
           /\ stdin' = [stdin EXCEPT ![c] = Append(@, command)]
           /\ \A d \in Client : dialog'[d].shown = dialog[d].shown /\ dialog'[d].bonded = dialog[d].bonded
           /\ \A d \in Client \ {c} : dialog'[d] = dialog[d]
           /\ ~dialog'[c].enabled
           /\ decision'[dialog[c].shown] = command
           /\ \A q \in Request : q # dialog[c].shown => decision'[q] = decision[q]
  BY DEF TypeOK, Click, Running, broker, clients

\* The next event of the client is put on display.
LEMMA EventStep ==
    ASSUME TypeOK, NEW c \in Client, ApplyEvent(c)
    PROVE  LET r == Head(stdout[c]) IN
           /\ UNCHANGED <<req, client, backlog, serving, wire, stdin, decision>>
           /\ stdout[c] # <<>> /\ r \in Request
           /\ stdout' = [stdout EXCEPT ![c] = Tail(@)]
           /\ \A d \in Client \ {c} : dialog'[d] = dialog[d]
           /\ dialog'[c].shown = IF r[1] = "bonded" THEN None ELSE r
           /\ dialog'[c].bonded => dialog[c].bonded \/ r[1] = "bonded"
  BY DEF TypeOK, ApplyEvent, broker, clients

\* A client whose sockets close ends, and answers nothing with yes.
LEMMA CloseStep ==
    ASSUME TypeOK, NEW c \in Client, NEW answered \in {"no", "eof"}, Close(c, answered)
    PROVE  /\ UNCHANGED serving /\ client'[c] = "ended"
           /\ \A d \in Client \ {c} : client'[d] = client[d] /\ backlog'[d] = backlog[d]
           /\ backlog'[c] = <<>>
           /\ \A r \in Request : wire'[r] = "yes" <=> wire[r] = "yes"
  BY DEF TypeOK, Close

\* Accept takes the oldest connection; Decide answers the one it serves or closes.
LEMMA AcceptStep ==
    ASSUME TypeOK, NEW c \in Client, Accept(c)
    PROVE  LET r == Head(backlog[c]) IN
           /\ UNCHANGED <<req, stdin, dialog, decision>>
           /\ client[c] = "listening" /\ backlog[c] # <<>> /\ r \in Request
           /\ stdout' = [stdout EXCEPT ![c] = Append(@, r)]
           /\ \/ Close(c, "eof")
              \/ /\ r[1] # "bonded" /\ client' = [client EXCEPT ![c] = "deciding"]
                 /\ serving' = [serving EXCEPT ![c] = r] /\ backlog' = [backlog EXCEPT ![c] = Tail(@)]
                 /\ UNCHANGED wire
  BY DEF TypeOK, Accept, broker

LEMMA DecideStep ==
    ASSUME TypeOK, NEW c \in Client, Decide(c)
    PROVE  /\ UNCHANGED <<req, stdout, dialog, decision>>
           /\ client[c] = "deciding" /\ stdin[c] # <<>>
           /\ stdin' = [stdin EXCEPT ![c] = Tail(@)]
           /\ \/ Close(c, "eof") \/ Close(c, "no")
              \/ /\ Head(stdin[c]) = "confirm" /\ req[serving[c]] = "waiting"
                 /\ client' = [client EXCEPT ![c] = "listening"] /\ wire' = [wire EXCEPT ![serving[c]] = "yes"]
                 /\ UNCHANGED <<backlog, serving>>
  BY ZenonT(60) DEF TypeOK, Decide, broker

-----------------------------------------------------------------------------
\* Requests only move forward, and are taken from where they were.
Forward ==
    /\ \A q \in Request : req[q] \notin {"idle", "connecting"} => req'[q] \notin {"idle", "connecting"}
    /\ \A d \in Client, q \in Request : Holds(d, q)' => Holds(d, q)

LEMMA ForwardStep ==
    ASSUME TypeOK, [Next]_vars, \A r \in Request : ~Connect(r) PROVE Forward
<1> USE DEF Forward, Holds
<1>1. ASSUME NEW r \in Request, Ask(r) \/ Read(r) \/ Timeout(r) \/ Cancel(r) PROVE Forward
  BY <1>1, BrokerStep
<1>2. ASSUME NEW c \in Client, Start(c) \/ Bind(c) PROVE Forward
  BY <1>2, StartStep
<1>3. ASSUME NEW c \in Client, CancelPairing(c) PROVE Forward
  BY <1>3, CancelStep
<1>4. ASSUME NEW c \in Client, NEW command \in {"confirm", "reject"}, Click(c, command) PROVE Forward
  BY <1>4, ClickStep
<1>5. ASSUME NEW c \in Client, ApplyEvent(c) PROVE Forward
  <2>1. stdout[c] \in Seq(Request) /\ stdout[c] # <<>>
    BY <1>5, EventStep DEF TypeOK
  <2>2. \A q \in Request : InSeq(Tail(stdout[c]), q) => InSeq(stdout[c], q)
    BY <2>1, InTail
  <2>3. InSeq(stdout[c], Head(stdout[c]))
    BY <2>1, InHead
  <2>4. stdout \in [Client -> Seq(Request)] /\ stdout' = [stdout EXCEPT ![c] = Tail(@)]
    BY <1>5, EventStep DEF TypeOK
  <2>5. \A q \in Request : dialog'[c].shown = q => q = Head(stdout[c])
    BY <1>5, EventStep, ConfirmationAssumption
  <2> QED
    BY <1>5, <2>2, <2>3, <2>4, <2>5, EventStep
<1>6. ASSUME NEW c \in Client, NEW answered \in {"no", "eof"}, Close(c, answered),
             UNCHANGED <<req, dialog>>, \A d \in Client, q \in Request : InSeq(stdout'[d], q) => Holds(d, q)
      PROVE  Forward
  BY <1>6, CloseStep, InEmpty
<1>7. ASSUME NEW c \in Client, Accept(c) PROVE Forward
  <2>1. backlog[c] \in Seq(Request) /\ backlog[c] # <<>> /\ Head(backlog[c]) \in Request /\ stdout[c] \in Seq(Request)
    BY <1>7, AcceptStep DEF TypeOK
  <2>2. \A q \in Request : InSeq(Tail(backlog[c]), q) => InSeq(backlog[c], q)
    BY <2>1, InTail
  <2>3. InSeq(backlog[c], Head(backlog[c]))
    BY <2>1, InHead
  <2>4. stdout \in [Client -> Seq(Request)] /\ stdout' = [stdout EXCEPT ![c] = Append(@, Head(backlog[c]))]
    BY <1>7, AcceptStep DEF TypeOK
  <2>5. \A q \in Request : InSeq(Append(stdout[c], Head(backlog[c])), q) => InSeq(stdout[c], q) \/ q = Head(backlog[c])
    BY <2>1, InAppend
  <2>6. \A d \in Client, q \in Request : InSeq(stdout'[d], q) => Holds(d, q)
    BY <2>3, <2>4, <2>5
  <2>7. UNCHANGED <<req, dialog>>
    BY <1>7, AcceptStep
  <2>8. CASE Close(c, "eof")
    BY <1>6, <2>6, <2>7, <2>8
  <2>9. CASE /\ serving' = [serving EXCEPT ![c] = Head(backlog[c])] /\ backlog' = [backlog EXCEPT ![c] = Tail(@)]
    <3>1. \A d \in Client : /\ serving'[d] = IF d = c THEN Head(backlog[c]) ELSE serving[d]
                            /\ backlog'[d] = IF d = c THEN Tail(backlog[c]) ELSE backlog[d]
      BY <2>9 DEF TypeOK
    <3> QED
      BY <2>2, <2>3, <2>6, <2>7, <3>1
  <2> QED
    BY <1>7, <2>8, <2>9, AcceptStep
<1>8. ASSUME NEW c \in Client, Decide(c) PROVE Forward
  <2>1. UNCHANGED <<req, stdout, dialog>>
    BY <1>8, DecideStep
  <2>2. CASE Close(c, "eof") \/ Close(c, "no")
    BY <1>6, <2>1, <2>2
  <2>3. CASE UNCHANGED <<backlog, serving>>
    BY <2>1, <2>3
  <2> QED
    BY <1>8, <2>2, <2>3, DecideStep
<1>9. ASSUME NEW c \in Client, Kill(c) PROVE Forward
  BY <1>6, <1>9 DEF Kill, broker, dialogs
<1>10. CASE UNCHANGED vars
  BY <1>10 DEF vars, broker, clients, dialogs
<1> QED
  BY <1>1, <1>2, <1>3, <1>4, <1>5, <1>7, <1>8, <1>9, <1>10 DEF Next

\* Apart from Connect a backlog stays, is closed, or gives its head to the client.
LEMMA BacklogStep ==
    ASSUME TypeOK, [Next]_vars, \A r \in Request : ~Connect(r), NEW d \in Client
    PROVE  \/ backlog'[d] = backlog[d] /\ serving'[d] = serving[d]
           \/ backlog'[d] = <<>>
           \/ backlog[d] # <<>> /\ backlog'[d] = Tail(backlog[d]) /\ serving'[d] = Head(backlog[d])
<1> DEFINE Goal == \/ backlog'[d] = backlog[d] /\ serving'[d] = serving[d]
                   \/ backlog'[d] = <<>>
                   \/ backlog[d] # <<>> /\ backlog'[d] = Tail(backlog[d]) /\ serving'[d] = Head(backlog[d])
<1>1. ASSUME NEW r \in Request, Ask(r) \/ Read(r) \/ Timeout(r) \/ Cancel(r) PROVE UNCHANGED <<backlog, serving>>
  BY <1>1, BrokerStep
<1>2. ASSUME NEW c \in Client, NEW command \in {"confirm", "reject"},
             Start(c) \/ Bind(c) \/ CancelPairing(c) \/ Click(c, command) \/ ApplyEvent(c)
      PROVE  UNCHANGED <<backlog, serving>>
  BY <1>2 DEF Start, Bind, CancelPairing, Click, ApplyEvent, clients
<1>3. ASSUME NEW c \in Client, NEW answered \in {"no", "eof"}, Close(c, answered) PROVE Goal
  BY <1>3, CloseStep
<1>4. ASSUME NEW c \in Client, Accept(c) PROVE Goal
  <2>1. CASE /\ serving' = [serving EXCEPT ![c] = Head(backlog[c])] /\ backlog' = [backlog EXCEPT ![c] = Tail(@)]
             /\ backlog[c] # <<>>
    BY <2>1 DEF TypeOK
  <2> QED
    BY <1>3, <1>4, <2>1, AcceptStep
<1>5. ASSUME NEW c \in Client, Decide(c) PROVE Goal
  BY <1>3, <1>5, DecideStep
<1>6. ASSUME NEW c \in Client, Kill(c) PROVE Goal
  BY <1>3, <1>6 DEF Kill
<1>7. CASE UNCHANGED vars
  BY <1>7 DEF vars, clients
<1> QED
  BY <1>1, <1>2, <1>4, <1>5, <1>6, <1>7 DEF Next

LEMMA DeliveredStep ==
    ASSUME TypeOK, TypeOK', Delivered, [Next]_vars PROVE Delivered'
<1>1. CASE \A r \in Request : ~Connect(r)
  <2>1. Forward
    BY <1>1, ForwardStep
  <2>2. /\ \A c \in Client, r \in Request : Holds(c, r)' => req'[r] \notin {"idle", "connecting"}
        /\ \A c, d \in Client, r \in Request : Holds(c, r)' /\ Holds(d, r)' => c = d
    BY <2>1 DEF Forward, Delivered
  <2>3. ASSUME NEW c \in Client
        PROVE  /\ \A i, j \in 1..Len(backlog'[c]) : backlog'[c][i] = backlog'[c][j] => i = j
               /\ ~InSeq(backlog'[c], serving'[c])
    <3>1. CASE backlog'[c] = backlog[c] /\ serving'[c] = serving[c]
      BY <3>1 DEF Delivered
    <3>2. CASE backlog'[c] = <<>>
      BY <3>2, InEmpty
    <3>3. CASE backlog[c] # <<>> /\ backlog'[c] = Tail(backlog[c]) /\ serving'[c] = Head(backlog[c])
      <4>1. backlog[c] \in Seq(Request)
        BY DEF TypeOK
      <4>2. \A i, j \in 1..Len(backlog[c]) : backlog[c][i] = backlog[c][j] => i = j
        BY DEF Delivered
      <4> QED
        BY <3>3, <4>1, <4>2 DEF InSeq
    <3> QED
      BY <1>1, <3>1, <3>2, <3>3, BacklogStep
  <2> QED
    BY <2>2, <2>3 DEF Delivered
<1>2. ASSUME NEW r \in Request, Connect(r) PROVE Delivered'
  <2>1. /\ UNCHANGED <<serving, stdout, dialog>> /\ req[r] = "connecting" /\ req'[r] \notin {"idle", "connecting"}
        /\ \A q \in Request \ {r} : req'[q] = req[q]
    BY <1>2, ConnectStep
  <2>2. \A c \in Client : ~Holds(c, r)
    BY <2>1 DEF Delivered
  <2>3. CASE UNCHANGED backlog
    BY <2>1, <2>2, <2>3 DEF Delivered, Holds
  <2>4. CASE path \in Client /\ backlog' = [backlog EXCEPT ![path] = Append(@, r)]
    <3>1. backlog \in [Client -> Seq(Request)]
      BY DEF TypeOK
    <3>2. \A q \in Request : InSeq(backlog'[path], q) <=> InSeq(backlog[path], q) \/ q = r
      BY <2>4, <3>1, InAppend
    <3>3. \A c \in Client \ {path} : backlog'[c] = backlog[c]
      BY <2>4, <3>1
    <3>4. \A c \in Client, q \in Request : Holds(c, q)' => Holds(c, q) \/ (c = path /\ q = r)
      BY <2>1, <3>2, <3>3 DEF Holds
    <3>5. /\ \A c \in Client, q \in Request : Holds(c, q)' => req'[q] \notin {"idle", "connecting"}
          /\ \A c, d \in Client, q \in Request : Holds(c, q)' /\ Holds(d, q)' => c = d
      BY <2>1, <2>2, <2>4, <3>4 DEF Delivered
    <3>6. \A i, j \in 1..Len(backlog'[path]) : backlog'[path][i] = backlog'[path][j] => i = j
      <4>1. \A i, j \in 1..Len(backlog[path]) : backlog[path][i] = backlog[path][j] => i = j
        BY <2>4 DEF Delivered
      <4>2. \A i \in 1..Len(backlog[path]) : backlog[path][i] # r
        BY <2>2, <2>4 DEF Holds, InSeq
      <4>3. backlog[path] \in Seq(Request) /\ backlog'[path] = Append(backlog[path], r)
        BY <2>4, <3>1
      <4> QED
        BY <4>1, <4>2, <4>3
    <3>7. ~InSeq(backlog'[path], serving'[path])
      <4>1. serving[path] # r /\ ~InSeq(backlog[path], serving[path]) /\ serving[path] \in Request \cup {None}
        BY <2>2, <2>4 DEF Holds, Delivered, TypeOK
      <4>2. backlog[path] \in Seq(Request) /\ backlog'[path] = Append(backlog[path], r)
        BY <2>4, <3>1
      <4> QED
        BY <2>1, <4>1, <4>2, InAppend
    <3> QED
      BY <2>1, <3>3, <3>5, <3>6, <3>7 DEF Delivered
  <2> QED
    BY <1>2, <2>3, <2>4, ConnectStep
<1> QED
  BY <1>1, <1>2

-----------------------------------------------------------------------------
LEMMA TalkStays ==
    ASSUME TypeOK, NEW d \in Client, Talk(d), client'[d] = "ended" \/ client'[d] = client[d],
           stdout'[d] = stdout[d], stdin'[d] = stdin[d], dialog'[d] = dialog[d], serving'[d] = serving[d],
           serving[d] # None => decision'[serving[d]] = decision[serving[d]]
    PROVE  Talk(d)'
  BY DEF Talk, Useless, Unclicked, Clicked

LEMMA TalkCloses ==
    ASSUME NEW d \in Client, client'[d] = "ended" PROVE Talk(d)'
  BY DEF Talk

LEMMA DialogueStep ==
    ASSUME TypeOK, Delivered, Dialogue, [Next]_vars PROVE Dialogue'
<1> SUFFICES ASSUME NEW d \in Client PROVE Talk(d)'
  BY DEF Dialogue
<1>0. Talk(d)
  BY DEF Dialogue
<1>1. ASSUME NEW r \in Request, Ask(r) \/ Read(r) \/ Timeout(r) \/ Cancel(r) PROVE Talk(d)'
  BY <1>0, <1>1, BrokerStep, TalkStays
<1>2. ASSUME NEW r \in Request, Connect(r) PROVE Talk(d)'
  BY <1>0, <1>2, ConnectStep, TalkStays
<1>3. ASSUME NEW c \in Client, Start(c) \/ Bind(c) PROVE Talk(d)'
  BY <1>0, <1>3, StartStep DEF Talk, Useless, Unclicked, Clicked
<1>4. ASSUME NEW c \in Client, CancelPairing(c) PROVE Talk(d)'
  <2>1. stdin \in [Client -> Seq(Commands)] /\ stdin' = [stdin EXCEPT ![c] = Append(@, "cancel")]
    BY <1>4, CancelStep DEF TypeOK
  <2>2. CASE d # c
    BY <1>0, <1>4, <2>1, <2>2, CancelStep, TalkStays
  <2>3. CASE d = c
    <3>1. UNCHANGED <<client, stdout, serving, decision>> /\ dialog'[d].shown = dialog[d].shown /\ ~dialog'[d].enabled
      BY <1>4, <2>3, CancelStep
    <3>2. stdin[d] \in Seq(Commands) /\ stdin'[d] = Append(stdin[d], "cancel")
      BY <2>1, <2>3
    <3>3. Unclicked(d) => Unclicked(d)'
      BY <3>2 DEF Unclicked
    <3>4. Clicked(d) => Clicked(d)'
      BY <3>1, <3>2 DEF Clicked
    <3> QED
      BY <1>0, <3>1, <3>3, <3>4 DEF Talk, Useless
  <2> QED
    BY <2>2, <2>3
<1>5. ASSUME NEW c \in Client, NEW command \in {"confirm", "reject"}, Click(c, command) PROVE Talk(d)'
  <2>1. stdin \in [Client -> Seq(Commands)] /\ stdin' = [stdin EXCEPT ![c] = Append(@, command)]
    BY <1>5, ClickStep DEF TypeOK
  <2>2. CASE d # c
    <3>1. serving[d] # None => serving[d] # dialog[c].shown /\ serving[d] \in Request
      BY <1>5, <2>2, ClickStep DEF Delivered, Holds, TypeOK
    <3>2. /\ UNCHANGED <<client, serving, stdout>> /\ dialog'[d] = dialog[d]
          /\ \A q \in Request : q # dialog[c].shown => decision'[q] = decision[q]
      BY <1>5, <2>2, ClickStep
    <3>3. stdin'[d] = stdin[d]
      BY <2>1, <2>2
    <3> QED
      BY <1>0, <3>1, <3>2, <3>3, TalkStays
  <2>3. CASE d = c
    <3>1. /\ UNCHANGED <<client, stdout, serving>> /\ dialog'[d].shown = dialog[d].shown /\ ~dialog'[d].enabled
          /\ decision'[dialog[d].shown] = command
      BY <1>5, <2>3, ClickStep
    <3>2. stdin[d] \in Seq(Commands) /\ stdin'[d] = Append(stdin[d], command)
      BY <2>1, <2>3
    <3>3. ~Useless(d) /\ ~Clicked(d) /\ client[d] \in {"binding", "listening", "deciding"}
      BY <1>5, <2>3, ClickStep, ConfirmationAssumption DEF Useless, Clicked
    <3>4. client[d] = "deciding" /\ stdout[d] = <<>> /\ dialog[d].shown = serving[d] /\ Unclicked(d)
      BY <1>0, <3>3 DEF Talk
    <3>5. Clicked(d)'
      BY <3>1, <3>2, <3>4 DEF Clicked, Unclicked
    <3>6. serving[d] # None /\ serving[d][1] # "bonded"
      BY <1>0, <3>4 DEF Talk
    <3>7. /\ client'[d] = "deciding" /\ stdout'[d] = <<>> /\ dialog'[d].shown = serving'[d]
          /\ serving'[d] # None /\ serving'[d][1] # "bonded"
      BY <3>1, <3>4, <3>6
    <3> QED
      BY <3>5, <3>7 DEF Talk
  <2> QED
    BY <2>2, <2>3
<1>6. ASSUME NEW c \in Client, ApplyEvent(c) PROVE Talk(d)'
  <2>1. stdout \in [Client -> Seq(Request)] /\ stdout' = [stdout EXCEPT ![c] = Tail(@)]
    BY <1>6, EventStep DEF TypeOK
  <2>2. CASE d # c
    BY <1>0, <1>6, <2>1, <2>2, EventStep, TalkStays, ZenonT(60)
  <2>3. CASE d = c
    <3>1. /\ UNCHANGED <<client, serving, stdin, decision>> /\ stdout[d] # <<>>
          /\ dialog'[d].shown = IF Head(stdout[d])[1] = "bonded" THEN None ELSE Head(stdout[d])
      BY <1>6, <2>3, EventStep
    <3>2. stdout'[d] = Tail(stdout[d])
      BY <2>1, <2>3
    <3>3. CASE client[d] = "deciding"
      <4>1. serving[d] # None /\ serving[d][1] # "bonded" /\ stdout[d] = <<serving[d]>> /\ Unclicked(d)
        BY <1>0, <3>1, <3>3 DEF Talk
      <4>2. stdout'[d] = <<>> /\ Head(stdout[d]) = serving[d]
        BY <3>2, <4>1
      <4> QED
        BY <3>1, <3>3, <4>1, <4>2 DEF Talk, Unclicked
    <3> QED
      BY <1>0, <3>1, <3>3 DEF Talk
  <2> QED
    BY <2>2, <2>3
<1>7. ASSUME NEW c \in Client, NEW answered \in {"no", "eof"}, Close(c, answered),
             \A e \in Client \ {c} : stdout'[e] = stdout[e] /\ stdin'[e] = stdin[e], UNCHANGED <<dialog, decision>>
      PROVE  Talk(d)'
  BY <1>0, <1>7, CloseStep, TalkStays, TalkCloses
<1>8. ASSUME NEW c \in Client, Accept(c) PROVE Talk(d)'
  <2>1. stdout \in [Client -> Seq(Request)] /\ stdout' = [stdout EXCEPT ![c] = Append(@, Head(backlog[c]))]
    BY <1>8, AcceptStep DEF TypeOK
  <2>2. UNCHANGED <<stdin, dialog, decision>> /\ client[c] = "listening" /\ Head(backlog[c]) \in Request
    BY <1>8, AcceptStep
  <2>3. CASE Close(c, "eof")
    BY <1>7, <2>1, <2>2, <2>3
  <2>4. CASE /\ Head(backlog[c])[1] # "bonded" /\ client' = [client EXCEPT ![c] = "deciding"]
             /\ serving' = [serving EXCEPT ![c] = Head(backlog[c])]
    <3>1. \A e \in Client \ {c} : client'[e] = client[e] /\ serving'[e] = serving[e] /\ stdout'[e] = stdout[e]
      BY <2>1, <2>4 DEF TypeOK
    <3>2. CASE d # c
      BY <1>0, <2>2, <3>1, <3>2, TalkStays
    <3>3. CASE d = c
      <4>1. client'[d] = "deciding" /\ serving'[d] = Head(backlog[d])
        BY <2>4, <3>3 DEF TypeOK
      <4>2. stdout[d] = <<>> /\ Useless(d) /\ Unclicked(d)
        BY <1>0, <2>2, <3>3 DEF Talk
      <4>3. stdout'[d] = <<serving'[d]>>
        BY <2>1, <3>3, <4>1, <4>2
      <4>4. serving'[d] # None
        BY <2>2, <3>3, <4>1, ConfirmationAssumption
      <4> QED
        BY <2>2, <2>4, <3>3, <4>1, <4>2, <4>3, <4>4 DEF Talk, Useless, Unclicked
    <3> QED
      BY <3>2, <3>3
  <2> QED
    BY <1>8, <2>3, <2>4, AcceptStep
<1>9. ASSUME NEW c \in Client, Decide(c) PROVE Talk(d)'
  <2>1. stdin \in [Client -> Seq(Commands)] /\ stdin' = [stdin EXCEPT ![c] = Tail(@)]
    BY <1>9, DecideStep DEF TypeOK
  <2>2. UNCHANGED <<stdout, dialog, decision>> /\ client[c] = "deciding" /\ stdin[c] # <<>>
    BY <1>9, DecideStep
  <2>3. CASE Close(c, "eof") \/ Close(c, "no")
    BY <1>7, <2>1, <2>2, <2>3
  <2>4. CASE Head(stdin[c]) = "confirm" /\ client' = [client EXCEPT ![c] = "listening"] /\ UNCHANGED serving
    <3>1. \A e \in Client \ {c} : client'[e] = client[e] /\ stdin'[e] = stdin[e]
      BY <2>1, <2>4 DEF TypeOK
    <3>2. CASE d # c
      BY <1>0, <2>2, <2>4, <3>1, <3>2, TalkStays
    <3>3. CASE d = c
      <4>1. stdin[d] \in Seq(Commands) /\ stdin'[d] = Tail(stdin[d]) /\ stdin[d] # <<>> /\ stdin[d][1] = "confirm"
        BY <2>1, <2>2, <2>4, <3>3
      <4>2. ~Unclicked(d)
        BY <4>1 DEF Unclicked
      <4>3. stdout[d] = <<>> /\ Clicked(d)
        BY <1>0, <2>2, <3>3, <4>2 DEF Talk
      <4>4. Unclicked(d)'
        BY <4>1, <4>3 DEF Clicked, Unclicked
      <4>5. client'[d] = "listening"
        BY <2>4, <3>3 DEF TypeOK
      <4>6. Useless(d)'
        BY <2>2, <4>3 DEF Clicked, Useless
      <4> QED
        BY <2>2, <4>3, <4>4, <4>5, <4>6 DEF Talk
    <3> QED
      BY <3>2, <3>3
  <2> QED
    BY <1>9, <2>3, <2>4, DecideStep
<1>10. ASSUME NEW c \in Client, Kill(c) PROVE Talk(d)'
  BY <1>7, <1>10 DEF Kill, dialogs
<1>11. CASE UNCHANGED vars
  BY <1>0, <1>11, TalkStays DEF vars, clients, dialogs
<1> QED
  BY <1>1, <1>2, <1>3, <1>4, <1>5, <1>6, <1>8, <1>9, <1>10, <1>11 DEF Next

-----------------------------------------------------------------------------
LEMMA FinalStep ==
    ASSUME TypeOK, Delivered, Dialogue, Final, [Next]_vars PROVE Final'
<1> SUFFICES ASSUME NEW r \in Request PROVE Settled(r)'
  BY DEF Final
<1>0. Settled(r)
  BY DEF Final
<1>1. ASSUME NEW q \in Request, Ask(q) \/ Read(q) \/ Timeout(q) \/ Cancel(q) PROVE Settled(r)'
  BY <1>0, <1>1, BrokerStep DEF Settled, Gone
<1>2. ASSUME NEW q \in Request, Connect(q) PROVE Settled(r)'
  <2>1. /\ UNCHANGED <<client, serving, wire, stdout, dialog, decision>> /\ req[q] = "connecting"
        /\ \A p \in Request \ {q} : req'[p] = req[p]
    BY <1>2, ConnectStep
  <2>2. ASSUME wire[r] = "yes", NEW d \in Client PROVE Gone(d, r)' /\ req'[r] = req[r]
    <3>1. r # q /\ Gone(d, r) /\ req'[r] = req[r]
      BY <1>0, <2>1, <2>2 DEF Settled
    <3>2. CASE UNCHANGED backlog
      BY <2>1, <3>1, <3>2 DEF Gone
    <3>3. CASE path \in Client /\ backlog' = [backlog EXCEPT ![path] = Append(@, q)]
      <4>1. backlog \in [Client -> Seq(Request)]
        BY DEF TypeOK
      <4>2. InSeq(backlog'[d], r) => InSeq(backlog[d], r)
        BY <3>1, <3>3, <4>1, InAppend
      <4> QED
        BY <2>1, <3>1, <4>2 DEF Gone
    <3> QED
      BY <1>2, <3>2, <3>3, ConnectStep
  <2>3. wire[r] = "yes" => req'[r] = req[r]
    BY <1>0, <2>1 DEF Settled
  <2> QED
    BY <1>0, <2>1, <2>2, <2>3 DEF Settled
<1>3. ASSUME NEW c \in Client, Start(c) \/ Bind(c) PROVE Settled(r)'
  BY <1>0, <1>3, StartStep DEF Settled, Gone
<1>4. ASSUME NEW c \in Client, CancelPairing(c) PROVE Settled(r)'
  BY <1>0, <1>4, CancelStep DEF Settled, Gone
<1>5. ASSUME NEW c \in Client, NEW command \in {"confirm", "reject"}, Click(c, command) PROVE Settled(r)'
  <2>1. wire[r] = "yes" => dialog[c].shown # r
    BY <1>0, <1>5, ClickStep DEF Settled, Gone
  <2> QED
    BY <1>0, <1>5, <2>1, ClickStep DEF Settled, Gone
<1>6. ASSUME NEW c \in Client, ApplyEvent(c) PROVE Settled(r)'
  <2>1. stdout \in [Client -> Seq(Request)] /\ stdout' = [stdout EXCEPT ![c] = Tail(@)] /\ stdout[c] # <<>>
    BY <1>6, EventStep DEF TypeOK
  <2>2. /\ UNCHANGED <<req, client, backlog, serving, wire, decision>>
        /\ \A d \in Client \ {c} : dialog'[d] = dialog[d]
        /\ dialog'[c].shown = IF Head(stdout[c])[1] = "bonded" THEN None ELSE Head(stdout[c])
    BY <1>6, EventStep
  <2>3. ASSUME NEW d \in Client, Gone(d, r) PROVE Gone(d, r)'
    <3>1. ~InSeq(stdout'[d], r)
      BY <2>1, <2>3, InTail DEF Gone
    <3>2. dialog'[d].shown = r => ~dialog'[d].enabled
      <4>1. CASE d # c
        BY <2>2, <2>3, <4>1 DEF Gone
      <4>2. CASE d = c
        <5>1. Head(stdout[c]) # r
          BY <2>1, <2>3, <4>2, InHead DEF Gone
        <5> QED
          BY <2>2, <4>2, <5>1, ConfirmationAssumption
      <4> QED
        BY <4>1, <4>2
    <3> QED
      BY <2>2, <2>3, <3>1, <3>2 DEF Gone
  <2> QED
    BY <1>0, <2>2, <2>3 DEF Settled
<1>7. ASSUME NEW c \in Client, NEW answered \in {"no", "eof"}, Close(c, answered), UNCHANGED <<req, dialog, decision>>,
             \A d \in Client : Gone(d, r) => ~InSeq(stdout'[d], r)
      PROVE  Settled(r)'
  BY <1>0, <1>7, CloseStep, InEmpty DEF Settled, Gone
<1>8. ASSUME NEW c \in Client, Accept(c) PROVE Settled(r)'
  <2> DEFINE h == Head(backlog[c])
  <2>1. stdout \in [Client -> Seq(Request)] /\ stdout' = [stdout EXCEPT ![c] = Append(@, h)] /\ h \in Request
    BY <1>8, AcceptStep DEF TypeOK
  <2>2. backlog \in [Client -> Seq(Request)] /\ backlog[c] # <<>> /\ UNCHANGED <<req, dialog, decision>>
    BY <1>8, AcceptStep DEF TypeOK
  <2>3. Gone(c, r) => h # r
    BY <2>2, InHead DEF Gone
  <2>4. ASSUME NEW d \in Client, Gone(d, r) PROVE ~InSeq(stdout'[d], r)
    BY <2>1, <2>3, <2>4, InAppend DEF Gone
  <2>5. CASE Close(c, "eof")
    BY <1>7, <2>2, <2>4, <2>5
  <2>6. CASE /\ client' = [client EXCEPT ![c] = "deciding"] /\ serving' = [serving EXCEPT ![c] = h]
             /\ backlog' = [backlog EXCEPT ![c] = Tail(@)] /\ UNCHANGED wire
    <3>1. ASSUME NEW d \in Client, Gone(d, r) PROVE Gone(d, r)'
      <4>1. ~InSeq(backlog'[d], r)
        BY <2>2, <2>6, <3>1, InTail DEF Gone
      <4>2. serving'[d] = r => client'[d] # "deciding"
        BY <2>3, <2>6, <3>1 DEF Gone, TypeOK
      <4> QED
        BY <2>2, <2>4, <3>1, <4>1, <4>2 DEF Gone
    <3> QED
      BY <1>0, <2>2, <2>6, <3>1 DEF Settled
  <2> QED
    BY <1>8, <2>5, <2>6, AcceptStep
<1>9. ASSUME NEW c \in Client, Decide(c) PROVE Settled(r)'
  <2>1. UNCHANGED <<req, stdout, dialog, decision>> /\ client[c] = "deciding" /\ stdin[c] # <<>>
    BY <1>9, DecideStep
  <2>2. CASE Close(c, "eof") \/ Close(c, "no")
    BY <1>7, <2>1, <2>2 DEF Gone
  <2>3. CASE /\ Head(stdin[c]) = "confirm" /\ req[serving[c]] = "waiting"
             /\ client' = [client EXCEPT ![c] = "listening"] /\ wire' = [wire EXCEPT ![serving[c]] = "yes"]
             /\ UNCHANGED <<backlog, serving>>
    <3>1. ASSUME NEW d \in Client, Gone(d, r) PROVE Gone(d, r)'
      BY <2>1, <2>3, <3>1 DEF Gone, TypeOK
    <3>2. CASE r # serving[c]
      <4>1. wire'[r] = wire[r]
        BY <2>3, <3>2 DEF TypeOK
      <4> QED
        BY <1>0, <2>1, <3>1, <4>1 DEF Settled
    <3>3. CASE r = serving[c]
      <4>1. stdin[c] \in Seq(Commands) /\ stdin[c][1] = "confirm"
        BY <2>1, <2>3 DEF TypeOK
      <4>2. ~Unclicked(c)
        BY <2>1, <4>1 DEF Unclicked
      <4>3. Talk(c)
        BY DEF Dialogue
      <4>4. stdout[c] = <<>> /\ Clicked(c)
        BY <2>1, <4>2, <4>3 DEF Talk
      <4>5. decision[r] = "confirm" /\ ~dialog[c].enabled
        BY <2>1, <3>3, <4>1, <4>4 DEF Clicked
      <4>6. ~InSeq(backlog[c], r) /\ \A d \in Client \ {c} : ~Holds(d, r)
        BY <3>3 DEF Delivered, Holds
      <4>7. client'[c] = "listening"
        BY <2>3 DEF TypeOK
      <4>8. Gone(c, r)'
        BY <2>1, <2>3, <4>4, <4>5, <4>6, <4>7, InEmpty DEF Gone
      <4>9. ASSUME NEW d \in Client \ {c} PROVE Gone(d, r)'
        BY <2>1, <2>3, <4>6, <4>9 DEF Gone, Holds
      <4> QED
        BY <2>1, <2>3, <3>3, <4>5, <4>8, <4>9 DEF Settled
    <3> QED
      BY <3>2, <3>3
  <2> QED
    BY <1>9, <2>2, <2>3, DecideStep
<1>10. ASSUME NEW c \in Client, Kill(c) PROVE Settled(r)'
  <2>1. Close(c, "eof") /\ UNCHANGED <<req, dialog, decision, stdout>>
    BY <1>10 DEF Kill, broker, dialogs
  <2> QED
    BY <1>7, <2>1 DEF Gone
<1>11. CASE UNCHANGED vars
  BY <1>0, <1>11 DEF vars, broker, clients, dialogs, Settled, Gone
<1> QED
  BY <1>1, <1>2, <1>3, <1>4, <1>5, <1>6, <1>8, <1>9, <1>10, <1>11 DEF Next

-----------------------------------------------------------------------------
\* What a step of a client or of a dialog leaves: the requests, and every yes that was given.
LEMMA ClientStep ==
    ASSUME TypeOK, NEW c \in Client, NEW command \in {"confirm", "reject"},
           Start(c) \/ Bind(c) \/ Accept(c) \/ Decide(c) \/ ApplyEvent(c) \/ CancelPairing(c) \/ Kill(c)
           \/ Click(c, command)
    PROVE  UNCHANGED req /\ \A r \in Request : wire[r] = "yes" => wire'[r] = "yes"
<1>1. CASE Start(c) \/ Bind(c) \/ ApplyEvent(c) \/ CancelPairing(c) \/ Click(c, command)
  BY <1>1, StartStep, EventStep, CancelStep, ClickStep
<1>2. CASE Accept(c)
  BY <1>2, AcceptStep, CloseStep
<1>3. CASE Decide(c)
  <2>1. CASE wire' = [wire EXCEPT ![serving[c]] = "yes"]
    BY <1>3, <2>1, DecideStep, ZenonT(60) DEF TypeOK
  <2> QED
    BY <1>3, <2>1, DecideStep, CloseStep
<1>4. CASE Kill(c)
  BY <1>4, CloseStep, ZenonT(60) DEF Kill, broker
<1> QED
  BY <1>1, <1>2, <1>3, <1>4

LEMMA AnsweredStep ==
    ASSUME TypeOK, Answered, [Next]_vars PROVE Answered'
<1>1. ASSUME NEW r \in Request, Ask(r) \/ Read(r) \/ Timeout(r) \/ Cancel(r) PROVE Answered'
  BY <1>1, BrokerStep DEF Answered
<1>2. ASSUME NEW r \in Request, Connect(r) PROVE Answered'
  BY <1>2, ConnectStep DEF Answered
<1>3. ASSUME NEW c \in Client, NEW command \in {"confirm", "reject"},
             Start(c) \/ Bind(c) \/ Accept(c) \/ Decide(c) \/ ApplyEvent(c) \/ CancelPairing(c) \/ Kill(c)
             \/ Click(c, command)
      PROVE  Answered'
  BY <1>3, ClientStep DEF Answered
<1>4. CASE UNCHANGED vars
  BY <1>4 DEF vars, broker, clients, Answered
<1> QED
  BY <1>1, <1>2, <1>3, <1>4 DEF Next

\* An accepted request stays accepted, and one that begins was due.
LEMMA RequestStep ==
    ASSUME TypeOK, [Next]_vars, NEW q \in Request
    PROVE  /\ req[q] = "accepted" => req'[q] = "accepted"
           /\ req[q] = "idle" /\ req'[q] # "idle" => Due(q)
<1>1. ASSUME NEW r \in Request, Ask(r) PROVE req[q] = "idle" /\ req'[q] # "idle" => Due(q)
  <2>1. Due(r) /\ (q # r => req'[q] = req[q])
    BY <1>1 DEF Ask, Becomes, TypeOK
  <2> QED
    BY <2>1
<1>2. ASSUME NEW r \in Request, Read(r) \/ Timeout(r) \/ Cancel(r) PROVE req[q] = "idle" => req'[q] = "idle"
  BY <1>2 DEF Read, Timeout, Cancel, Becomes, TypeOK, InExchange
<1>3. ASSUME NEW r \in Request, Connect(r)
      PROVE  (req[q] = "idle" => req'[q] = "idle") /\ (req[q] = "accepted" => req'[q] = "accepted")
  BY <1>3, ConnectStep
<1>4. ASSUME NEW c \in Client, NEW command \in {"confirm", "reject"},
             Start(c) \/ Bind(c) \/ Accept(c) \/ Decide(c) \/ ApplyEvent(c) \/ CancelPairing(c) \/ Kill(c)
             \/ Click(c, command)
      PROVE  UNCHANGED req
  BY <1>4, ClientStep
<1>5. CASE UNCHANGED vars
  BY <1>5 DEF vars, broker
<1> QED
  BY <1>1, <1>2, <1>3, <1>4, <1>5, BrokerStep DEF Next

LEMMA TrustedStep ==
    ASSUME TypeOK, Delivered, Trusted, [Next]_vars PROVE Trusted'
<1>1. ASSUME NEW a \in Attempt, req'[<<"bonded", a>>] # "idle" PROVE req'[<<"oob", a>>] = "accepted"
  <2>1. <<"bonded", a>> \in Request /\ <<"oob", a>> \in Request
    BY DEF Request
  <2>2. CASE req[<<"bonded", a>>] # "idle"
    BY <2>1, <2>2, RequestStep DEF Trusted
  <2>3. CASE req[<<"bonded", a>>] = "idle"
    <3>1. Due(<<"bonded", a>>)
      BY <1>1, <2>1, <2>3, RequestStep
    <3>2. req[<<"oob", a>>] = "accepted"
      BY <3>1 DEF Due
    <3> QED
      BY <2>1, <3>2, RequestStep
  <2> QED
    BY <2>2, <2>3
<1>2. ASSUME NEW a \in Attempt, req[<<"oob", a>>] = "accepted" PROVE req'[<<"oob", a>>] = "accepted"
  <2>1. <<"oob", a>> \in Request
    BY DEF Request
  <2> QED
    BY <1>2, <2>1, RequestStep
<1>3. ASSUME \A d \in Client : dialog'[d].bonded => dialog[d].bonded PROVE Trusted'
  BY <1>1, <1>2, <1>3, ZenonT(60) DEF Trusted
<1>4. ASSUME NEW c \in Client, ApplyEvent(c) PROVE Trusted'
  <2> DEFINE r == Head(stdout[c])
  <2>1. /\ stdout[c] # <<>> /\ r \in Request
        /\ \A d \in Client \ {c} : dialog'[d] = dialog[d]
        /\ dialog'[c].bonded => dialog[c].bonded \/ r[1] = "bonded"
    BY <1>4, EventStep
  <2>2. CASE r[1] = "bonded"
    <3>1. PICK a \in Attempt : r = <<"bonded", a>>
      BY <2>1, <2>2 DEF Request
    <3>2. stdout[c] \in Seq(Request)
      BY DEF TypeOK
    <3>3. req[r] # "idle"
      BY <2>1, <3>2, InHead DEF Delivered, Holds
    <3>4. req[<<"oob", a>>] = "accepted"
      BY <3>1, <3>3 DEF Trusted
    <3>5. \E b \in Attempt : req'[<<"oob", b>>] = "accepted"
      BY <1>2, <3>4
    <3> QED
      BY <1>1, <3>5 DEF Trusted
  <2>3. CASE r[1] # "bonded"
    BY <1>3, <2>1, <2>3
  <2> QED
    BY <2>2, <2>3
<1>5. ASSUME NEW r \in Request, Ask(r) \/ Read(r) \/ Timeout(r) \/ Cancel(r) \/ Connect(r) PROVE UNCHANGED dialog
  BY <1>5, BrokerStep, ConnectStep
<1>6. ASSUME NEW c \in Client, NEW command \in {"confirm", "reject"},
             Start(c) \/ Bind(c) \/ Accept(c) \/ Decide(c) \/ CancelPairing(c) \/ Kill(c) \/ Click(c, command)
      PROVE  \A d \in Client : dialog'[d].bonded => dialog[d].bonded
  <2>1. CASE Start(c) \/ Bind(c) \/ Accept(c) \/ Decide(c) \/ Kill(c)
    BY <2>1 DEF Start, Bind, Accept, Decide, Kill, dialogs
  <2> QED
    BY <1>6, <2>1, CancelStep, ClickStep, ZenonT(60)
<1>7. CASE UNCHANGED vars
  BY <1>3, <1>7 DEF vars, dialogs
<1> QED
  BY <1>3, <1>4, <1>5, <1>6, <1>7 DEF Next

Inv == TypeOK /\ Delivered /\ Dialogue /\ Final /\ Answered /\ Trusted

LEMMA InvInit == Init => Delivered /\ Dialogue /\ Final /\ Answered /\ Trusted
<1> SUFFICES ASSUME Init PROVE Delivered /\ Dialogue /\ Final /\ Answered /\ Trusted
  OBVIOUS
<1>1. \A c \in Client, r \in Request : ~Holds(c, r)
  BY ConfirmationAssumption, InEmpty DEF Init, NewDialog, Holds
<1>2. Delivered
  BY <1>1, InEmpty DEF Init, Delivered
<1>3. Dialogue
  BY DEF Init, NewDialog, Dialogue, Talk, Useless, Unclicked
<1>4. Final /\ Answered
  BY DEF Init, Final, Settled, Answered
<1>5. Trusted
  BY DEF Init, NewDialog, Trusted, Request
<1> QED
  BY <1>2, <1>3, <1>4, <1>5

LEMMA Invariance == Spec => []Inv
<1>1. TypeOK /\ TypeOK' /\ Delivered /\ Dialogue /\ Final /\ Answered /\ Trusted /\ [Next]_vars
        => Delivered' /\ Dialogue' /\ Final' /\ Answered' /\ Trusted'
  BY DeliveredStep, DialogueStep, FinalStep, AnsweredStep, TrustedStep
<1> QED
  BY <1>1, InvInit, TypeCorrect, PTL DEF Spec, Inv

\* request_confirmation and request_oob_confirmation return true only for a request the operator confirmed while
\* the dialog displayed it, whatever clients are started, killed or cancelled and whenever bytes and events arrive.
THEOREM AcceptedConfirmed == Spec => []AcceptedWasConfirmed
<1>1. Inv => AcceptedWasConfirmed
  BY DEF Inv, Answered, Final, Settled, AcceptedWasConfirmed
<1> QED
  BY <1>1, Invariance, PTL

\* A dialog announces an association only for an attempt the broker accepted and the operator confirmed.
THEOREM AssociationTrusted == Spec => []AssociatedIsTrusted
<1>1. Inv => AssociatedIsTrusted
  <2> SUFFICES ASSUME Inv, NEW c \in Client, dialog[c].bonded
               PROVE  \E a \in Attempt : req[<<"oob", a>>] = "accepted" /\ decision[<<"oob", a>>] = "confirm"
    BY DEF AssociatedIsTrusted
  <2>1. PICK a \in Attempt : req[<<"oob", a>>] = "accepted"
    BY DEF Inv, Trusted
  <2>2. <<"oob", a>> \in Request
    BY DEF Request
  <2>3. decision[<<"oob", a>>] = "confirm"
    BY <2>1, <2>2 DEF Inv, Answered, Final, Settled
  <2> QED
    BY <2>1, <2>3
<1> QED
  BY <1>1, Invariance, PTL
=============================================================================
