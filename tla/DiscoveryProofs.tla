--------------------------- MODULE DiscoveryProofs ---------------------------
(***************************************************************************)
(* Proofs about Discovery, for every set of senders and of other servers,  *)
(* every depth of the queues and every number of troubles.                 *)
(***************************************************************************)
EXTENDS Discovery, TLAPS

Asked == [to : Senders, awaited : BOOLEAN]

\* The inductive invariant in three parts: the client, the bridge's threads, and
\* what is on its way between them.
ClientInv ==
  /\ Client!TypeOK
  /\ serving \in {"none", "awaited", "abandoned"}
  /\ troubles \in 0 .. MaxTroubles
  /\ hadPeer \in BOOLEAN
  /\ phase = "busy" /\ call \in Client!Connects => address \in Servers
  /\ peer # NoAddress \/ (phase = "busy" /\ call = "ping") => hadPeer

BridgeInv ==
  /\ io \in {"idle", "sending", "waiting", "storing"}
  /\ sender \in Senders \cup {NoAddress}
  /\ flag \in BOOLEAN
  /\ recent \in BOOLEAN
  /\ reply \in Outcome \cup {"none"}
  /\ flag => hadPeer
  /\ io = "sending" => sender \in Senders
  /\ io = "storing" \/ reply = "success" => hadPeer

QueueInv ==
  /\ requests \in Seq(Asked) /\ Len(requests) <= RequestDepth
  /\ responses \in Seq(TrueResponses) /\ Len(responses) <= RequestDepth
  /\ statuses \in Seq(TrueStatuses) /\ Len(statuses) <= StatusDepth

-----------------------------------------------------------------------------
(***************************************************************************)
(* The queues.                                                             *)
(***************************************************************************)
\* A sequence over a set is one over any larger set.
LEMMA LargerSeq ==
  ASSUME NEW S, NEW T, S \subseteq T, NEW q \in Seq(S)
  PROVE  q \in Seq(T)
OBVIOUS

\* A KEEP_LAST queue stays within its depth and holds nothing but what it held
\* and what was pushed.
LEMMA PushKeeps ==
  ASSUME NEW S, NEW q \in Seq(S), NEW x \in S, NEW d \in Nat \ {0}, Len(q) <= d
  PROVE  Push(q, x, d) \in Seq(S) /\ Len(Push(q, x, d)) <= d
<1>1. CASE Len(q) < d
  BY <1>1 DEF Push
<1>2. CASE ~(Len(q) < d)
  <2>1. Len(q) = d /\ q # <<>>
    BY <1>2
  <2>2. Tail(q) \in Seq(S) /\ Len(Tail(q)) = d - 1
    BY <2>1
  <2> QED
    BY <1>2, <2>2 DEF Push
<1> QED
  BY <1>1, <1>2

\* What is taken from a queue is one of its elements, the rest still a queue.
LEMMA TakeKeeps ==
  ASSUME NEW S, NEW q \in Seq(S), q # <<>>, NEW d \in Nat, Len(q) <= d
  PROVE  /\ Head(q) \in S
         /\ Tail(q) \in Seq(S)
         /\ Len(Tail(q)) <= d
OBVIOUS

\* A function on 1 .. n is a sequence of length n.
LEMMA FunctionIsSeq ==
  ASSUME NEW S, NEW n \in Nat, NEW f \in [1 .. n -> S]
  PROVE  f \in Seq(S) /\ Len(f) = n
OBVIOUS

\* Giving a request up leaves everything but who waits for it.
LEMMA AbandonKeepsRequests ==
  ASSUME NEW q \in Seq(Asked)
  PROVE  Abandon(q) \in Seq(Asked) /\ Len(Abandon(q)) = Len(q)
<1>1. Len(q) \in Nat /\ DOMAIN q = 1 .. Len(q) /\ \A i \in 1 .. Len(q) : q[i] \in Asked
  OBVIOUS
<1>2. Abandon(q) \in [1 .. Len(q) -> Asked]
  BY <1>1 DEF Abandon, Asked
<1> QED
  BY <1>1, <1>2, FunctionIsSeq

LEMMA AbandonKeepsResponses ==
  ASSUME NEW q \in Seq(TrueResponses)
  PROVE  Abandon(q) \in Seq(TrueResponses) /\ Len(Abandon(q)) = Len(q)
<1>1. /\ Len(q) \in Nat
      /\ DOMAIN q = 1 .. Len(q)
      /\ \A i \in 1 .. Len(q) : q[i] \in TrueResponses
  OBVIOUS
<1>2. Abandon(q) \in [1 .. Len(q) -> TrueResponses]
  BY <1>1 DEF Abandon, TrueResponses, Response
<1> QED
  BY <1>1, <1>2, FunctionIsSeq

\* The invariant is its three parts.
LEMMA Parts == IInv <=> ClientInv /\ BridgeInv /\ QueueInv
<1>1. /\ Asked \subseteq Request
      /\ TrueResponses \subseteq Response
      /\ TrueStatuses \subseteq BOOLEAN
  BY DEF Asked, Request, TrueResponses, TrueStatuses
<1>2. ASSUME QueueInv
      PROVE  /\ requests \in Seq(Request)
             /\ responses \in Seq(Response)
             /\ statuses \in Seq(BOOLEAN)
  <2>1. /\ requests \in Seq(Asked)
        /\ responses \in Seq(TrueResponses)
        /\ statuses \in Seq(TrueStatuses)
    BY <1>2 DEF QueueInv
  <2> QED
    BY <1>1, <2>1, LargerSeq
<1>3. ASSUME IInv
      PROVE  ClientInv /\ BridgeInv /\ QueueInv
  <2>1. ClientInv
    BY <1>3 DEF IInv, TypeOK, ClientInv
  <2>2. BridgeInv
    BY <1>3 DEF IInv, TypeOK, BridgeTypeOK, NoFalseDiscovery, BridgeInv
  <2>3. QueueInv
    BY <1>3 DEF IInv, TypeOK, BridgeTypeOK, QueueInv, Asked
  <2> QED
    BY <2>1, <2>2, <2>3
<1>4. ASSUME ClientInv, BridgeInv, QueueInv
      PROVE  IInv
  <2>1. BridgeTypeOK
    BY <1>2, <1>4 DEF BridgeInv, QueueInv, BridgeTypeOK
  <2>2. TypeOK
    BY <1>4, <2>1 DEF ClientInv, TypeOK
  <2>3. NoFalseDiscovery
    BY <1>4 DEF BridgeInv, NoFalseDiscovery
  <2> QED
    BY <1>4, <2>2, <2>3 DEF IInv, ClientInv, BridgeInv, QueueInv, Asked
<1> QED
  BY <1>3, <1>4

LEMMA InvInit == Init => IInv
<1> SUFFICES ASSUME Init PROVE ClientInv /\ BridgeInv /\ QueueInv
  BY Parts
<1>1. ClientInv
  <2>1. Client!TypeOK
    BY DiscoveryAssumption
    DEF Init, Client!Init, Client!TypeOK, Client!Addresses, Client!Connects
  <2>2. troubles \in 0 .. MaxTroubles
    BY DiscoveryAssumption DEF Init
  <2> QED
    BY <2>1, <2>2 DEF Init, ClientInv, Unserved, Client!Init
<1>2. BridgeInv
  BY DEF Init, BridgeInit, BridgeInv
<1>3. QueueInv
  BY GcBridgeAssumption DEF Init, BridgeInit, QueueInv
<1> QED
  BY <1>1, <1>2, <1>3

-----------------------------------------------------------------------------
(***************************************************************************)
(* Steps of the team client.                                               *)
(***************************************************************************)
\* A queue left alone stays true, whatever the client learns.
LEMMA QueuesStay ==
  ASSUME QueueInv, NotePeer, hadPeer \in BOOLEAN
  PROVE  /\ responses \in Seq(TrueResponses')
         /\ statuses \in Seq(TrueStatuses')
<1>1. TrueResponses \subseteq TrueResponses'
  BY DEF NotePeer, TrueResponses, Response
<1>2. TrueStatuses \subseteq TrueStatuses'
  BY DEF NotePeer, TrueStatuses
<1> QED
  BY <1>1, <1>2, LargerSeq DEF QueueInv

\* The bridge's threads, too, stay right about what the client has had.
LEMMA BridgeStays ==
  ASSUME BridgeInv, NotePeer, hadPeer \in BOOLEAN, UNCHANGED bridgeVars
  PROVE  BridgeInv'
BY DEF BridgeInv, NotePeer, bridgeVars, Outcome

\* What is spent on a trouble stays within the bound.
LEMMA TroubleStays ==
  ASSUME troubles \in 0 .. MaxTroubles, Trouble \/ NoTrouble
  PROVE  troubles' \in 0 .. MaxTroubles
BY DiscoveryAssumption DEF Trouble, NoTrouble

\* Taking up a connect keeps the client's part.
LEMMA ConnectBegins ==
  ASSUME ClientInv, NotePeer, NEW a \in Client!Addresses, Client!BeginConnect(a),
         call' \in Client!Connects
  PROVE  /\ Client!TypeOK'
         /\ hadPeer' \in BOOLEAN
         /\ (phase = "busy" /\ call \in Client!Connects => address \in Servers)'
         /\ (peer # NoAddress \/ (phase = "busy" /\ call = "ping") => hadPeer)'
<1>1. CASE a = NoAddress
  BY <1>1, DiscoveryAssumption
  DEF ClientInv, NotePeer, Client!BeginConnect, Client!Finish, Client!Take, Client!Lose,
      Client!TypeOK, Client!Addresses, Client!Connects
<1>2. CASE a \in Servers
  BY <1>2, DiscoveryAssumption
  DEF ClientInv, NotePeer, Client!BeginConnect, Client!Finish, Client!Take, Client!Lose,
      Client!TypeOK, Client!Addresses, Client!Connects
<1>3. CASE a = Malformed
  BY <1>3, DiscoveryAssumption
  DEF ClientInv, NotePeer, Client!BeginConnect, Client!Finish, Client!Take, Client!Lose,
      Client!TypeOK, Client!Addresses, Client!Connects
<1> QED
  BY <1>1, <1>2, <1>3 DEF Client!BeginConnect

\* The same of a connect a user or the bridge asks for.
LEMMA ReconnectBegins ==
  ASSUME ClientInv, NotePeer, NEW a \in Servers \cup {NoAddress}, Client!Reconnect(a)
  PROVE  /\ Client!TypeOK'
         /\ hadPeer' \in BOOLEAN
         /\ (phase = "busy" /\ call \in Client!Connects => address \in Servers)'
         /\ (peer # NoAddress \/ (phase = "busy" /\ call = "ping") => hadPeer)'
<1> DEFINE b == IF a = NoAddress THEN address ELSE a
<1>1. b \in Client!Addresses
  BY DEF ClientInv, Client!TypeOK, Client!Addresses
<1>2. Client!BeginConnect(b) /\ call' \in Client!Connects
  BY DEF Client!Reconnect, Client!Connects
<1> QED
  BY <1>1, <1>2, ConnectBegins

\* A reconnect the bridge asks for has an address: it is never answered at once.
LEMMA BridgeReconnectIsTaken ==
  ASSUME NEW a \in Senders, Client!Reconnect(a)
  PROVE  phase' = "busy"
BY DiscoveryAssumption, GcBridgeAssumption
DEF Client!Reconnect, Client!BeginConnect, Client!Take

\* An exchange with the GC is taken up only over a connection, and its end, or
\* the end of the process, makes none.
LEMMA ExchangeKeeps ==
  ASSUME ClientInv, NotePeer,
         \/ \E c \in Client!Requests \cup {"ping"} : Client!BeginExchange(c)
         \/ Client!EndRequest
         \/ Client!EndPing
         \/ Client!Fail
  PROVE  /\ Client!TypeOK'
         /\ hadPeer' \in BOOLEAN
         /\ (phase = "busy" /\ call \in Client!Connects => address \in Servers)'
         /\ (peer # NoAddress \/ (phase = "busy" /\ call = "ping") => hadPeer)'
<1>1. ASSUME NEW c \in Client!Requests \cup {"ping"}, Client!BeginExchange(c)
      PROVE  /\ Client!TypeOK'
             /\ hadPeer' \in BOOLEAN
             /\ (phase = "busy" /\ call \in Client!Connects => address \in Servers)'
             /\ (peer # NoAddress \/ (phase = "busy" /\ call = "ping") => hadPeer)'
  BY <1>1
  DEF ClientInv, NotePeer, Client!BeginExchange, Client!Finish, Client!Take,
      Client!TypeOK, Client!Connects, Client!Requests
<1>2. CASE Client!EndRequest
  BY <1>2
  DEF ClientInv, NotePeer, Client!EndRequest, Client!Finish, Client!TypeOK,
      Client!Connects, Client!Requests
<1>3. CASE Client!EndPing
  BY <1>3
  DEF ClientInv, NotePeer, Client!EndPing, Client!Finish, Client!TypeOK, Client!Connects
<1>4. CASE Client!Fail
  BY <1>4
  DEF ClientInv, NotePeer, Client!Fail, Client!Lose, Client!TypeOK, Client!Connects,
      Client!Requests
<1> QED
  BY <1>1, <1>2, <1>3, <1>4

-----------------------------------------------------------------------------
\* Each part of the client's step keeps the invariant.
LEMMA ClientStepKeeps ==
  ASSUME ClientInv, BridgeInv, QueueInv, ClientStep
  PROVE  ClientInv' /\ BridgeInv' /\ QueueInv'
<1>1. NotePeer /\ hadPeer \in BOOLEAN /\ troubles \in 0 .. MaxTroubles
  BY DEF ClientStep, ClientInv
<1>2. /\ responses \in Seq(TrueResponses')
      /\ statuses \in Seq(TrueStatuses')
  BY <1>1, QueuesStay
<1>3. CASE ClientStarts
  <2>1. /\ InitialAddress \in Client!Addresses
        /\ Client!BeginConnect(InitialAddress)
        /\ call' \in Client!Connects
    BY <1>3, DiscoveryAssumption
    DEF ClientStarts, Client!Start, Client!Addresses, Client!Connects
  <2>2. ClientInv'
    BY <1>1, <1>3, <2>1, ConnectBegins, TroubleStays DEF ClientStarts, ClientInv
  <2>3. BridgeInv'
    BY <1>1, <1>3, BridgeStays DEF ClientStarts
  <2>4. QueueInv'
    BY <1>2, <1>3 DEF ClientStarts, QueueInv, queueVars
  <2> QED
    BY <2>2, <2>3, <2>4
<1>4. CASE ServeReconnect
  <2>1. /\ Head(requests) \in Asked
        /\ Tail(requests) \in Seq(Asked)
        /\ Len(Tail(requests)) <= RequestDepth
    BY <1>4, TakeKeeps, GcBridgeAssumption DEF ServeReconnect, QueueInv
  <2>2. Head(requests).to \in Senders /\ Client!Reconnect(Head(requests).to)
    BY <1>4, <2>1 DEF ServeReconnect, Asked
  <2>3. phase' = "busy"
    BY <2>2, BridgeReconnectIsTaken
  <2>4. UNCHANGED responses /\ serving' \in {"awaited", "abandoned"}
    BY <1>4, <2>3 DEF ServeReconnect
  <2>5. ClientInv'
    BY <1>1, <1>4, <2>2, <2>4, DiscoveryAssumption, ReconnectBegins, TroubleStays
    DEF ServeReconnect, ClientInv
  <2>6. BridgeInv'
    BY <1>1, <1>4, BridgeStays DEF ServeReconnect
  <2>7. QueueInv'
    BY <1>2, <1>4, <2>1, <2>4 DEF ServeReconnect, QueueInv
  <2> QED
    BY <2>5, <2>6, <2>7
<1>5. CASE ReconnectEnds
  <2>1. /\ address \in Servers
        /\ answer' \in Outcome
        /\ answer' = "success" => peer' = address
    BY <1>5 DEF ReconnectEnds, ClientInv, Client!EndConnect, Client!Finish, Outcome
  <2>2. answer' = "success" => hadPeer'
    BY <1>1, <2>1, DiscoveryAssumption DEF NotePeer
  <2>3. ClientInv'
    BY <1>1, <1>5, TroubleStays
    DEF ReconnectEnds, ClientInv, NotePeer, Client!EndConnect, Client!Finish,
        Client!TypeOK, Client!Connects, Unserved
  <2>4. BridgeInv'
    BY <1>1, <1>5, BridgeStays DEF ReconnectEnds
  <2>5. [outcome |-> answer', awaited |-> serving = "awaited"] \in TrueResponses'
    BY <2>1, <2>2 DEF TrueResponses, Response
  <2>6. responses' \in Seq(TrueResponses') /\ Len(responses') <= RequestDepth
    BY <1>2, <1>5, <2>5, PushKeeps, GcBridgeAssumption DEF ReconnectEnds, QueueInv
  <2>7. QueueInv'
    BY <1>2, <1>5, <2>6 DEF ReconnectEnds, QueueInv
  <2> QED
    BY <2>3, <2>4, <2>7
<1>6. CASE PingFires
  <2>1. ClientInv'
    BY <1>1, <1>6, ExchangeKeeps, TroubleStays DEF PingFires, ClientInv
  <2>2. BridgeInv'
    BY <1>1, <1>6, BridgeStays DEF PingFires
  <2>3. FALSE \in TrueStatuses'
    BY DEF TrueStatuses
  <2>4. statuses' \in Seq(TrueStatuses') /\ Len(statuses') <= StatusDepth
    BY <1>2, <1>6, <2>3, PushKeeps, GcBridgeAssumption DEF PingFires, QueueInv
  <2>5. QueueInv'
    BY <1>2, <1>6, <2>4 DEF PingFires, QueueInv
  <2> QED
    BY <2>1, <2>2, <2>5
<1>7. CASE PingEnds
  <2>1. ClientInv'
    BY <1>1, <1>7, ExchangeKeeps, TroubleStays DEF PingEnds, ClientInv
  <2>2. BridgeInv'
    BY <1>1, <1>7, BridgeStays DEF PingEnds
  <2>3. hadPeer'
    BY <1>1, <1>7 DEF PingEnds, Client!EndPing, ClientInv, NotePeer
  <2>4. (answer' = "success") \in TrueStatuses'
    BY <2>3 DEF TrueStatuses
  <2>5. statuses' \in Seq(TrueStatuses') /\ Len(statuses') <= StatusDepth
    BY <1>2, <1>7, <2>4, PushKeeps, GcBridgeAssumption DEF PingEnds, QueueInv
  <2>6. QueueInv'
    BY <1>2, <1>7, <2>5 DEF PingEnds, QueueInv
  <2> QED
    BY <2>1, <2>2, <2>6
<1>8. CASE UserRequest
  <2>1. Client!EndRequest \/ \E c \in Client!Requests \cup {"ping"} : Client!BeginExchange(c)
    BY <1>8 DEF UserRequest, Client!Requests
  <2>2. ClientInv'
    BY <1>1, <1>8, <2>1, ExchangeKeeps, TroubleStays DEF UserRequest, ClientInv
  <2>3. BridgeInv'
    BY <1>1, <1>8, BridgeStays DEF UserRequest
  <2>4. QueueInv'
    BY <1>2, <1>8 DEF UserRequest, QueueInv, queueVars
  <2> QED
    BY <2>2, <2>3, <2>4
<1>9. CASE ClientFails
  <2>1. ClientInv'
    BY <1>1, <1>9, ExchangeKeeps, TroubleStays DEF ClientFails, ClientInv, Unserved
  <2>2. BridgeInv'
    BY <1>1, <1>9, BridgeStays DEF ClientFails
  <2>3. QueueInv'
    BY <1>2, <1>9, GcBridgeAssumption DEF ClientFails, QueueInv
  <2> QED
    BY <2>1, <2>2, <2>3
<1>10. ASSUME NEW a \in Servers \cup {NoAddress}, UserReconnect(a)
       PROVE  ClientInv' /\ BridgeInv' /\ QueueInv'
  <2>1. ClientInv'
    BY <1>1, <1>10, ReconnectBegins, TroubleStays DEF UserReconnect, ClientInv
  <2>2. BridgeInv'
    BY <1>1, <1>10, BridgeStays DEF UserReconnect
  <2>3. QueueInv'
    BY <1>2, <1>10 DEF UserReconnect, QueueInv, queueVars
  <2> QED
    BY <2>1, <2>2, <2>3
<1> QED
  BY <1>3, <1>4, <1>5, <1>6, <1>7, <1>8, <1>9, <1>10 DEF ClientStep

-----------------------------------------------------------------------------
(***************************************************************************)
(* Steps of the bridge.                                                    *)
(***************************************************************************)
\* The client's part is its own.
LEMMA ClientStays ==
  ASSUME ClientInv, UNCHANGED <<clientVars, hadPeer>>,
         serving' \in {"none", "awaited", "abandoned"}, troubles' \in 0 .. MaxTroubles
  PROVE  ClientInv'
BY DEF ClientInv, clientVars, Client!TypeOK, Client!Addresses, Client!Connects

\* What is on its way is true as long as the history does not change.
LEMMA QueuesUnchanged ==
  ASSUME QueueInv, UNCHANGED <<queueVars, hadPeer>>
  PROVE  QueueInv'
BY DEF QueueInv, queueVars, TrueResponses, TrueStatuses

\* Each step of the bridge keeps the invariant.
LEMMA BridgeStepKeeps ==
  ASSUME ClientInv, BridgeInv, QueueInv, BridgeStep
  PROVE  ClientInv' /\ BridgeInv' /\ QueueInv'
<1>1. /\ UNCHANGED <<clientVars, hadPeer>>
      /\ TrueResponses' = TrueResponses
      /\ TrueStatuses' = TrueStatuses
  BY DEF BridgeStep, TrueResponses, TrueStatuses
<1>2. ClientInv'
  <2>1. serving' \in {"none", "awaited", "abandoned"}
    BY DEF BridgeStep, GiveUpServing, ClientInv
  <2>2. troubles' \in 0 .. MaxTroubles
    BY TroubleStays DEF BridgeStep, NoTrouble, ClientInv
  <2> QED
    BY <1>1, <2>1, <2>2, ClientStays
<1>3. ASSUME NEW s \in Senders, CheckFlag(s)
      PROVE  BridgeInv' /\ QueueInv'
  BY <1>1, <1>3, QueuesUnchanged DEF CheckFlag, BridgeInv
<1>4. CASE SendRequest(ServiceIsUp)
  <2>1. BridgeInv'
    BY <1>1, <1>4 DEF SendRequest, BridgeInv
  <2>2. [to |-> sender, awaited |-> TRUE] \in Asked
    BY <1>4 DEF SendRequest, BridgeInv, Asked
  <2>3. requests' \in Seq(Asked) /\ Len(requests') <= RequestDepth
    BY <1>4, <2>2, PushKeeps, GcBridgeAssumption DEF SendRequest, QueueInv
  <2>4. QueueInv'
    BY <1>1, <1>4, <2>3 DEF SendRequest, QueueInv
  <2> QED
    BY <1>2, <2>1, <2>4
<1>5. CASE WaitEnds
  BY <1>1, <1>2, <1>5, QueuesUnchanged DEF WaitEnds, BridgeInv, Outcome
<1>6. CASE StoreSuccess
  BY <1>1, <1>2, <1>6, QueuesUnchanged DEF StoreSuccess, BridgeInv
<1>7. CASE TeamClientConnectionStatusCallback
  <2>1. /\ Head(statuses) \in TrueStatuses
        /\ Tail(statuses) \in Seq(TrueStatuses)
        /\ Len(Tail(statuses)) <= StatusDepth
    BY <1>7, TakeKeeps, GcBridgeAssumption
    DEF TeamClientConnectionStatusCallback, QueueInv
  <2>2. flag' \in BOOLEAN /\ (flag' => hadPeer)
    BY <1>7, <2>1 DEF TeamClientConnectionStatusCallback, TrueStatuses
  <2>3. BridgeInv'
    BY <1>1, <1>7, <2>2 DEF TeamClientConnectionStatusCallback, ioVars, BridgeInv
  <2>4. QueueInv'
    BY <1>1, <1>7, <2>1 DEF TeamClientConnectionStatusCallback, QueueInv
  <2> QED
    BY <1>2, <2>3, <2>4
<1>8. CASE TakeResponse
  <2>1. /\ Head(responses) \in TrueResponses
        /\ Tail(responses) \in Seq(TrueResponses)
        /\ Len(Tail(responses)) <= RequestDepth
    BY <1>8, TakeKeeps, GcBridgeAssumption DEF TakeResponse, QueueInv
  <2>2. reply' \in Outcome \cup {"none"} /\ (reply' = "success" => hadPeer)
    BY <1>8, <2>1 DEF TakeResponse, TrueResponses, Response, BridgeInv
  <2>3. BridgeInv'
    BY <1>1, <1>8, <2>2 DEF TakeResponse, ioVars, BridgeInv
  <2>4. QueueInv'
    BY <1>1, <1>8, <2>1 DEF TakeResponse, QueueInv
  <2> QED
    BY <1>2, <2>3, <2>4
<1>9. CASE RetryTimePasses
  BY <1>1, <1>2, <1>9, QueuesUnchanged DEF RetryTimePasses, BridgeInv
<1>10. CASE WaitTimesOut
  <2>1. BridgeInv'
    BY <1>1, <1>10 DEF WaitTimesOut, BridgeInv
  <2>2. /\ requests' \in Seq(Asked) /\ Len(requests') = Len(requests)
        /\ responses' \in Seq(TrueResponses) /\ Len(responses') = Len(responses)
    BY <1>10, AbandonKeepsRequests, AbandonKeepsResponses DEF WaitTimesOut, QueueInv
  <2>3. QueueInv'
    BY <1>1, <1>10, <2>2 DEF WaitTimesOut, QueueInv
  <2> QED
    BY <1>2, <2>1, <2>3
<1>11. CASE Respawn
  <2>1. BridgeInv'
    BY <1>1, <1>11 DEF Respawn, BridgeInv
  <2>2. requests' \in Seq(Asked) /\ Len(requests') = Len(requests)
    BY <1>11, AbandonKeepsRequests DEF Respawn, QueueInv
  <2>3. QueueInv'
    BY <1>1, <1>11, <2>2, GcBridgeAssumption DEF Respawn, QueueInv
  <2> QED
    BY <1>2, <2>1, <2>3
<1> QED
  BY <1>2, <1>3, <1>4, <1>5, <1>6, <1>7, <1>8, <1>9, <1>10, <1>11
  DEF BridgeStep, Packet, IoStep, ExecutorStep

\* The invariant is inductive.
LEMMA InvNext == IInv /\ [Next]_vars => IInv'
<1> SUFFICES ASSUME ClientInv, BridgeInv, QueueInv, [Next]_vars
             PROVE  ClientInv' /\ BridgeInv' /\ QueueInv'
  <2>1. IInv' <=> ClientInv' /\ BridgeInv' /\ QueueInv'
    BY Parts, PTL
  <2> QED
    BY <2>1, Parts
<1>1. CASE UNCHANGED vars
  <2>1. ClientInv'
    BY <1>1, ClientStays DEF vars, ClientInv
  <2>2. BridgeInv'
    BY <1>1 DEF vars, bridgeVars, BridgeInv
  <2>3. QueueInv'
    BY <1>1, QueuesUnchanged DEF vars
  <2> QED
    BY <2>1, <2>2, <2>3
<1> QED
  BY <1>1, ClientStepKeeps, BridgeStepKeeps DEF Next

LEMMA Invariance == Spec => []IInv
BY InvInit, InvNext, PTL DEF Spec

-----------------------------------------------------------------------------
(***************************************************************************)
(* Theorems.                                                               *)
(***************************************************************************)
\* Every variable keeps its type, and the queues between the nodes their depth.
THEOREM TypeCorrect == Spec => []TypeOK
<1>1. IInv => TypeOK
  BY DEF IInv
<1> QED
  BY Invariance, <1>1, PTL

\* The bridge believes in a connection only if the client has had one, however
\* its two threads, the queues, time-outs, crashes and respawns interleave.
THEOREM DiscoveryIsTrue == Spec => []NoFalseDiscovery
<1>1. IInv => NoFalseDiscovery
  BY DEF IInv
<1> QED
  BY Invariance, <1>1, PTL
=============================================================================
