-------------------------- MODULE TeamClientProofs --------------------------
(***************************************************************************)
(* Proofs about TeamClient, for every set of servers and every bound.      *)
(***************************************************************************)
EXTENDS TeamClient, TLAPS

-----------------------------------------------------------------------------
(***************************************************************************)
(* The reply stream.                                                       *)
(***************************************************************************)
\* A stream nobody has written to is well formed.
LEMMA EmptyIsChannel == IsChannel(EmptyChan)
BY DEF IsChannel, EmptyChan

\* SendRequest's write leaves the stream well formed and one more reply owed.
LEMMA SentIsChannel ==
  ASSUME NEW ch, IsChannel(ch)
  PROVE  /\ IsChannel(Sent(ch))
         /\ Sent(ch).owed = ch.owed + 1
         /\ Sent(ch).offset = ch.offset
         /\ Sent(ch).replies = ch.replies
BY DEF IsChannel, Sent

\* Halves make whole replies, with at most one left over.
LEMMA Halves ==
  ASSUME NEW x \in Nat
  PROVE  /\ x \div 2 \in Nat
         /\ x % 2 \in {0, 1}
         /\ x = (2 * (x \div 2)) + (x % 2)
OBVIOUS

\* The halves left in the stream by a read are halves of the replies left.
LEMMA HalvesLeft ==
  ASSUME NEW inbox \in Nat, NEW offset \in Nat, NEW len \in Nat, NEW n \in Nat,
         NEW gone \in Nat, NEW rest \in Nat,
         offset + inbox <= 2 * len, n + offset = (2 * gone) + rest
  PROVE  rest + (inbox - n) <= 2 * (len - gone)
OBVIOUS

\* At most one reply written and at least two halves of it read: it is the one.
LEMMA OneWholeReply ==
  ASSUME NEW inbox \in Nat, NEW len \in Nat, NEW n \in Nat,
         len <= 1, inbox <= 2 * len, n <= inbox, n >= 2
  PROVE  inbox = 2 /\ len = 1
OBVIOUS

\* boost::asio::read moves no more than there is, and all there is if it fits.
LEMMA ReadSizeBounds ==
  ASSUME NEW ch, ch.inbox \in Nat
  PROVE  /\ ReadSize(ch) \in Nat
         /\ ReadSize(ch) <= ch.inbox
         /\ ch.inbox = 2 => ReadSize(ch) = 2
BY BoundAssumption DEF ReadSize

\* Replies taken off the front are no longer owed.
LEMMA LeftOver ==
  ASSUME NEW owed \in Nat, NEW len \in Nat, NEW gone \in Nat, len <= owed, gone <= len
  PROVE  owed - gone \in Nat /\ len - gone <= owed - gone
OBVIOUS

\* boost::asio::read leaves the stream well formed: it takes whole replies off
\* its front and remembers the half of one it may end in.
LEMMA ConsumedIsChannel ==
  ASSUME NEW ch, IsChannel(ch)
  PROVE  IsChannel(Consumed(ch))
<1> DEFINE n    == ReadSize(ch)
           x    == n + ch.offset
           gone == x \div 2
           rest == x % 2
           left == SubSeq(ch.replies, gone + 1, Len(ch.replies))
<1>1. /\ ch.owed \in Nat /\ ch.inbox \in Nat /\ ch.offset \in {0, 1}
      /\ ch.replies \in Seq(Reply) /\ Len(ch.replies) \in Nat
      /\ Len(ch.replies) <= ch.owed
      /\ ch.offset + ch.inbox <= 2 * Len(ch.replies)
  BY DEF IsChannel
<1>2. n \in Nat /\ n <= ch.inbox
  BY <1>1, ReadSizeBounds
<1> HIDE DEF n
<1>3. x \in Nat
  BY <1>1, <1>2
<1>4. gone \in Nat /\ rest \in {0, 1} /\ x = (2 * gone) + rest
  BY <1>3, Halves
<1>5. x <= 2 * Len(ch.replies)
  BY <1>1, <1>2
<1>6. Consumed(ch) = [owed |-> ch.owed - gone, replies |-> left,
                      inbox |-> ch.inbox - n, offset |-> rest]
  BY DEF Consumed, n
<1> HIDE DEF x, gone, rest
<1>7. gone <= Len(ch.replies)
  BY <1>1, <1>4, <1>5
<1>8. left \in Seq(Reply) /\ Len(left) = Len(ch.replies) - gone
  BY <1>1, <1>4, <1>7
<1> HIDE DEF left
<1>9. rest + (ch.inbox - n) <= 2 * Len(left)
  <2>1. n + ch.offset = (2 * gone) + rest
    BY <1>4 DEF x
  <2>2. ch.offset \in Nat /\ rest \in Nat
    BY <1>1, <1>4
  <2>3. rest + (ch.inbox - n) <= 2 * (Len(ch.replies) - gone)
    BY <2>1, <2>2, <1>1, <1>2, <1>4, HalvesLeft
  <2> QED
    BY <2>3, <1>8
<1>10. ch.owed - gone \in Nat /\ Len(left) <= ch.owed - gone
  BY <1>1, <1>4, <1>7, <1>8, LeftOver
<1>11. ch.inbox - n \in Nat
  BY <1>1, <1>2
<1> QED
  BY <1>4, <1>6, <1>8, <1>9, <1>10, <1>11 DEF IsChannel

\* A read that gives a reply, on a stream that was in step, gives the reply to
\* the last request and leaves nothing behind.
LEMMA ReadInStep ==
  ASSUME NEW ch, IsChannel(ch), ch.offset = 0, ch.owed = 1,
         NEW r \in Parses(ch), r # "none"
  PROVE  /\ r = LastVerdict(ch)
         /\ Consumed(ch).owed = 0
         /\ Consumed(ch).offset = 0
<1>1. /\ ch.inbox \in Nat /\ ch.inbox <= 2 * Len(ch.replies)
      /\ Len(ch.replies) \in Nat /\ Len(ch.replies) <= 1
  BY DEF IsChannel
<1>2. ReadSize(ch) >= 2 /\ r = ch.replies[1]
  BY DEF Parses
<1>3. ch.inbox = 2 /\ Len(ch.replies) = 1
  <2>1. ReadSize(ch) \in Nat /\ ReadSize(ch) <= ch.inbox
    BY <1>1, ReadSizeBounds
  <2> QED
    BY <1>1, <1>2, <2>1, OneWholeReply
<1>4. Consumed(ch).owed = ch.owed - (2 \div 2) /\ Consumed(ch).offset = 2 % 2
  BY <1>3, <1>1, ReadSizeBounds DEF Consumed
<1> QED
  BY <1>2, <1>3, <1>4 DEF LastVerdict

\* What a wait hands on when it ends: a stream that is well formed and, if it
\* was in step and gave a reply, that reply was to the last request.
LEMMA LastVerdictType ==
  ASSUME NEW ch, IsChannel(ch)
  PROVE  LastVerdict(ch) \in Reply \cup {"none"}
BY DEF LastVerdict, IsChannel

LEMMA ParsesType ==
  ASSUME NEW ch, IsChannel(ch), NEW r \in Parses(ch), ch.inbox > 0
  PROVE  r \in Reply \cup {"none"}
<1>1. CASE ch.offset = 1
  BY <1>1 DEF Parses
<1>2. CASE ch.offset # 1 /\ ReadSize(ch) >= 2
  <2>1. Len(ch.replies) \in Nat /\ Len(ch.replies) >= 1
    BY DEF IsChannel
  <2>2. r = ch.replies[1]
    BY <1>2 DEF Parses
  <2> QED
    BY <2>1, <2>2 DEF IsChannel
<1>3. CASE ch.offset # 1 /\ ~(ReadSize(ch) >= 2)
  BY <1>3 DEF Parses
<1> QED
  BY <1>1, <1>2, <1>3

-----------------------------------------------------------------------------
(***************************************************************************)
(* The inductive invariant IInv: one lemma per way a step may end.         *)
(***************************************************************************)
\* The process starts from nothing.
LEMMA InitInv == Init => IInv
<1> SUFFICES ASSUME Init PROVE IInv
  OBVIOUS
<1>1. TypeOK
  <2>1. IsChannel(chan)
    BY EmptyIsChannel DEF Init
  <2>2. polls \in 0 .. MaxPolls
    BY BoundAssumption DEF Init
  <2> QED
    BY <2>1, <2>2, AddressAssumption DEF Init, TypeOK, Calls, Connects
<1>2. StepAgreesWithSocket /\ InStepUnlessLapsed
  BY DEF Init, StepAgreesWithSocket, InStepUnlessLapsed, Alive, Waiting
<1>3. TruthfulUnlessLapsed /\ ConnectTruthful
  BY DEF Init, TruthfulUnlessLapsed, ConnectTruthful
<1> QED
  BY <1>1, <1>2, <1>3 DEF IInv

\* Where nothing is connected and nothing answered, little can be wrong: the
\* process that dies, the thread that enters connect().
LEMMA ClosedInv ==
  ASSUME step' \in {"down", "connecting"}, polls' = 0, connected' = FALSE,
         answer' = "none", verdict' = "none", lapsed' \in BOOLEAN, Close,
         call' \in Calls, address' \in Addresses,
         step' = "connecting" => call' \in Connects /\ address' \in Servers
  PROVE  IInv'
<1>1. TypeOK'
  <2>1. IsChannel(chan')
    BY EmptyIsChannel DEF Close
  <2>2. polls' \in 0 .. MaxPolls
    BY BoundAssumption
  <2> QED
    BY <2>1, <2>2 DEF TypeOK, Close
<1>2. StepAgreesWithSocket' /\ InStepUnlessLapsed'
  BY DEF StepAgreesWithSocket, InStepUnlessLapsed, Alive, Waiting, Close
<1>3. TruthfulUnlessLapsed' /\ ConnectTruthful'
  BY DEF TruthfulUnlessLapsed, ConnectTruthful
<1> QED
  BY <1>1, <1>2, <1>3 DEF IInv

\* A handler that returns at once, without touching the connection.
LEMMA ReturnedAtOnceInv ==
  ASSUME IInv, step = "spinning", step' = "spinning", polls' = 0,
         UNCHANGED sockVars,
         call' \in Calls, address' \in Addresses,
         answer' \in {"none", "success", "failure"}, verdict' = "none",
         answer' = "success" => call' \in Connects /\ address' = NoAddress
  PROVE  IInv'
<1>1. TypeOK'
  BY BoundAssumption DEF IInv, TypeOK, sockVars, IsChannel
<1>2. StepAgreesWithSocket' /\ InStepUnlessLapsed'
  BY DEF IInv, StepAgreesWithSocket, InStepUnlessLapsed, Alive, Waiting, sockVars
<1>3. TruthfulUnlessLapsed' /\ ConnectTruthful'
  BY DEF TruthfulUnlessLapsed, ConnectTruthful, Connects, Requests
<1> QED
  BY <1>1, <1>2, <1>3 DEF IInv

\* TeamClientNode::Connect, from the constructor or from the service.
LEMMA ConnectInv ==
  ASSUME IInv, NEW a \in Addresses, Connect(a), call' \in Connects,
         step \in {"down", "spinning"}
  PROVE  IInv'
<1>1. call' \in Calls /\ address' = a /\ address' \in Addresses
  BY DEF Connect, Calls
<1>2. CASE a = NoAddress /\ Return(TRUE, "none") /\ UNCHANGED sockVars
  <2>1. CASE step = "spinning"
    BY <1>1, <1>2, <2>1, ReturnedAtOnceInv DEF Return
  <2>2. CASE step = "down"
    <3>1. TypeOK'
      BY <1>1, <1>2, BoundAssumption DEF IInv, TypeOK, sockVars, IsChannel, Return
    <3>2. StepAgreesWithSocket' /\ InStepUnlessLapsed'
      BY <1>2, <2>2
      DEF IInv, StepAgreesWithSocket, InStepUnlessLapsed, Alive, Waiting, sockVars, Return
    <3>3. TruthfulUnlessLapsed' /\ ConnectTruthful'
      BY <1>1, <1>2 DEF TruthfulUnlessLapsed, ConnectTruthful, Connects, Requests, Return
    <3> QED
      BY <3>1, <3>2, <3>3 DEF IInv
  <2> QED
    BY <2>1, <2>2
<1>3. CASE a = Malformed /\ Die
  BY <1>1, <1>3, ClosedInv DEF Die
<1>4. CASE a \in Servers /\ BeginConnect
  <2>1. lapsed' \in BOOLEAN
    BY <1>4 DEF BeginConnect, IInv, TypeOK
  <2> QED
    BY <1>1, <1>4, <2>1, ClosedInv DEF BeginConnect
<1> QED
  BY <1>2, <1>3, <1>4 DEF Connect

\* A handler writes its request and waits.
LEMMA SendRequestInv ==
  ASSUME IInv, NEW c \in Requests \cup {"ping"}, SendRequest(c)
  PROVE  IInv'
<1>1. call' \in Calls /\ call' = c /\ address' = address /\ address' \in Addresses
  BY DEF SendRequest, Calls, IInv, TypeOK
<1>2. CASE ~connected /\ Return(FALSE, "none") /\ UNCHANGED sockVars
  BY <1>1, <1>2, ReturnedAtOnceInv DEF Return, SendRequest
<1>3. CASE /\ connected /\ Writable
           /\ Await("request", chan)
           /\ UNCHANGED <<connected, link, server, lapsed>>
  <2>1. IsChannel(chan) /\ chan.owed \in Nat
    BY DEF IInv, TypeOK, IsChannel
  <2>2. /\ IsChannel(chan') /\ chan'.owed = chan.owed + 1 /\ chan'.offset = chan.offset
    BY <1>3, <2>1, SentIsChannel DEF Await
  <2>3. TypeOK'
    BY <1>1, <1>3, <2>2, BoundAssumption DEF IInv, TypeOK, Await, Waiting
  <2>4. StepAgreesWithSocket'
    BY <1>1, <1>3, <2>1, <2>2
    DEF IInv, StepAgreesWithSocket, Await, Alive, Writable, Waiting
  <2>5. InStepUnlessLapsed'
    BY <1>3, <2>2 DEF IInv, InStepUnlessLapsed, Await, Alive, Writable, Waiting, SendRequest
  <2>6. TruthfulUnlessLapsed' /\ ConnectTruthful'
    BY <1>3 DEF TruthfulUnlessLapsed, ConnectTruthful, Await
  <2> QED
    BY <2>3, <2>4, <2>5, <2>6 DEF IInv
<1>4. CASE connected /\ ~Writable /\ Die
  BY <1>1, <1>4, ClosedInv DEF Die
<1> QED
  BY <1>2, <1>3, <1>4 DEF SendRequest

\* socket_.connect ends, one way or the other.
LEMMA SocketOutcomeInv ==
  ASSUME IInv, SocketOutcome
  PROVE  IInv'
<1>1. CASE SocketConnected
  <2>1. /\ chan' = Sent(EmptyChan) /\ IsChannel(chan')
        /\ chan'.owed = 1 /\ chan'.offset = 0
    BY <1>1, EmptyIsChannel, SentIsChannel DEF SocketConnected, Await, EmptyChan
  <2>2. TypeOK'
    <3>1. polls' \in 0 .. MaxPolls /\ step' \in Waiting
      BY <1>1, BoundAssumption DEF SocketConnected, Await, Waiting
    <3>2. server' \in Servers
      BY <1>1 DEF IInv, StepAgreesWithSocket, SocketConnected
    <3> QED
      BY <1>1, <2>1, <3>1, <3>2 DEF IInv, TypeOK, SocketConnected, Await
  <2>3. StepAgreesWithSocket'
    BY <1>1, <2>1
    DEF IInv, StepAgreesWithSocket, SocketConnected, Await, Alive, Waiting
  <2>4. InStepUnlessLapsed'
    BY <1>1, <2>1 DEF InStepUnlessLapsed, SocketConnected, Await, Waiting
  <2>5. TruthfulUnlessLapsed' /\ ConnectTruthful'
    BY <1>1 DEF TruthfulUnlessLapsed, ConnectTruthful, SocketConnected, Await
  <2> QED
    BY <2>2, <2>3, <2>4, <2>5 DEF IInv
<1>2. CASE SocketRefused
  <2>1. TypeOK'
    <3>1. polls' \in 0 .. MaxPolls
      BY <1>2, BoundAssumption DEF SocketRefused, Return
    <3>2. IsChannel(chan')
      BY <1>2 DEF IInv, TypeOK, SocketRefused
    <3>3. answer' = "failure" /\ verdict' = "none" /\ step' = "spinning"
      BY <1>2 DEF SocketRefused, Return
    <3> QED
      BY <1>2, <3>1, <3>2, <3>3 DEF IInv, TypeOK, SocketRefused
  <2>2. StepAgreesWithSocket' /\ InStepUnlessLapsed'
    BY <1>2
    DEF IInv, StepAgreesWithSocket, InStepUnlessLapsed, SocketRefused, Return,
        Alive, Waiting
  <2>3. TruthfulUnlessLapsed' /\ ConnectTruthful'
    BY <1>2
    DEF IInv, StepAgreesWithSocket, TruthfulUnlessLapsed, ConnectTruthful,
        SocketRefused, Return, Connects, Requests
  <2> QED
    BY <2>1, <2>2, <2>3 DEF IInv
<1> QED
  BY <1>1, <1>2 DEF SocketOutcome

-----------------------------------------------------------------------------
(***************************************************************************)
(* The end of a wait.                                                      *)
(***************************************************************************)
\* What WaitForReply hands on: a reply r (or none) and a stream ch.  On a
\* connection that was in step, r is the GC's reply to the last request and ch
\* has nothing left in it.
WaitEnds(r, ch) ==
  /\ r \in Reply \cup {"none"}
  /\ IsChannel(ch)
  /\ ~lapsed /\ r # "none" =>
       r = LastVerdict(chan) /\ ch.owed = 0 /\ ch.offset = 0

\* Every way out of WaitForReply hands on such a reply and such a stream.
LEMMA WaitStepEnds ==
  ASSUME IInv, Timeout \/ TcpError \/ Read
  PROVE  \E r, ch : WaitEnds(r, ch) /\ Resume(r, ch)
<1>1. IsChannel(chan)
  BY DEF IInv, TypeOK
<1>2. CASE Timeout \/ TcpError
  <2>1. WaitEnds("none", chan)
    BY <1>1 DEF WaitEnds
  <2>2. Resume("none", chan)
    BY <1>2 DEF Timeout, TcpError
  <2> QED
    BY <2>1, <2>2
<1>3. CASE Read
  <2>1. PICK r \in Parses(chan) : Resume(r, Consumed(chan))
    BY <1>3 DEF Read
  <2>2. r \in Reply \cup {"none"}
    BY <1>1, <1>3, ParsesType DEF Read
  <2>3. IsChannel(Consumed(chan))
    BY <1>1, ConsumedIsChannel
  <2>4. step \in Waiting
    BY <2>1 DEF Resume, HelloReply, RegisterReply, ServiceReply, PingReply, Waiting
  <2>5. ASSUME ~lapsed, r # "none"
        PROVE  /\ r = LastVerdict(chan)
               /\ Consumed(chan).owed = 0
               /\ Consumed(chan).offset = 0
    <3>1. chan.offset = 0 /\ chan.owed = 1
      BY <2>4, <2>5 DEF IInv, StepAgreesWithSocket, InStepUnlessLapsed
    <3> QED
      BY <1>1, <2>5, <3>1, ReadInStep
  <2>6. WaitEnds(r, Consumed(chan))
    BY <2>2, <2>3, <2>5 DEF WaitEnds
  <2> QED
    BY <2>1, <2>6
<1> QED
  BY <1>2, <1>3

\* What the caller of WaitForReply makes of it.
LEMMA ResumeInv ==
  ASSUME IInv, NEW r, NEW ch, WaitEnds(r, ch), Resume(r, ch)
  PROVE  IInv'
<1> DEFINE v == LastVerdict(chan)
<1>1. v \in Reply \cup {"none"} /\ lapsed \in BOOLEAN
  BY LastVerdictType DEF IInv, TypeOK
<1> HIDE DEF v
<1>2. /\ r \in Reply \cup {"none"} /\ IsChannel(ch)
      /\ ~lapsed /\ r # "none" => r = v /\ ch.owed = 0 /\ ch.offset = 0
  BY DEF WaitEnds, v
<1>3. /\ call' = call /\ call \in Calls
      /\ address' = address /\ address \in Addresses
  BY DEF Resume, IInv, TypeOK
<1>4. CASE HelloReply(r, ch)
  <2>1. /\ step = "hello" /\ Alive /\ ~connected /\ ~lapsed
        /\ call \in Connects /\ address \in Servers /\ server = address
    BY <1>4 DEF HelloReply, IInv, StepAgreesWithSocket, Waiting
  <2>2. CASE /\ Welcome(r) /\ Writable /\ Await("register", ch) /\ lapsed' = lapsed
             /\ UNCHANGED <<connected, link, server>>
    <3>1. IsChannel(chan') /\ chan'.owed = 1 /\ chan'.offset = 0
      BY <1>2, <2>1, <2>2, SentIsChannel DEF Await, Welcome
    <3>2. TypeOK'
      <4>1. polls' \in 0 .. MaxPolls
        BY <2>2, BoundAssumption DEF Await
      <4> QED
        BY <1>3, <2>2, <3>1, <4>1 DEF IInv, TypeOK, Await, Waiting
    <3>3. StepAgreesWithSocket'
      BY <1>3, <2>1, <2>2, <3>1 DEF StepAgreesWithSocket, Await, Waiting, Alive
    <3>4. InStepUnlessLapsed'
      BY <2>2, <3>1 DEF InStepUnlessLapsed, Await, Waiting
    <3>5. TruthfulUnlessLapsed' /\ ConnectTruthful'
      BY <2>2 DEF TruthfulUnlessLapsed, ConnectTruthful, Await
    <3> QED
      BY <3>2, <3>3, <3>4, <3>5 DEF IInv
  <2>3. CASE Welcome(r) /\ ~Writable /\ Die
    BY <1>3, <2>3, ClosedInv DEF Die
  <2>4. CASE r = "rejected" /\ Return(FALSE, v) /\ UNCHANGED <<connected, lapsed>> /\ Close
    <3>1. IsChannel(chan') /\ polls' \in 0 .. MaxPolls
      BY <2>4, EmptyIsChannel, BoundAssumption DEF Close, Return
    <3>2. TypeOK'
      BY <1>1, <1>3, <2>4, <3>1 DEF IInv, TypeOK, Close, Return
    <3>3. StepAgreesWithSocket' /\ InStepUnlessLapsed'
      BY <2>1, <2>4
      DEF StepAgreesWithSocket, InStepUnlessLapsed, Return, Close, Waiting, Alive
    <3>4. TruthfulUnlessLapsed' /\ ConnectTruthful'
      BY <1>3, <2>1, <2>4
      DEF TruthfulUnlessLapsed, ConnectTruthful, Return, Connects, Requests
    <3> QED
      BY <3>2, <3>3, <3>4 DEF IInv
  <2>5. CASE /\ r \in {"empty", "none"} /\ Return(FALSE, v)
             /\ lapsed' = (lapsed \/ r = "none") /\ chan' = ch
             /\ UNCHANGED <<connected, link, server>>
    <3>1. IsChannel(chan') /\ polls' \in 0 .. MaxPolls /\ lapsed' \in BOOLEAN
      BY <1>1, <1>2, <2>5, BoundAssumption DEF Return
    <3>2. TypeOK'
      BY <1>1, <1>3, <2>5, <3>1 DEF IInv, TypeOK, Return
    <3>3. StepAgreesWithSocket' /\ InStepUnlessLapsed'
      BY <1>2, <2>1, <2>5
      DEF StepAgreesWithSocket, InStepUnlessLapsed, Return, Waiting
    <3>4. TruthfulUnlessLapsed' /\ ConnectTruthful'
      BY <1>3, <2>1, <2>5
      DEF TruthfulUnlessLapsed, ConnectTruthful, Return, Connects, Requests
    <3> QED
      BY <3>2, <3>3, <3>4 DEF IInv
  <2> QED
    BY <1>4, <2>2, <2>3, <2>4, <2>5 DEF HelloReply, v
<1>5. CASE RegisterReply(r, ch)
  <2>1. /\ step = "register" /\ Alive /\ ~connected /\ ~lapsed
        /\ call \in Connects /\ address \in Servers /\ server = address
    BY <1>5 DEF RegisterReply, IInv, StepAgreesWithSocket, Waiting
  <2>2. /\ step' = "spinning" /\ polls' \in 0 .. MaxPolls /\ verdict' = v
        /\ answer' = IF Welcome(r) THEN "success" ELSE "failure"
        /\ lapsed' = (r = "none") /\ lapsed' \in BOOLEAN
    BY <1>1, <1>5, <2>1, BoundAssumption DEF RegisterReply, Return, v
  <2>3. CASE Welcome(r) /\ connected' = TRUE /\ chan' = ch /\ UNCHANGED <<link, server>>
    <3>1. TypeOK'
      BY <1>1, <1>2, <1>3, <2>1, <2>2, <2>3 DEF IInv, TypeOK
    <3>2. StepAgreesWithSocket'
      BY <2>1, <2>2, <2>3 DEF StepAgreesWithSocket, Waiting, Alive
    <3>3. InStepUnlessLapsed'
      BY <1>2, <2>1, <2>2, <2>3 DEF InStepUnlessLapsed, Waiting
    <3>4. TruthfulUnlessLapsed' /\ ConnectTruthful'
      BY <1>2, <1>3, <2>1, <2>2, <2>3
      DEF TruthfulUnlessLapsed, ConnectTruthful, Connects, Requests, Welcome
    <3> QED
      BY <3>1, <3>2, <3>3, <3>4 DEF IInv
  <2>4. CASE ~Welcome(r) /\ UNCHANGED connected /\ Close
    <3>1. IsChannel(chan')
      BY <2>4, EmptyIsChannel DEF Close
    <3>2. TypeOK'
      BY <1>1, <1>3, <2>1, <2>2, <2>4, <3>1 DEF IInv, TypeOK, Close
    <3>3. StepAgreesWithSocket' /\ InStepUnlessLapsed'
      BY <2>1, <2>2, <2>4
      DEF StepAgreesWithSocket, InStepUnlessLapsed, Close, Waiting, Alive
    <3>4. TruthfulUnlessLapsed' /\ ConnectTruthful'
      BY <1>3, <2>1, <2>2, <2>4
      DEF TruthfulUnlessLapsed, ConnectTruthful, Connects, Requests
    <3> QED
      BY <3>2, <3>3, <3>4 DEF IInv
  <2> QED
    BY <1>5, <2>3, <2>4 DEF RegisterReply
<1>6. CASE ServiceReply(r, ch) \/ PingReply(r, ch)
  <2>1. /\ step = "request" /\ connected /\ Alive /\ server \in Servers
        /\ call \in Requests \cup {"ping"}
    BY <1>6 DEF ServiceReply, PingReply, IInv, StepAgreesWithSocket
  <2>2. /\ step' = "spinning" /\ polls' \in 0 .. MaxPolls /\ verdict' = v
        /\ answer' = IF Accepted(r) THEN "success" ELSE "failure"
        /\ lapsed' = (lapsed \/ r = "none") /\ lapsed' \in BOOLEAN
    <3>1. Return(Accepted(r), v) /\ lapsed' = (lapsed \/ r = "none")
      BY <1>6 DEF ServiceReply, PingReply, v
    <3>2. lapsed' \in BOOLEAN
      BY <1>1, <3>1
    <3> QED
      BY <3>1, <3>2, BoundAssumption DEF Return
  <2>3. TruthfulUnlessLapsed' /\ ConnectTruthful'
    BY <1>2, <1>3, <2>1, <2>2
    DEF TruthfulUnlessLapsed, ConnectTruthful, Accepted, Connects, Requests
  <2>4. CASE chan' = ch /\ UNCHANGED <<connected, link, server>>
    <3>1. TypeOK'
      BY <1>1, <1>2, <1>3, <2>2, <2>4 DEF IInv, TypeOK
    <3>2. StepAgreesWithSocket'
      BY <2>1, <2>2, <2>4 DEF StepAgreesWithSocket, Waiting, Alive
    <3>3. InStepUnlessLapsed'
      BY <1>2, <2>2, <2>4 DEF InStepUnlessLapsed, Waiting
    <3> QED
      BY <2>3, <3>1, <3>2, <3>3 DEF IInv
  <2>5. CASE Disconnect
    <3>1. IsChannel(chan')
      BY <2>5, EmptyIsChannel DEF Disconnect, Close
    <3>2. TypeOK'
      BY <1>1, <1>3, <2>2, <2>5, <3>1 DEF IInv, TypeOK, Disconnect, Close
    <3>3. StepAgreesWithSocket' /\ InStepUnlessLapsed'
      BY <2>2, <2>5
      DEF StepAgreesWithSocket, InStepUnlessLapsed, Disconnect, Close, Waiting, Alive
    <3> QED
      BY <2>3, <3>2, <3>3 DEF IInv
  <2> QED
    BY <1>6, <2>4, <2>5 DEF ServiceReply, PingReply
<1> QED
  BY <1>4, <1>5, <1>6 DEF Resume

-----------------------------------------------------------------------------
(***************************************************************************)
(* The other steps.                                                        *)
(***************************************************************************)
\* Sleeping in WaitForReply changes nothing that matters.
LEMMA PollEmptyInv ==
  ASSUME IInv, PollEmpty
  PROVE  IInv'
<1>1. polls' \in 0 .. MaxPolls
  BY BoundAssumption DEF PollEmpty, IInv, TypeOK
<1>2. TypeOK'
  BY <1>1 DEF PollEmpty, IInv, TypeOK, sockVars, respVars, IsChannel
<1>3. StepAgreesWithSocket' /\ InStepUnlessLapsed'
  BY DEF PollEmpty, IInv, StepAgreesWithSocket, InStepUnlessLapsed, sockVars,
         respVars, Alive
<1>4. TruthfulUnlessLapsed' /\ ConnectTruthful'
  BY DEF PollEmpty, IInv, TruthfulUnlessLapsed, ConnectTruthful, sockVars, respVars
<1> QED
  BY <1>2, <1>3, <1>4 DEF IInv

\* Nor does setting the parameter between two handlers.
LEMMA SetAddressInv ==
  ASSUME IInv, NEW a \in Addresses, SetAddressParameter(a)
  PROVE  IInv'
<1>1. TypeOK'
  BY DEF SetAddressParameter, IInv, TypeOK, sockVars, IsChannel
<1>2. StepAgreesWithSocket' /\ InStepUnlessLapsed'
  BY DEF SetAddressParameter, IInv, StepAgreesWithSocket, InStepUnlessLapsed,
         sockVars, Alive, Waiting
<1>3. TruthfulUnlessLapsed' /\ ConnectTruthful'
  BY DEF SetAddressParameter, TruthfulUnlessLapsed, ConnectTruthful
<1> QED
  BY <1>1, <1>2, <1>3 DEF IInv

\* One more reply written, of those still owed.
LEMMA OneMoreReply ==
  ASSUME NEW len \in Nat, NEW owed \in Nat, NEW offset \in Nat, NEW inbox \in Nat,
         len < owed, offset + inbox <= 2 * len
  PROVE  len + 1 <= owed /\ offset + inbox <= 2 * (len + 1)
OBVIOUS

\* The GC and the network write to the stream and break the link; they take
\* nothing out of the stream.
LEMMA EnvironmentInv ==
  ASSUME IInv, Environment
  PROVE  IInv'
<1>1. /\ UNCHANGED <<step, call, polls, address, answer, verdict>>
      /\ UNCHANGED <<connected, server, lapsed>>
  BY DEF Environment, GcAnswer, Deliver, PeerClose, PeerReset, procVars, respVars
<1>2. link' \in {"up", "fin", "rst"} /\ Alive
  BY DEF Environment, GcAnswer, Deliver, PeerClose, PeerReset, Alive
<1>3. IsChannel(chan') /\ chan'.owed = chan.owed /\ chan'.offset = chan.offset
  <2>1. IsChannel(chan)
    BY DEF IInv, TypeOK
  <2>2. CASE GcAnswer
    <3>1. PICK r \in Reply : chan' = [chan EXCEPT !.replies = Append(@, r)]
      BY <2>2 DEF GcAnswer
    <3>2. Len(chan.replies) < chan.owed
      BY <2>2 DEF GcAnswer
    <3>3. /\ Append(chan.replies, r) \in Seq(Reply)
          /\ Len(Append(chan.replies, r)) = Len(chan.replies) + 1
          /\ Len(chan.replies) \in Nat
      BY <2>1 DEF IsChannel
    <3>4. /\ Len(chan.replies) + 1 <= chan.owed
          /\ chan.offset + chan.inbox <= 2 * (Len(chan.replies) + 1)
      BY <2>1, <3>2, <3>3, OneMoreReply DEF IsChannel
    <3> QED
      BY <2>1, <3>1, <3>3, <3>4 DEF IsChannel
  <2>3. CASE Deliver
    <3>1. PICK n \in 1 .. InFlight(chan) : chan' = [chan EXCEPT !.inbox = @ + n]
      BY <2>3 DEF Deliver
    <3> QED
      BY <2>1, <3>1 DEF IsChannel, InFlight
  <2>4. CASE PeerClose \/ PeerReset
    BY <2>1, <2>4 DEF PeerClose, PeerReset
  <2> QED
    BY <2>2, <2>3, <2>4 DEF Environment
<1>4. TypeOK'
  BY <1>1, <1>2, <1>3 DEF IInv, TypeOK
<1>5. StepAgreesWithSocket' /\ InStepUnlessLapsed'
  BY <1>1, <1>2, <1>3 DEF IInv, StepAgreesWithSocket, InStepUnlessLapsed, Alive
<1>6. TruthfulUnlessLapsed' /\ ConnectTruthful'
  BY <1>1 DEF IInv, TruthfulUnlessLapsed, ConnectTruthful
<1> QED
  BY <1>4, <1>5, <1>6 DEF IInv

\* IInv is inductive.
LEMMA NextInv == IInv /\ [Next]_vars => IInv'
<1> SUFFICES ASSUME IInv, [Next]_vars PROVE IInv'
  OBVIOUS
<1>1. CASE Launch
  <2>1. Connect(InitialAddress) /\ call' \in Connects /\ step = "down"
    BY <1>1 DEF Launch, Connects
  <2> QED
    BY <2>1, AddressAssumption, ConnectInv
<1>2. CASE SocketOutcome
  BY <1>2, SocketOutcomeInv
<1>3. CASE PollEmpty
  BY <1>3, PollEmptyInv
<1>4. CASE Timeout \/ TcpError \/ Read
  <2>1. PICK r, ch : WaitEnds(r, ch) /\ Resume(r, ch)
    BY <1>4, WaitStepEnds
  <2> QED
    BY <2>1, ResumeInv
<1>5. CASE Handler
  <2>1. CASE \/ HandleSetDesiredKeeper \/ HandleSubstituteBot
             \/ HandleSetAdvantageChoice \/ PingCallback
    <3>1. PICK c \in Requests \cup {"ping"} : SendRequest(c)
      BY <2>1
      DEF HandleSetDesiredKeeper, HandleSubstituteBot, HandleSetAdvantageChoice,
          PingCallback, Requests
    <3> QED
      BY <3>1, SendRequestInv
  <2>2. ASSUME NEW a \in Addresses, HandleReconnectTeamClient(a) PROVE IInv'
    <3>1. PICK b \in Addresses : Connect(b)
      BY <2>2 DEF HandleReconnectTeamClient, IInv, TypeOK
    <3>2. call' \in Connects /\ step = "spinning"
      BY <2>2 DEF HandleReconnectTeamClient, Connects
    <3> QED
      BY <3>1, <3>2, ConnectInv
  <2>3. ASSUME NEW a \in Addresses, SetAddressParameter(a) PROVE IInv'
    BY <2>3, SetAddressInv
  <2> QED
    BY <1>5, <2>1, <2>2, <2>3 DEF Handler
<1>6. CASE Environment
  BY <1>6, EnvironmentInv
<1>7. CASE UNCHANGED vars
  <2>1. TypeOK' /\ StepAgreesWithSocket' /\ InStepUnlessLapsed'
    BY <1>7
    DEF vars, IInv, TypeOK, StepAgreesWithSocket, InStepUnlessLapsed, Alive, IsChannel
  <2>2. TruthfulUnlessLapsed' /\ ConnectTruthful'
    BY <1>7 DEF vars, IInv, TruthfulUnlessLapsed, ConnectTruthful
  <2> QED
    BY <2>1, <2>2 DEF IInv
<1> QED
  BY <1>1, <1>2, <1>3, <1>4, <1>5, <1>6, <1>7 DEF Next, WaitStep

\* The invariant holds in every reachable state.
THEOREM Invariance == Spec => []IInv
<1> QED
  BY InitInv, NextInv, PTL DEF Spec

-----------------------------------------------------------------------------
(***************************************************************************)
(* The properties of the runs, for every value of the constants.           *)
(***************************************************************************)
\* Type correctness, and a well-formed reply stream.
THEOREM TypeCorrect == Spec => []TypeOK
<1>1. IInv => TypeOK
  BY DEF IInv
<1> QED
  BY <1>1, Invariance, PTL

\* Unless a wait on this connection has ended with no reply, a request or a ping
\* is answered success exactly when the GC replied OK to it.
THEOREM Truthful == Spec => []TruthfulUnlessLapsed
<1>1. IInv => TruthfulUnlessLapsed
  BY DEF IInv
<1> QED
  BY <1>1, Invariance, PTL

\* A connect answered success, with an address to connect to, leaves the client
\* connected there with its registration taken by the GC.
THEOREM ConnectIsTruthful == Spec => []ConnectTruthful
<1>1. IInv => ConnectTruthful
  BY DEF IInv
<1> QED
  BY <1>1, Invariance, PTL

\* Requests and replies stay in step until a wait ends with no reply.
THEOREM InStep == Spec => []InStepUnlessLapsed
<1>1. IInv => InStepUnlessLapsed
  BY DEF IInv
<1> QED
  BY <1>1, Invariance, PTL

\* The flag, the socket and the place of the thread agree.
THEOREM StepAgrees == Spec => []StepAgreesWithSocket
<1>1. IInv => StepAgreesWithSocket
  BY DEF IInv
<1> QED
  BY <1>1, Invariance, PTL

\* A step that kills the process writes to a connection the GC reset, or parses
\* an address that is none.
LEMMA DeathCause ==
  ASSUME IInv, [Next]_vars, step # "down", step' = "down"
  PROVE  link = "rst" \/ address' = Malformed
<1>1. CASE Launch
  BY <1>1 DEF Launch
<1>2. CASE SocketOutcome
  BY <1>2 DEF SocketOutcome, SocketConnected, SocketRefused, Await, Return
<1>3. CASE PollEmpty
  BY <1>3 DEF PollEmpty
<1>4. CASE Timeout \/ TcpError \/ Read
  <2>1. PICK r, ch : Resume(r, ch)
    BY <1>4, WaitStepEnds
  <2>2. HelloReply(r, ch) /\ ~Writable
    BY <2>1 DEF Resume, HelloReply, RegisterReply, ServiceReply, PingReply, Return, Await
  <2>3. Alive
    BY <2>2 DEF HelloReply, IInv, StepAgreesWithSocket, Waiting
  <2> QED
    BY <2>2, <2>3 DEF Alive, Writable
<1>5. CASE Handler
  <2>1. CASE \/ HandleSetDesiredKeeper \/ HandleSubstituteBot
             \/ HandleSetAdvantageChoice \/ PingCallback
    <3>1. connected /\ ~Writable
      BY <2>1
      DEF HandleSetDesiredKeeper, HandleSubstituteBot, HandleSetAdvantageChoice,
          PingCallback, SendRequest, Return, Await
    <3>2. Alive
      BY <3>1 DEF IInv, StepAgreesWithSocket
    <3> QED
      BY <3>1, <3>2 DEF Alive, Writable
  <2>2. ASSUME NEW a \in Addresses, HandleReconnectTeamClient(a)
        PROVE  address' = Malformed
    BY <2>2 DEF HandleReconnectTeamClient, Connect, Return, BeginConnect
  <2>3. ASSUME NEW a \in Addresses, SetAddressParameter(a) PROVE FALSE
    BY <2>3 DEF SetAddressParameter
  <2> QED
    BY <1>5, <2>1, <2>2, <2>3 DEF Handler
<1>6. CASE Environment
  BY <1>6 DEF Environment, GcAnswer, Deliver, PeerClose, PeerReset, procVars
<1>7. CASE UNCHANGED vars
  BY <1>7 DEF vars
<1> QED
  BY <1>1, <1>2, <1>3, <1>4, <1>5, <1>6, <1>7 DEF Next, WaitStep

\* The process dies only of a reset or of a malformed address.
THEOREM DeathIsOfReset == Spec => DiesOnlyOfReset
<1>1. IInv /\ [Next]_vars
        => [step # "down" /\ step' = "down" => link = "rst" \/ address' = Malformed]_vars
  BY DeathCause
<1> QED
  BY <1>1, Invariance, PTL DEF Spec, DiesOnlyOfReset

-----------------------------------------------------------------------------
(***************************************************************************)
(* The node implements ConnectionService.                                  *)
(***************************************************************************)
\* A node that has not been started is a service that is down.
LEMMA ServiceInit == Init => Service!Init
BY DEF Init, Service!Init, ServicePhase, ServicePeer

\* A connect begins, in the constructor or in the reconnect service.
LEMMA ServiceBeginConnect ==
  ASSUME IInv, NEW a \in Addresses, Connect(a), step \in {"down", "spinning"},
         call' \in Connects
  PROVE  Service!BeginConnect(a)
<1>1. address' = a
  BY DEF Connect
<1>2. CASE a = NoAddress /\ Return(TRUE, "none") /\ UNCHANGED sockVars
  BY <1>1, <1>2
  DEF Return, sockVars, Service!BeginConnect, Service!Finish, ServicePhase, ServicePeer
<1>3. CASE a = Malformed /\ Die
  BY <1>1, <1>3 DEF Die, Service!BeginConnect, Service!Lose, ServicePhase, ServicePeer
<1>4. CASE a \in Servers /\ BeginConnect
  BY <1>1, <1>4
  DEF BeginConnect, Service!BeginConnect, Service!Take, ServicePhase, ServicePeer
<1> QED
  BY <1>2, <1>3, <1>4 DEF Connect

\* A handler that talks to the GC is taken up, refused, or kills the process.
LEMMA ServiceBeginExchange ==
  ASSUME IInv, NEW c \in Requests \cup {"ping"}, SendRequest(c)
  PROVE  Service!BeginExchange(c) \/ Service!Fail
<1>1. step = "spinning" /\ call' = c /\ address' = address
  BY DEF SendRequest
<1>2. connected => ServicePeer # NoAddress
  BY AddressAssumption DEF IInv, StepAgreesWithSocket, ServicePeer
<1>3. CASE ~connected /\ Return(FALSE, "none") /\ UNCHANGED sockVars
  BY <1>1, <1>3
  DEF Return, sockVars, Service!BeginExchange, Service!Finish, ServicePhase, ServicePeer
<1>4. CASE /\ connected /\ Await("request", chan)
           /\ UNCHANGED <<connected, link, server, lapsed>>
  BY <1>1, <1>2, <1>4
  DEF Await, Service!BeginExchange, Service!Take, ServicePhase, ServicePeer
<1>5. CASE connected /\ Die
  BY <1>1, <1>2, <1>5
  DEF Die, Service!Fail, Service!Lose, Service!Requests, Requests, ServicePhase, ServicePeer
<1> QED
  BY <1>3, <1>4, <1>5 DEF SendRequest

\* A call ends, or goes on from the greeting to the registration.
LEMMA ServiceEnd ==
  ASSUME IInv, NEW r, NEW ch, Resume(r, ch)
  PROVE  Service!End \/ UNCHANGED Service!vars
<1>1. call' = call /\ address' = address
  BY DEF Resume
<1>2. CASE HelloReply(r, ch)
  <2>1. /\ step = "hello" /\ ~connected /\ call \in Connects
        /\ ServicePhase = "busy" /\ ServicePeer = NoAddress
    BY <1>2 DEF HelloReply, IInv, StepAgreesWithSocket, ServicePhase, ServicePeer
  <2>2. CASE Await("register", ch) /\ UNCHANGED <<connected, link, server>>
    <3>1. answer = "none"
      BY <2>1 DEF IInv, StepAgreesWithSocket
    <3>2. UNCHANGED <<ServicePhase, ServicePeer, answer>>
      BY <2>1, <2>2, <3>1 DEF Await, ServicePhase, ServicePeer
    <3> QED
      BY <1>1, <3>2 DEF Service!vars
  <2>3. CASE Die
    BY <1>1, <2>1, <2>3
    DEF Die, Service!End, Service!Fail, Service!Lose, ServicePhase, ServicePeer
  <2>4. CASE Return(FALSE, LastVerdict(chan)) /\ UNCHANGED connected
    BY <1>1, <2>1, <2>4
    DEF Return, Service!End, Service!EndConnect, Service!Finish, Service!Connects,
        Connects, ServicePhase, ServicePeer
  <2> QED
    BY <1>2, <2>2, <2>3, <2>4 DEF HelloReply
<1>3. CASE RegisterReply(r, ch)
  <2>1. /\ step = "register" /\ ~connected /\ call \in Connects /\ server = address
        /\ ServicePhase = "busy" /\ ServicePeer = NoAddress
    BY <1>3 DEF RegisterReply, IInv, StepAgreesWithSocket, ServicePhase, ServicePeer
  <2>2. /\ ServicePhase' = "ready"
        /\ answer' = IF Welcome(r) THEN "success" ELSE "failure"
        /\ ServicePeer' = IF Welcome(r) THEN address ELSE NoAddress
    BY <1>3, <2>1 DEF RegisterReply, Return, ServicePhase, ServicePeer
  <2> QED
    BY <1>1, <2>1, <2>2
    DEF Service!End, Service!EndConnect, Service!Finish, Service!Connects, Connects
<1>4. CASE ServiceReply(r, ch)
  <2>1. call \in Requests /\ ServicePhase = "busy"
    BY <1>4 DEF ServiceReply, ServicePhase
  <2>2. /\ ServicePhase' = "ready" /\ ServicePeer' = ServicePeer
        /\ answer' \in {"success", "failure"}
    BY <1>4 DEF ServiceReply, Return, ServicePhase, ServicePeer
  <2> QED
    BY <1>1, <2>1, <2>2
    DEF Service!End, Service!EndRequest, Service!Finish, Service!Requests, Requests
<1>5. CASE PingReply(r, ch)
  <2>1. call = "ping" /\ ServicePhase = "busy"
    BY <1>5 DEF PingReply, ServicePhase
  <2>2. /\ ServicePhase' = "ready"
        /\ answer' = IF Accepted(r) THEN "success" ELSE "failure"
        /\ ServicePeer' = IF Accepted(r) THEN ServicePeer ELSE NoAddress
    BY <1>5 DEF PingReply, Return, Disconnect, ServicePhase, ServicePeer
  <2> QED
    BY <1>1, <2>1, <2>2 DEF Service!End, Service!EndPing, Service!Finish
<1> QED
  BY <1>2, <1>3, <1>4, <1>5 DEF Resume

\* Every step of the node is a step of the service, or none.
LEMMA ServiceStep ==
  ASSUME IInv, [Next]_vars
  PROVE  [Service!Next]_(Service!vars)
<1>1. CASE Launch
  <2>1. Connect(InitialAddress) /\ call' \in Connects /\ step = "down"
    BY <1>1 DEF Launch, Connects
  <2>2. Service!BeginConnect(InitialAddress)
    BY <2>1, AddressAssumption, ServiceBeginConnect
  <2> QED
    BY <1>1, <2>2
    DEF Launch, ServicePhase, Service!Start, Service!Begin, Service!Next
<1>2. CASE SocketConnected
  <2>1. step = "connecting" /\ ~connected /\ answer = "none"
    BY <1>2 DEF SocketConnected, IInv, StepAgreesWithSocket
  <2>2. UNCHANGED <<ServicePhase, call, ServicePeer, address, answer>>
    BY <1>2, <2>1 DEF SocketConnected, Await, ServicePhase, ServicePeer
  <2> QED
    BY <2>2 DEF Service!vars
<1>3. CASE SocketRefused
  <2>1. step = "connecting" /\ ~connected /\ call \in Connects
    BY <1>3 DEF SocketRefused, IInv, StepAgreesWithSocket
  <2>2. Service!EndConnect
    BY <1>3, <2>1
    DEF SocketRefused, Return, ServicePhase, ServicePeer, Connects,
        Service!EndConnect, Service!Finish, Service!Connects
  <2> QED
    BY <2>2 DEF Service!End, Service!Next
<1>4. CASE PollEmpty
  BY <1>4
  DEF PollEmpty, sockVars, respVars, ServicePhase, ServicePeer, Service!vars
<1>5. CASE Timeout \/ TcpError \/ Read
  <2>1. PICK r, ch : Resume(r, ch)
    BY <1>5, WaitStepEnds
  <2> QED
    BY <2>1, ServiceEnd DEF Service!Next
<1>6. CASE Handler
  <2>1. CASE \/ HandleSetDesiredKeeper \/ HandleSubstituteBot
             \/ HandleSetAdvantageChoice \/ PingCallback
    <3>1. PICK c \in Requests \cup {"ping"} : SendRequest(c)
      BY <2>1
      DEF HandleSetDesiredKeeper, HandleSubstituteBot, HandleSetAdvantageChoice,
          PingCallback, Requests
    <3>2. Service!BeginExchange(c) \/ Service!Fail
      BY <3>1, ServiceBeginExchange
    <3> QED
      BY <3>2 DEF Service!Next, Service!Begin, Service!End, Service!Requests, Requests
  <2>2. ASSUME NEW a \in Addresses, HandleReconnectTeamClient(a)
        PROVE  Service!Next
    <3>1. Connect(IF a = NoAddress THEN address ELSE a) /\ step = "spinning"
      BY <2>2 DEF HandleReconnectTeamClient
    <3>2. (IF a = NoAddress THEN address ELSE a) \in Addresses /\ call' = "reconnect"
      BY <2>2 DEF HandleReconnectTeamClient, IInv, TypeOK
    <3>3. Service!BeginConnect(IF a = NoAddress THEN address ELSE a)
      BY <3>1, <3>2, ServiceBeginConnect DEF Connects
    <3>4. Service!Reconnect(a)
      BY <3>1, <3>2, <3>3 DEF Service!Reconnect, ServicePhase
    <3> QED
      BY <3>4 DEF Service!Next, Service!Begin, Service!Addresses, Addresses
  <2>3. ASSUME NEW a \in Addresses, SetAddressParameter(a)
        PROVE  Service!Next
    <3>1. Service!Configure(a)
      BY <2>3
      DEF SetAddressParameter, sockVars, ServicePhase, ServicePeer, Service!Configure
    <3> QED
      BY <3>1 DEF Service!Next, Service!Begin, Service!Addresses, Addresses
  <2> QED
    BY <1>6, <2>1, <2>2, <2>3 DEF Handler
<1>7. CASE Environment
  BY <1>7
  DEF Environment, GcAnswer, Deliver, PeerClose, PeerReset, procVars, respVars,
      ServicePhase, ServicePeer, Service!vars
<1>8. CASE UNCHANGED vars
  BY <1>8 DEF vars, ServicePhase, ServicePeer, Service!vars
<1> QED
  BY <1>1, <1>2, <1>3, <1>4, <1>5, <1>6, <1>7, <1>8
  DEF Next, SocketOutcome, WaitStep

\* The team client node implements ConnectionService (its safety part).
THEOREM NodeImplementsService == Spec => ImplementsService
<1>1. Init => Service!Init
  BY ServiceInit
<1>2. IInv /\ [Next]_vars => [Service!Next]_(Service!vars)
  BY ServiceStep
<1> QED
  BY <1>1, <1>2, Invariance, PTL DEF Spec, ImplementsService, Service!Spec
=============================================================================
