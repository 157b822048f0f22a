-------------------------- MODULE VisionBridgeProofs --------------------------
(***************************************************************************)
(* Proofs about VisionBridge: the node uses its receiver as a receiver may *)
(* be used, so what is proved of MulticastReceiver holds in the node; and  *)
(* what the node adds to it.                                               *)
(***************************************************************************)
EXTENDS VisionBridge, MulticastReceiverProofs

\* Every step of the node is one of its receiver, or none.
LEMMA StepIsReceivers == [Next]_vars => [ReceiverNext]_receiverVars
BY DEF Next, vars, CreatePublisher, CreateReceiver, Called, MulticastCallback, Returns,
       Constructs, Reacts, Destroys, Outside, DestroyPublisher, ReceiverNext, IoThread

LEMMA ElementOf ==
  ASSUME NEW S, NEW q \in Seq(S), NEW i \in 1 .. Len(q)
  PROVE  q[i] \in S
OBVIOUS

\* The message published last is that of the packet in the buffer.
LEMMA PublishKeepsOrder ==
  ASSUME NodeInv, callback = "called", NEW complete \in BOOLEAN, Publish(complete),
         contents[buffer] # "garbage", contents[buffer] = "whole" => complete,
         UNCHANGED <<contents, handed>>, callback' = "done"
  PROVE  /\ published' \in Seq([packet : 1 .. MaxPackets, complete : BOOLEAN])
         /\ PublishedInOrder'
         /\ PublishedSoFar'
<1> DEFINE Messages == [packet : 1 .. MaxPackets, complete : BOOLEAN]
           message == [packet |-> buffer, complete |-> complete]
           n == Len(published)
<1>1. /\ thread = "callback" /\ buffer = handed
      /\ handed \in 1 .. MaxPackets
  <2>1. thread = "callback"
    BY DEF NodeInv, CallbackIsOnThread, TypeOK, ReceiverTypeOK
  <2>2. handed > 0 /\ handed \in 0 .. MaxPackets /\ MaxPackets \in Nat
    BY ReceiverAssumption DEF NodeInv, TypeOK, ReceiverTypeOK
  <2> QED
    BY <2>1, <2>2 DEF NodeInv, ReceiverInv, CallbackKeepsItsPacket
<1>2. message \in Messages /\ message.packet = handed /\ message.complete = complete
  BY <1>1
<1>3. published \in Seq(Messages) /\ published' = Append(published, message)
  BY DEF NodeInv, TypeOK, Publish
<1> HIDE DEF message, Messages
<1>4. /\ published' \in Seq(Messages)
      /\ Len(published') = n + 1 /\ n \in Nat
      /\ \A i \in 1 .. n : published'[i] = published[i]
      /\ published'[n + 1] = message
  BY <1>2, <1>3, AppendIsSeq
<1> HIDE DEF n
<1>5. \A i \in 1 .. Len(published') : i \in 1 .. n \/ i = n + 1
  BY <1>4
<1>6. \A i \in 1 .. n : /\ published'[i] = published[i]
                        /\ published[i].packet < handed
                        /\ published[i].packet \in 1 .. MaxPackets
  <2>1. \A i \in 1 .. n : published[i] \in Messages /\ published[i].packet < handed
    BY <1>3 DEF NodeInv, PublishedSoFar, n
  <2> QED
    BY <1>4, <2>1 DEF Messages
<1>7. PublishedSoFar'
  <2> SUFFICES ASSUME NEW i \in 1 .. Len(published')
               PROVE  published'[i].packet <= handed
    BY DEF PublishedSoFar
  <2>1. CASE i \in 1 .. n
    BY <1>1, <1>6, <2>1
  <2>2. CASE i = n + 1
    BY <1>1, <1>2, <1>4, <2>2
  <2> QED
    BY <1>5, <2>1, <2>2
<1>8. PublishedInOrder'
  <2>1. ASSUME NEW i \in 1 .. Len(published'), NEW j \in 1 .. Len(published'), i < j
        PROVE  published'[i].packet < published'[j].packet
    <3>1. i \in 1 .. n
      BY <1>4, <2>1
    <3>2. CASE j \in 1 .. n
      BY <1>6, <2>1, <3>1, <3>2 DEF NodeInv, PublishedInOrder, n
    <3>3. CASE j = n + 1
      BY <1>2, <1>4, <1>6, <3>1, <3>3
    <3> QED
      BY <1>5, <3>2, <3>3
  <2>2. ASSUME NEW i \in 1 .. Len(published')
        PROVE  /\ contents[published'[i].packet] # "garbage"
               /\ contents[published'[i].packet] = "whole" => published'[i].complete
    <3>1. CASE i \in 1 .. n
      BY <1>6, <3>1 DEF NodeInv, PublishedInOrder, n
    <3>2. CASE i = n + 1
      BY <1>1, <1>2, <1>4, <3>2
    <3> QED
      BY <1>5, <3>1, <3>2
  <2> QED
    BY <2>1, <2>2 DEF PublishedInOrder
<1> QED
  BY <1>4, <1>7, <1>8 DEF Messages

LEMMA NodeInvInit == Init => NodeInv
<1> SUFFICES ASSUME Init PROVE NodeInv
  OBVIOUS
<1>1. ReceiverInv
  BY InvInit DEF Init
<1>2. TypeOK
  BY <1>1 DEF Init, TypeOK, ReceiverInv
<1>3. PublishedInOrder /\ PublishedSoFar
  BY DEF Init, PublishedInOrder, PublishedSoFar
<1> QED
  BY <1>1, <1>2, <1>3
  DEF Init, ReceiverInit, NodeInv, CallbackIsOnThread, PublisherOutlivesCallback

\* What has been published is kept by the steps that publish nothing.
LEMMA PublishedKept ==
  ASSUME NodeInv, UNCHANGED <<published, contents>>, handed' = handed,
         callback' = "called" => callback = "called"
  PROVE  PublishedInOrder' /\ PublishedSoFar'
BY DEF NodeInv, PublishedInOrder, PublishedSoFar

LEMMA NodeInvNext == NodeInv /\ [Next]_vars => NodeInv'
<1> SUFFICES ASSUME NodeInv, [Next]_vars PROVE NodeInv'
  OBVIOUS
<1>1. ReceiverInv' /\ ReceiverTypeOK'
  BY StepIsReceivers, InvNext DEF NodeInv, ReceiverInv
<1>2. ReceiverInv /\ TypeOK /\ CallbackIsOnThread
  BY DEF NodeInv
<1>3. CASE CreatePublisher \/ CreateReceiver \/ DestroyPublisher \/ UNCHANGED vars
  <2>1. UNCHANGED <<published, contents, callback, thread, handed, joined>>
    BY <1>3
    DEF CreatePublisher, CreateReceiver, DestroyPublisher, Bind, BindThrows, vars, nodeVars,
        receiverVars, joinVars, ioVars
  <2>2. PublishedInOrder' /\ PublishedSoFar'
    BY <2>1, PublishedKept
  <2>3. callback # "idle" => thread = "callback" /\ owner \notin {"constructing", "destroyed"}
    BY <1>2
    DEF CallbackIsOnThread, ReceiverInv, NoCallbackAfterDestroy
  <2> QED
    BY <1>1, <2>1, <2>2, <2>3, <1>3
    DEF NodeInv, TypeOK, CallbackIsOnThread, PublisherOutlivesCallback, CreatePublisher,
        CreateReceiver, DestroyPublisher, Bind, BindThrows, vars, nodeVars, receiverVars
<1>4. CASE Called
  <2>1. /\ owner = "alive" /\ owner' = "alive" /\ thread' = "callback"
        /\ callback = "idle" /\ callback' = "called"
        /\ handed' = buffer /\ handed < buffer
        /\ UNCHANGED <<publisher, contents, published>>
        /\ handed \in Nat /\ buffer \in Nat
    BY <1>2, <1>4
    DEF Called, HandleReceived, CallbackIsOnThread, ReceiverInv, ReceiverTypeOK
  <2>2. publisher = "alive"
    BY <2>1 DEF NodeInv, TypeOK
  <2>3. PublishedInOrder'
    BY <2>1 DEF NodeInv, PublishedInOrder
  <2>4. PublishedSoFar'
    <3> SUFFICES ASSUME NEW i \in 1 .. Len(published)
                 PROVE  published[i].packet < buffer /\ published[i].packet <= buffer
      BY <2>1 DEF PublishedSoFar
    <3>1. published[i] \in [packet : 1 .. MaxPackets, complete : BOOLEAN]
      BY ElementOf DEF NodeInv, TypeOK
    <3>2. published[i].packet <= handed /\ published[i].packet \in Nat
      BY <3>1 DEF NodeInv, PublishedSoFar
    <3> QED
      BY <2>1, <3>2
  <2> QED
    BY <1>1, <2>1, <2>2, <2>3, <2>4
    DEF NodeInv, TypeOK, CallbackIsOnThread, PublisherOutlivesCallback
<1>5. CASE MulticastCallback
  <2>1. /\ callback = "called" /\ callback' = "done"
        /\ UNCHANGED <<receiverVars, publisher, contents>>
    BY <1>5 DEF MulticastCallback
  <2>2. /\ published' \in Seq([packet : 1 .. MaxPackets, complete : BOOLEAN])
        /\ PublishedInOrder' /\ PublishedSoFar'
    <3>1. UNCHANGED handed
      BY <2>1 DEF receiverVars, ioVars
    <3>2. CASE contents[buffer] = "whole" /\ Publish(TRUE)
      BY <2>1, <3>1, <3>2, PublishKeepsOrder
    <3>3. CASE contents[buffer] = "long" /\ Publish(FALSE)
      BY <2>1, <3>1, <3>3, PublishKeepsOrder
    <3>4. CASE UNCHANGED published
      BY <2>1, <3>1, <3>4, PublishedKept DEF NodeInv, TypeOK
    <3> QED
      BY <1>5, <3>2, <3>3, <3>4 DEF MulticastCallback
  <2>3. UNCHANGED <<thread, handed, owner, joined>>
    BY <2>1 DEF receiverVars, joinVars, ioVars
  <2> QED
    BY <1>1, <2>1, <2>2, <2>3
    DEF NodeInv, TypeOK, CallbackIsOnThread, PublisherOutlivesCallback
<1>6. CASE Returns
  <2>1. /\ callback' = "idle" /\ thread' = "running"
        /\ UNCHANGED <<publisher, contents, published, handed, owner, joined>>
    BY <1>6 DEF Returns, CallbackReturns, joinVars
  <2>2. PublishedInOrder' /\ PublishedSoFar'
    BY <2>1, PublishedKept
  <2> QED
    BY <1>1, <2>1, <2>2
    DEF NodeInv, TypeOK, CallbackIsOnThread, PublisherOutlivesCallback
<1>7. CASE Constructs \/ Reacts \/ Destroys \/ Outside
  <2>1. /\ UNCHANGED <<nodeVars, handed>>
        /\ thread' = "callback" <=> thread = "callback"
        /\ owner' # "constructing" \/ owner = "constructing"
        /\ owner = "destroyed" => owner' = "destroyed"
    BY <1>2, <1>7
    DEF Constructs, Construct, GetIpAdresses, JoinGroup, StartThread, Reacts, ReactorFills,
        HandleError, RunReturns, Destroys, Destroy, Outside, Arrive, ReceiveFails, Stop,
        ioVars, ReceiverInv
  <2>2. UNCHANGED <<publisher, callback, contents, published>>
    BY <2>1 DEF nodeVars
  <2>3. PublishedInOrder' /\ PublishedSoFar'
    BY <2>1, <2>2, PublishedKept
  <2>4. publisher # "none"
    BY <1>2, <1>7
    DEF NodeInv, ReceiverInv, Constructs, Construct, GetIpAdresses, JoinGroup, StartThread, Reacts,
        ReactorFills, HandleError, RunReturns, Destroys, Destroy, Outside, Arrive,
        ReceiveFails, Stop
  <2> QED
    BY <1>1, <2>1, <2>2, <2>3, <2>4
    DEF NodeInv, TypeOK, CallbackIsOnThread, PublisherOutlivesCallback
<1> QED
  BY <1>3, <1>4, <1>5, <1>6, <1>7 DEF Next

LEMMA NodeInvariance == Spec => []NodeInv
BY NodeInvInit, NodeInvNext, PTL DEF Spec

-----------------------------------------------------------------------------
(***************************************************************************)
(* Theorems.                                                               *)
(***************************************************************************)
\* The node implements MulticastReceiver: its order of construction, its callback and
\* its destruction are among those the receiver's proofs allow for.
THEOREM ImplementsReceiver == Spec => ReceiverSpec
<1>1. Init => ReceiverInit
  BY DEF Init
<1> QED
  BY <1>1, StepIsReceivers, PTL DEF Spec, ReceiverSpec

\* Every variable of the node keeps its type.
THEOREM NodeTypeCorrect == Spec => []TypeOK
<1>1. NodeInv => TypeOK
  BY DEF NodeInv
<1> QED
  BY NodeInvariance, <1>1, PTL

\* The callback always finds a publisher.
THEOREM PublisherIsThere == Spec => []PublisherOutlivesCallback
<1>1. NodeInv => PublisherOutlivesCallback
  BY DEF NodeInv
<1> QED
  BY NodeInvariance, <1>1, PTL

\* Messages are published in the order of arrival of their packets, one for each
\* packet at most, none for garbage, and whole unless the packet was too long.
THEOREM MessagesInOrder == Spec => []PublishedInOrder
<1>1. NodeInv => PublishedInOrder
  BY DEF NodeInv
<1> QED
  BY NodeInvariance, <1>1, PTL

\* In the node, too, the group is joined wherever it can be, ...
THEOREM NodeJoinsAll == Spec => []JoinsWhatItCan
BY ImplementsReceiver, AllAreJoined, PTL

\* ... the callback's packet is kept while it is parsed, ...
THEOREM NodeKeepsPacket == Spec => []CallbackKeepsItsPacket
BY ImplementsReceiver, PacketIsKept, PTL

\* ... no callback runs on a destroyed node ...
THEOREM NodeDestructorIsLast == Spec => []NoCallbackAfterDestroy
BY ImplementsReceiver, DestructorIsLast, PTL

\* ... and packets reach the callback in the order of arrival.
THEOREM NodeHandsInOrder == Spec => HandedInOrder
BY ImplementsReceiver, OrderIsKept, PTL
=============================================================================
