----------------------------- MODULE VisionBridge -----------------------------
(***************************************************************************)
(* The vision bridge node (ssl_vision_bridge_node.cpp): its publisher, its *)
(* MulticastReceiver and the receiver's callback, which runs on the        *)
(* receiver's thread, parses the packet and publishes what fromProto makes *)
(* of it.  The members are constructed in their order, the publisher       *)
(* first, and destroyed in the reverse one.                                *)
(*                                                                         *)
(* Of a packet's contents only this matters: a whole SSL_WrapperPacket,    *)
(* something else ("garbage"), or a packet longer than the 4096 bytes of   *)
(* buffer_ ("long"), of which the rest is lost without an error: what is   *)
(* left may parse or not.                                                  *)
(***************************************************************************)
EXTENDS MulticastReceiver

Kinds == {"whole", "garbage", "long"}

VARIABLES publisher,  \* vision_publisher_: none, alive or gone
          callback,   \* multicastCallback: idle, called or done
          contents,   \* the kinds of the packets to come
          published   \* the messages published: their packets and if all of it is there

nodeVars == <<publisher, callback, contents, published>>
vars == <<receiverVars, nodeVars>>

TypeOK ==
  /\ ReceiverTypeOK
  /\ publisher \in {"none", "alive", "gone"}
  /\ callback \in {"idle", "called", "done"}
  /\ contents \in [1 .. MaxPackets -> Kinds]
  /\ published \in Seq([packet : 1 .. MaxPackets, complete : BOOLEAN])

Init ==
  /\ ReceiverInit
  /\ publisher = "none"
  /\ callback = "idle"
  /\ contents \in [1 .. MaxPackets -> Kinds]
  /\ published = <<>>

-----------------------------------------------------------------------------
\* The members, in the order of their declaration.
CreatePublisher ==
  /\ publisher = "none"
  /\ publisher' = "alive"
  /\ UNCHANGED <<receiverVars, callback, contents, published>>

CreateReceiverFirst ==  \* mutant: multicast_receiver_ declared before vision_publisher_
  (Bind \/ BindThrows) /\ UNCHANGED nodeVars

CreateReceiver ==
  /\ publisher = "alive"
  /\ Bind \/ BindThrows
  /\ UNCHANGED nodeVars

\* The receiver calls multicastCallback ...
Called == HandleReceived /\ callback' = "called" /\ UNCHANGED <<publisher, contents, published>>

\* ... which parses the packet that is in the buffer now and publishes the message ...
Publish(complete) ==
  published' = Append(published, [packet |-> buffer, complete |-> complete])

MulticastCallbackUnparsed ==  \* mutant: no return when the packet cannot be parsed
  /\ callback = "called"
  /\ Publish(contents[buffer] = "whole")
  /\ callback' = "done"
  /\ UNCHANGED <<receiverVars, publisher, contents>>

MulticastCallback ==
  /\ callback = "called"
  /\ \/ contents[buffer] = "whole" /\ Publish(TRUE)
     \/ contents[buffer] = "long" /\ Publish(FALSE)
     \/ contents[buffer] # "whole" /\ UNCHANGED published
  /\ callback' = "done"
  /\ UNCHANGED <<receiverVars, publisher, contents>>

\* ... and returns to it.
Returns ==
  /\ callback = "done"
  /\ CallbackReturns
  /\ callback' = "idle"
  /\ UNCHANGED <<publisher, contents, published>>

\* When the receiver is gone, so is the publisher.
DestroyPublisher ==
  /\ owner = "destroyed" /\ publisher = "alive"
  /\ publisher' = "gone"
  /\ UNCHANGED <<receiverVars, callback, contents, published>>

\* The rest of the receiver is as it is.
Constructs == Construct /\ UNCHANGED nodeVars
Reacts == (ReactorFills \/ HandleError \/ RunReturns) /\ UNCHANGED nodeVars
Destroys == Destroy /\ UNCHANGED nodeVars
Outside == (Arrive \/ ReceiveFails \/ Stop) /\ UNCHANGED nodeVars

Next ==
  \/ CreatePublisher \/ CreateReceiver
  \/ Called \/ MulticastCallback \/ Returns
  \/ Constructs \/ Reacts \/ Destroys \/ Outside
  \/ DestroyPublisher

Spec == Init /\ [][Next]_vars

\* The constructor goes on (after the bind: that may throw), the thread runs, the
\* callback returns, and a destructor that can go on does.
FairSpec ==
  /\ Spec
  /\ WF_vars(Constructs)
  /\ WF_vars(Called \/ MulticastCallback \/ Returns \/ Reacts)
  /\ WF_vars(Destroys)
  /\ WF_vars(DestroyPublisher)

-----------------------------------------------------------------------------
(***************************************************************************)
(* Properties.                                                             *)
(***************************************************************************)
\* The callback never runs without a publisher, although nothing but the order of two
\* members sees to it: not while the node is being constructed, when the thread is
\* running already, nor while it is being destroyed.
PublisherOutlivesCallback == callback # "idle" => publisher = "alive"

\* What is published is what was received: in the order of arrival, no packet twice,
\* nothing for garbage, and a message lacks something only if its packet was too long.
PublishedInOrder ==
  /\ \A i, j \in 1 .. Len(published) : i < j => published[i].packet < published[j].packet
  /\ \A i \in 1 .. Len(published) :
       /\ contents[published[i].packet] # "garbage"
       /\ contents[published[i].packet] = "whole" => published[i].complete

\* The publisher and the receiver agree on where the callback is.
CallbackIsOnThread == callback = "idle" <=> thread # "callback"

\* The last packet published is the one last handed on, or an earlier one.
PublishedSoFar ==
  \A i \in 1 .. Len(published) :
    /\ published[i].packet <= handed
    /\ callback = "called" => published[i].packet < handed

NodeInv ==
  /\ TypeOK
  /\ ReceiverInv
  /\ CallbackIsOnThread
  /\ callback # "idle" => handed > 0
  /\ PublishedInOrder
  /\ PublishedSoFar
  /\ publisher = "none" => owner = "constructing" /\ joined = {}
  /\ publisher = "gone" => owner = "destroyed"
  /\ PublisherOutlivesCallback

Queued(n) == \E i \in DOMAIN queue : queue[i] = n
IsPublished(n) == \E i \in DOMAIN published : published[i].packet = n
Ends == owner \in {"stopping", "destroyed"}

\* Short of an error of the socket, every whole packet in its queue is published,
\* whatever packets come before it, until the node is destroyed.
PublishesUntilError ==
  \A n \in 1 .. MaxPackets :
    Queued(n) /\ contents[n] = "whole" ~> IsPublished(n) \/ Ends \/ failed

\* The destructor's join returns, whatever the callback is doing.
DestructorReturns == owner = "stopping" ~> publisher = "gone"

\* "This node listens for the multicast vision messages sent by ssl-vision and
\* publishes them into ROS." (README.md:77): it does so as long as it lives.
ListensWhileAlive ==
  \A n \in 1 .. MaxPackets :
    Queued(n) /\ contents[n] = "whole" ~> IsPublished(n) \/ Ends
=============================================================================
