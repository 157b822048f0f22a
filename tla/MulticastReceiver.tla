-------------------------- MODULE MulticastReceiver --------------------------
(***************************************************************************)
(* core::MulticastReceiver (multicast_receiver.cpp): its constructor joins *)
(* the group on the interfaces of the machine and starts a thread that     *)
(* runs the io_service and, in it, the receive callback of the node that   *)
(* owns the receiver; the owner destroys it from another thread.           *)
(*                                                                         *)
(* There is one buffer_ and one sender_endpoint_.  async_receive_from      *)
(* fills them at once if a packet is queued in the socket, otherwise when  *)
(* the reactor sees one; the handler is dispatched later, by run().        *)
(* A packet, with its sender, is a number: its place in the order of       *)
(* arrival.  SendTo has no caller in the repository and is left out.       *)
(*                                                                         *)
(* An address of the machine is a record: its family (none: no address at  *)
(* all), the nic it is assigned to and whether that lets the group be      *)
(* joined.  A net_interface_address that is no address cannot be joined.   *)
(***************************************************************************)
EXTENDS Naturals, Sequences

CONSTANTS KernelDepth,         \* packets the socket's receive queue holds
          MaxPackets,          \* bound: packets that arrive
          Nics,
          InterfaceLists,      \* what getifaddrs may answer: sequences of addresses
          InterfaceAddresses   \* net_interface_address: <<>> if empty, else one address

Addresses == [family : {"none", "v4", "v6"}, nic : Nics, joinable : BOOLEAN]

ASSUME ReceiverAssumption ==
  /\ KernelDepth \in Nat \ {0}
  /\ MaxPackets \in Nat
  /\ InterfaceLists \subseteq Seq(Addresses)
  /\ InterfaceAddresses \subseteq Seq(Addresses)

VARIABLES interfaces, \* the list getifaddrs has answered
          listed,     \* how many of them GetIpAdresses has looked at
          addresses,  \* the constructor's list of addresses to join on
          next,       \* the place in it of the next one
          joined,     \* the nics on which the socket is a member of the group
          warned,     \* the places of the addresses that failed, as the log tells
          queue,      \* packets in the socket
          arrived,    \* packets that have arrived so far
          op,         \* the receive operation: none, pending, done, error
          buffer,     \* buffer_ and sender_endpoint_
          thread,     \* io_service_thread_: unstarted, running, callback or ended
          owner,      \* constructing, joining, alive, stopping (in the destructor)
                      \* or destroyed
          handed,     \* the packet last handed to receive_callback_
          failed      \* history: a receive has failed

joinVars == <<interfaces, listed, addresses, next, joined, warned>>
ioVars == <<queue, arrived, op, buffer, thread, handed, failed>>
receiverVars == <<joinVars, ioVars, owner>>

ReceiverTypeOK ==
  /\ interfaces \in Seq(Addresses)
  /\ listed \in 0 .. Len(interfaces)
  /\ addresses \in Seq(Addresses)
  /\ next \in Nat \ {0}
  /\ joined \subseteq Nics
  /\ warned \subseteq Nat
  /\ queue \in Seq(1 .. MaxPackets) /\ Len(queue) <= KernelDepth
  /\ arrived \in 0 .. MaxPackets
  /\ op \in {"none", "pending", "done", "error"}
  /\ buffer \in 0 .. MaxPackets
  /\ thread \in {"unstarted", "running", "callback", "ended"}
  /\ owner \in {"constructing", "joining", "alive", "stopping", "destroyed"}
  /\ handed \in 0 .. MaxPackets
  /\ failed \in BOOLEAN

ReceiverInit ==
  /\ interfaces = <<>>
  /\ listed = 0
  /\ addresses = <<>>
  /\ next = 1
  /\ joined = {}
  /\ warned = {}
  /\ queue = <<>>
  /\ arrived = 0
  /\ op = "none"
  /\ buffer = 0
  /\ thread = "unstarted"
  /\ owner = "constructing"
  /\ handed = 0
  /\ failed = FALSE

-----------------------------------------------------------------------------
\* A packet for the group arrives on a nic where it has been joined; a full socket
\* queue drops it.
Arrive ==
  /\ owner # "destroyed" /\ joined # {}
  /\ arrived < MaxPackets
  /\ arrived' = arrived + 1
  /\ queue' = IF Len(queue) < KernelDepth THEN Append(queue, arrived + 1) ELSE queue
  /\ UNCHANGED <<joinVars, op, buffer, thread, owner, handed, failed>>

\* The oldest queued packet is copied into buffer_.
Fill ==
  /\ queue # <<>>
  /\ op' = "done"
  /\ buffer' = Head(queue)
  /\ queue' = Tail(queue)

\* async_receive_from: what is there is taken at once.
AsyncReceiveFrom ==
  \/ Fill
  \/ /\ queue = <<>>
     /\ op' = "pending"
     /\ UNCHANGED <<queue, buffer>>

(***************************************************************************)
(* The constructor.                                                        *)
(***************************************************************************)
\* The socket is opened and bound; the addresses to join on are the one given, or
\* those that GetIpAdresses finds.  If getifaddrs fails its list is empty.
Bind ==
  /\ owner = "constructing"
  /\ \E given \in InterfaceAddresses :
       /\ addresses' = given
       /\ interfaces' \in IF given = <<>> THEN InterfaceLists ELSE {<<>>}
  /\ owner' = "joining"
  /\ UNCHANGED <<listed, next, joined, warned, ioVars>>

\* The group is not an IPv4 address or the socket cannot be bound: the exception
\* leaves the constructor, the socket is closed.
BindThrows ==
  /\ owner = "constructing"
  /\ owner' = "destroyed"
  /\ UNCHANGED <<joinVars, ioVars>>

\* GetIpAdresses(false) goes through the list: it takes the IPv4 addresses, and passes
\* by the others and the interfaces without an address.
GetIpAdressesGoingOn ==  \* mutant: no continue after an interface without an address
  /\ owner = "joining" /\ listed < Len(interfaces)
  /\ LET looked == IF interfaces[listed + 1].family = "none" THEN listed + 2 ELSE listed + 1
     IN  /\ listed' = looked
         /\ addresses' = IF looked <= Len(interfaces) /\ interfaces[looked].family = "v4"
                           THEN Append(addresses, interfaces[looked]) ELSE addresses
  /\ UNCHANGED <<interfaces, next, joined, warned, ioVars, owner>>

GetIpAdresses ==
  /\ owner = "joining" /\ listed < Len(interfaces)
  /\ LET interface == interfaces[listed + 1]
     IN  addresses' = IF interface.family = "v4" THEN Append(addresses, interface)
                                                ELSE addresses
  /\ listed' = listed + 1
  /\ UNCHANGED <<interfaces, next, joined, warned, ioVars, owner>>

\* join_group with the next address.  It fails if the nic refuses, which is warned of,
\* and, with EADDRINUSE, if the nic is a member already, which is not; the loop goes
\* on in each case.
JoinGroupStopping ==  \* mutant: the try block is around the loop
  /\ owner = "joining" /\ listed = Len(interfaces) /\ next <= Len(addresses)
  /\ LET address == addresses[next]
         fails == ~address.joinable \/ address.nic \in joined
     IN  /\ joined' = IF fails THEN joined ELSE joined \cup {address.nic}
         /\ warned' = IF address.joinable THEN warned ELSE warned \cup {next}
         /\ next' = IF fails THEN Len(addresses) + 1 ELSE next + 1
  /\ UNCHANGED <<interfaces, listed, addresses, ioVars, owner>>

JoinGroup ==
  /\ owner = "joining" /\ listed = Len(interfaces) /\ next <= Len(addresses)
  /\ LET address == addresses[next]
     IN  IF address.joinable
           THEN joined' = joined \cup {address.nic} /\ UNCHANGED warned
           ELSE warned' = warned \cup {next} /\ UNCHANGED joined
  /\ next' = next + 1
  /\ UNCHANGED <<interfaces, listed, addresses, ioVars, owner>>

\* The first receive is started, and then the thread.
StartThread ==
  /\ owner = "joining" /\ listed = Len(interfaces) /\ next > Len(addresses)
  /\ AsyncReceiveFrom
  /\ thread' = "running"
  /\ owner' = "alive"
  /\ UNCHANGED <<joinVars, arrived, handed, failed>>

(***************************************************************************)
(* The thread.                                                             *)
(***************************************************************************)
\* The reactor finds the socket readable.
ReactorFills ==
  /\ thread = "running" /\ op = "pending"
  /\ Fill
  /\ UNCHANGED <<joinVars, arrived, thread, owner, handed, failed>>

\* The receive operation fails (an error the socket reports).
ReceiveFails ==
  /\ thread = "running" /\ op = "pending"
  /\ op' = "error"
  /\ failed' = TRUE
  /\ UNCHANGED <<joinVars, queue, arrived, buffer, thread, owner, handed>>

(***************************************************************************)
(* HandleMulticastReceiveFrom.                                             *)
(***************************************************************************)
\* The packet in buffer_ is handed, by reference, to receive_callback_ ...
HandleReceivedRearmingFirst ==  \* mutant: the next receive is started first
  /\ thread = "running" /\ op = "done" /\ owner = "alive"
  /\ thread' = "callback"
  /\ handed' = buffer
  /\ AsyncReceiveFrom
  /\ UNCHANGED <<joinVars, arrived, owner, failed>>

HandleReceived ==
  /\ thread = "running" /\ op = "done" /\ owner = "alive"
  /\ thread' = "callback"
  /\ handed' = buffer
  /\ op' = "none"
  /\ UNCHANGED <<joinVars, queue, arrived, buffer, owner, failed>>

\* ... and only when that returns is the next receive started.
CallbackReturnsUnarmed ==  \* mutant: no receive is started again
  /\ thread = "callback"
  /\ thread' = "running"
  /\ UNCHANGED <<joinVars, queue, arrived, op, buffer, owner, handed, failed>>

CallbackReturns ==
  /\ thread = "callback"
  /\ thread' = "running"
  /\ AsyncReceiveFrom
  /\ UNCHANGED <<joinVars, arrived, owner, handed, failed>>

\* After an error nothing is handed on, and no receive is started again.
HandleErrorFallingThrough ==  \* mutant: no return after the warning
  /\ thread = "running" /\ op = "error" /\ owner = "alive"
  /\ thread' = "callback"
  /\ handed' = buffer
  /\ op' = "none"
  /\ UNCHANGED <<joinVars, queue, arrived, buffer, owner, failed>>

HandleError ==
  /\ thread = "running" /\ op = "error" /\ owner = "alive"
  /\ op' = "none"
  /\ UNCHANGED <<joinVars, queue, arrived, buffer, thread, owner, handed, failed>>

\* io_service_.run() returns: nothing is left to do, or it has been stopped.
RunReturnsWhenIdle ==  \* mutant: the io_service is not stopped
  /\ thread = "running"
  /\ op = "none"
  /\ thread' = "ended"
  /\ UNCHANGED <<joinVars, queue, arrived, op, buffer, owner, handed, failed>>

RunReturns ==
  /\ thread = "running"
  /\ op = "none" \/ owner = "stopping"
  /\ thread' = "ended"
  /\ UNCHANGED <<joinVars, queue, arrived, op, buffer, owner, handed, failed>>

(***************************************************************************)
(* The destructor: stop, then join, then the members go.                   *)
(***************************************************************************)
Stop ==
  /\ owner = "alive"
  /\ owner' = "stopping"
  /\ UNCHANGED <<joinVars, queue, arrived, op, buffer, thread, handed, failed>>

DestroyUnjoined ==  \* mutant: the thread is not joined
  /\ owner = "stopping"
  /\ owner' = "destroyed"
  /\ queue' = <<>>
  /\ UNCHANGED <<joinVars, arrived, op, buffer, thread, handed, failed>>

Destroy ==
  /\ owner = "stopping"
  /\ thread = "ended"
  /\ owner' = "destroyed"
  /\ queue' = <<>>
  /\ UNCHANGED <<joinVars, arrived, op, buffer, thread, handed, failed>>

IoThread == ReactorFills \/ HandleReceived \/ CallbackReturns \/ HandleError \/ RunReturns

Construct == GetIpAdresses \/ JoinGroup \/ StartThread

ReceiverNext ==
  Arrive \/ Bind \/ BindThrows \/ Construct \/ ReceiveFails \/ IoThread \/ Stop \/ Destroy

ReceiverSpec == ReceiverInit /\ [][ReceiverNext]_receiverVars

-----------------------------------------------------------------------------
(***************************************************************************)
(* Properties.                                                             *)
(***************************************************************************)
\* Once the receiver listens it does so on every IPv4 interface that lets it: one that
\* fails, has no address or another family, or a second address, keeps no other from
\* being joined; the log tells of the addresses that fail and of no others.
JoinsWhatItCan ==
  owner = "alive" =>
    /\ \A i \in 1 .. Len(interfaces) :
         interfaces[i].family = "v4" /\ interfaces[i].joinable
           => interfaces[i].nic \in joined
    /\ \A i \in 1 .. Len(addresses) :
         IF addresses[i].joinable THEN addresses[i].nic \in joined /\ i \notin warned
                                  ELSE i \in warned

\* While the callback reads the buffer and the sender's address by reference,
\* they stay those of the packet it was called for.
CallbackKeepsItsPacket == thread = "callback" => buffer = handed /\ op = "none"

\* No callback runs, and none can still be dispatched, once the receiver and the
\* node behind the callback are being destroyed.
NoCallbackAfterDestroy == owner = "destroyed" => thread \in {"unstarted", "ended"}

\* Packets reach the callback in the order of their arrival, none of them twice;
\* one that the socket queue could not hold is skipped.
HandedInOrder ==
  [][thread' = "callback" /\ thread # "callback" => handed' > handed]_receiverVars

\* What these rest on: the queued packets came after the one in buffer_ and after
\* one another; that one has been handed on, unless it has just been filled in; a
\* callback runs only between two receives, a member goes only after the thread;
\* every IPv4 interface looked at is among the addresses, and those before the next
\* one have been joined, or warned of.
QueuedInOrder ==
  /\ buffer <= arrived
  /\ \A i \in 1 .. Len(queue) : buffer < queue[i] /\ queue[i] <= arrived
  /\ \A i, j \in 1 .. Len(queue) : i < j => queue[i] < queue[j]

ListedSoFar ==
  \A i \in 1 .. listed :
    interfaces[i].family = "v4"
      => \E j \in 1 .. Len(addresses) : addresses[j] = interfaces[i]

JoinedSoFar ==
  /\ \A i \in warned : i < next
  /\ \A i \in 1 .. Len(addresses) : i < next =>
       IF addresses[i].joinable THEN addresses[i].nic \in joined /\ i \notin warned
                                ELSE i \in warned

ReceiverInv ==
  /\ ReceiverTypeOK
  /\ QueuedInOrder
  /\ IF op = "done" THEN handed < buffer ELSE handed = buffer
  /\ thread = "unstarted" => op = "none"
  /\ owner \in {"constructing", "joining"} => thread = "unstarted"
  /\ owner = "constructing" => listed = 0 /\ next = 1
  /\ listed < Len(interfaces) => next = 1
  /\ owner \in {"alive", "stopping"} => listed = Len(interfaces) /\ next > Len(addresses)
  /\ ListedSoFar
  /\ JoinedSoFar
  /\ CallbackKeepsItsPacket
  /\ NoCallbackAfterDestroy
=============================================================================
