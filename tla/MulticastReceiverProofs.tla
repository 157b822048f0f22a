----------------------- MODULE MulticastReceiverProofs -----------------------
(***************************************************************************)
(* Proofs about MulticastReceiver, for every list of interfaces, depth of  *)
(* the socket's queue and number of packets.                               *)
(***************************************************************************)
EXTENDS MulticastReceiver, TLAPS

\* The part of the invariant that is about the socket, the buffer and what has
\* been handed on.
InOrder ==
  /\ queue \in Seq(1 .. MaxPackets)
  /\ arrived \in 0 .. MaxPackets
  /\ buffer \in 0 .. MaxPackets
  /\ handed \in 0 .. MaxPackets
  /\ QueuedInOrder
  /\ IF op = "done" THEN handed < buffer ELSE handed = buffer

\* The part that is about the constructor's way through the interfaces.
Joining ==
  /\ interfaces \in Seq(Addresses)
  /\ listed \in 0 .. Len(interfaces)
  /\ addresses \in Seq(Addresses)
  /\ next \in Nat \ {0}
  /\ joined \subseteq Nics
  /\ warned \subseteq Nat
  /\ owner = "constructing" => listed = 0 /\ next = 1
  /\ listed < Len(interfaces) => next = 1
  /\ owner \in {"alive", "stopping"} => listed = Len(interfaces) /\ next > Len(addresses)
  /\ ListedSoFar
  /\ JoinedSoFar

\* The part that is about the thread and its owner.
Threading ==
  /\ Len(queue) <= KernelDepth
  /\ op \in {"none", "pending", "done", "error"}
  /\ thread \in {"unstarted", "running", "callback", "ended"}
  /\ owner \in {"constructing", "joining", "alive", "stopping", "destroyed"}
  /\ failed \in BOOLEAN
  /\ thread = "unstarted" => op = "none"
  /\ owner \in {"constructing", "joining"} => thread = "unstarted"
  /\ CallbackKeepsItsPacket
  /\ NoCallbackAfterDestroy

LEMMA InvParts == ReceiverInv <=> InOrder /\ Joining /\ Threading
BY DEF ReceiverInv, ReceiverTypeOK, InOrder, Joining, Threading

\* A queue without its oldest is a queue, one shorter.
LEMMA TailIsSeq ==
  ASSUME NEW S, NEW q \in Seq(S), q # <<>>
  PROVE  /\ Tail(q) \in Seq(S)
         /\ Len(Tail(q)) = Len(q) - 1
         /\ Head(q) = q[1]
         /\ q[1] \in S
OBVIOUS

\* The oldest of a queue in order is above the buffer and below the others.
LEMMA HeadIsNext ==
  ASSUME InOrder, queue # <<>>
  PROVE  /\ Head(queue) \in 1 .. MaxPackets
         /\ Tail(queue) \in Seq(1 .. MaxPackets)
         /\ Len(Tail(queue)) = Len(queue) - 1
         /\ buffer < Head(queue)
         /\ Head(queue) <= arrived
         /\ \A i \in 1 .. Len(Tail(queue)) : /\ Head(queue) < Tail(queue)[i]
                                             /\ Tail(queue)[i] <= arrived
         /\ \A i, j \in 1 .. Len(Tail(queue)) :
              i < j => Tail(queue)[i] < Tail(queue)[j]
<1>1. /\ Len(queue) \in Nat /\ Len(queue) >= 1
      /\ Head(queue) = queue[1]
      /\ Tail(queue) \in Seq(1 .. MaxPackets)
      /\ Len(Tail(queue)) = Len(queue) - 1
      /\ queue[1] \in 1 .. MaxPackets
  <2>1. queue \in Seq(1 .. MaxPackets) /\ Len(queue) \in Nat /\ Len(queue) # 0
    BY DEF InOrder
  <2>2. Len(queue) >= 1 /\ 1 \in 1 .. Len(queue)
    BY <2>1
  <2>3. /\ Tail(queue) \in Seq(1 .. MaxPackets)
        /\ Len(Tail(queue)) = Len(queue) - 1
    BY <2>1, TailIsSeq
  <2>4. Head(queue) = queue[1] /\ queue[1] \in 1 .. MaxPackets
    BY <2>1, TailIsSeq
  <2> QED
    BY <2>1, <2>2, <2>3, <2>4
<1>2. \A i \in 1 .. Len(Tail(queue)) :
        /\ Tail(queue)[i] = queue[i + 1]
        /\ i + 1 \in 1 .. Len(queue)
        /\ 1 < i + 1
  <2> SUFFICES ASSUME NEW i \in 1 .. Len(Tail(queue))
               PROVE  /\ Tail(queue)[i] = queue[i + 1]
                      /\ i + 1 \in 1 .. Len(queue)
                      /\ 1 < i + 1
    OBVIOUS
  <2>1. i \in 1 .. Len(queue) - 1
    BY <1>1
  <2>2. Tail(queue)[i] = queue[i + 1]
    BY <1>1, <2>1 DEF InOrder
  <2> QED
    BY <1>1, <2>1, <2>2
<1>3. 1 \in 1 .. Len(queue)
  BY <1>1
<1>4. \A i, j \in 1 .. Len(Tail(queue)) :
        i < j => Tail(queue)[i] < Tail(queue)[j]
  <2> SUFFICES ASSUME NEW i \in 1 .. Len(Tail(queue)), NEW j \in 1 .. Len(Tail(queue)),
                      i < j
               PROVE  Tail(queue)[i] < Tail(queue)[j]
    OBVIOUS
  <2>1. i + 1 < j + 1
    OBVIOUS
  <2> QED
    BY <1>2, <2>1 DEF InOrder, QueuedInOrder
<1> QED
  BY <1>1, <1>2, <1>3, <1>4 DEF InOrder, QueuedInOrder

\* Filling buffer_ with it keeps the order, if what was there has been handed on.
LEMMA FillKeepsOrder ==
  ASSUME InOrder, op # "done", Fill, UNCHANGED <<arrived, handed>>
  PROVE  InOrder' /\ Len(queue') = Len(queue) - 1
BY HeadIsNext DEF InOrder, QueuedInOrder, Fill

LEMMA ReceiveKeepsOrder ==
  ASSUME InOrder, op # "done", AsyncReceiveFrom, UNCHANGED <<arrived, handed>>
  PROVE  InOrder' /\ Len(queue') <= Len(queue) /\ op' \in {"pending", "done"}
<1>1. CASE Fill
  <2>1. Len(queue) \in Nat
    BY DEF InOrder
  <2> QED
    BY <1>1, <2>1, FillKeepsOrder DEF Fill
<1>2. CASE queue = <<>> /\ op' = "pending" /\ UNCHANGED <<queue, buffer>>
  BY <1>2 DEF InOrder, QueuedInOrder
<1> QED
  BY <1>1, <1>2 DEF AsyncReceiveFrom

\* A packet that arrives comes after all others.
LEMMA ArriveKeepsOrder ==
  ASSUME InOrder, Len(queue) <= KernelDepth, Arrive
  PROVE  InOrder' /\ Len(queue') <= KernelDepth
<1>1. /\ arrived' = arrived + 1 /\ arrived' \in 1 .. MaxPackets
      /\ UNCHANGED <<op, buffer, handed>>
      /\ Len(queue) \in Nat
      /\ queue \in Seq(1 .. MaxPackets)
      /\ arrived \in Nat /\ buffer \in Nat /\ MaxPackets \in Nat
      /\ buffer <= arrived
  BY ReceiverAssumption DEF InOrder, QueuedInOrder, Arrive
<1>2. CASE Len(queue) < KernelDepth
  <2>1. /\ queue' = Append(queue, arrived + 1)
        /\ queue' \in Seq(1 .. MaxPackets)
        /\ Len(queue') = Len(queue) + 1
    BY <1>1, <1>2 DEF Arrive
  <2>2. /\ \A i \in 1 .. Len(queue) : queue'[i] = queue[i]
        /\ queue'[Len(queue) + 1] = arrived + 1
    BY <1>1, <2>1
  <2>3. \A i \in 1 .. Len(queue') : i \in 1 .. Len(queue) \/ i = Len(queue) + 1
    BY <1>1, <2>1
  <2>4. ASSUME NEW i \in 1 .. Len(queue')
        PROVE  buffer < queue'[i] /\ queue'[i] <= arrived'
    <3>1. CASE i \in 1 .. Len(queue)
      <4>1. buffer < queue[i] /\ queue[i] <= arrived /\ queue[i] \in 1 .. MaxPackets
        BY <1>1, <3>1 DEF InOrder, QueuedInOrder
      <4>2. queue'[i] = queue[i]
        BY <2>2, <3>1
      <4> QED
        BY <1>1, <4>1, <4>2 DEF InOrder
    <3>2. CASE i = Len(queue) + 1
      <4>1. queue'[i] = arrived + 1
        BY <2>2, <3>2
      <4> QED
        BY <1>1, <4>1
    <3> QED
      BY <2>3, <3>1, <3>2
  <2>5. \A i, j \in 1 .. Len(queue') : i < j => queue'[i] < queue'[j]
    <3> SUFFICES ASSUME NEW i \in 1 .. Len(queue'), NEW j \in 1 .. Len(queue'), i < j
                 PROVE  queue'[i] < queue'[j]
      OBVIOUS
    <3>1. i \in 1 .. Len(queue)
      BY <1>1, <2>1
    <3>2. CASE j \in 1 .. Len(queue)
      BY <2>2, <3>1, <3>2 DEF InOrder, QueuedInOrder
    <3>3. CASE j = Len(queue) + 1
      <4>1. queue[i] <= arrived /\ queue[i] \in 1 .. MaxPackets
        BY <1>1, <3>1 DEF InOrder, QueuedInOrder
      <4>2. QED
        <5>1. queue'[i] = queue[i] /\ queue'[j] = arrived + 1
          BY <2>2, <3>1, <3>3
        <5> QED
          BY <1>1, <4>1, <5>1
    <3> QED
      BY <2>3, <3>2, <3>3
  <2>6. Len(queue') <= KernelDepth
    BY <1>1, <1>2, <2>1, ReceiverAssumption
  <2> QED
    BY <1>1, <2>1, <2>4, <2>5, <2>6 DEF InOrder, QueuedInOrder
<1>3. CASE ~(Len(queue) < KernelDepth)
  <2>1. UNCHANGED queue
    BY <1>3 DEF Arrive
  <2>2. \A i \in 1 .. Len(queue) : queue[i] <= arrived'
    <3> SUFFICES ASSUME NEW i \in 1 .. Len(queue) PROVE queue[i] <= arrived'
      OBVIOUS
    <3>1. queue[i] <= arrived /\ queue[i] \in 1 .. MaxPackets
      BY <1>1 DEF InOrder, QueuedInOrder
    <3> QED
      BY <1>1, <3>1
  <2> QED
    BY <1>1, <2>1, <2>2 DEF InOrder, QueuedInOrder
<1> QED
  BY <1>2, <1>3

\* A sequence and one more element.
LEMMA AppendIsSeq ==
  ASSUME NEW S, NEW q \in Seq(S), NEW e \in S
  PROVE  /\ Append(q, e) \in Seq(S)
         /\ Len(Append(q, e)) = Len(q) + 1
         /\ \A i \in 1 .. Len(q) : Append(q, e)[i] = q[i]
         /\ Append(q, e)[Len(q) + 1] = e
         /\ Len(q) \in Nat
OBVIOUS

LEMMA InvInit == ReceiverInit => ReceiverInv
<1> SUFFICES ASSUME ReceiverInit PROVE ReceiverInv
  OBVIOUS
<1>1. InOrder
  BY ReceiverAssumption DEF ReceiverInit, InOrder, QueuedInOrder
<1>2. Joining
  BY DEF ReceiverInit, Joining, ListedSoFar, JoinedSoFar
<1>3. Threading
  <2>1. Len(queue) <= KernelDepth
    BY ReceiverAssumption DEF ReceiverInit
  <2> QED
    BY <2>1
    DEF ReceiverInit, Threading, CallbackKeepsItsPacket, NoCallbackAfterDestroy
<1> QED
  BY <1>1, <1>2, <1>3, InvParts

\* What every step but those of the constructor keeps.
LEMMA JoiningKept ==
  ASSUME Joining, UNCHANGED joinVars,
         owner' \in {"alive", "stopping"} => owner \in {"alive", "stopping"},
         owner' = "constructing" => owner = "constructing"
  PROVE  Joining'
BY DEF Joining, joinVars, ListedSoFar, JoinedSoFar

\* A list of addresses with one more holds those it held, in their places.
LEMMA GetIpAdressesKeeps ==
  ASSUME Joining, GetIpAdresses
  PROVE  Joining'
<1> DEFINE interface == interfaces[listed + 1]
<1>1. /\ interface \in Addresses
      /\ listed + 1 \in 1 .. Len(interfaces)
      /\ next = 1 /\ owner = "joining"
      /\ Len(interfaces) \in Nat /\ listed \in Nat
  BY DEF Joining, GetIpAdresses
<1>2. /\ addresses' \in Seq(Addresses)
      /\ \A j \in 1 .. Len(addresses) : /\ j \in 1 .. Len(addresses')
                                        /\ addresses'[j] = addresses[j]
  <2>1. addresses \in Seq(Addresses) /\ Len(addresses) \in Nat
    BY DEF Joining
  <2>2. CASE interface.family = "v4"
    <3>1. addresses' = Append(addresses, interface)
      BY <2>2 DEF GetIpAdresses
    <3> HIDE DEF interface
    <3> QED
      BY <1>1, <2>1, <3>1, AppendIsSeq
  <2>3. CASE interface.family # "v4"
    BY <2>1, <2>3 DEF GetIpAdresses
  <2> QED
    BY <2>2, <2>3
<1>3. interface.family = "v4" => \E j \in 1 .. Len(addresses') : addresses'[j] = interface
  <2> SUFFICES ASSUME interface.family = "v4"
               PROVE  \E j \in 1 .. Len(addresses') : addresses'[j] = interface
    OBVIOUS
  <2>1. addresses' = Append(addresses, interface) /\ addresses \in Seq(Addresses)
    BY DEF GetIpAdresses, Joining
  <2> HIDE DEF interface
  <2>2. /\ Len(addresses') = Len(addresses) + 1 /\ Len(addresses) \in Nat
        /\ addresses'[Len(addresses) + 1] = interface
    BY <1>1, <2>1, AppendIsSeq
  <2> QED
    BY <2>2
<1>4. ListedSoFar'
  <2> SUFFICES ASSUME NEW i \in 1 .. listed', interfaces'[i].family = "v4"
               PROVE  \E j \in 1 .. Len(addresses') : addresses'[j] = interfaces'[i]
    BY DEF ListedSoFar
  <2>1. interfaces' = interfaces /\ listed' = listed + 1
    BY DEF GetIpAdresses
  <2>2. i \in 1 .. listed \/ i = listed + 1
    BY <1>1, <2>1
  <2>3. CASE i \in 1 .. listed
    <3>1. PICK j \in 1 .. Len(addresses) : addresses[j] = interfaces[i]
      BY <2>1, <2>3 DEF Joining, ListedSoFar
    <3> QED
      BY <1>2, <2>1, <3>1
  <2>4. CASE i = listed + 1
    BY <1>3, <2>1, <2>4
  <2> QED
    BY <2>2, <2>3, <2>4
<1>5. UNCHANGED <<interfaces, next, joined, warned, owner>> /\ listed' = listed + 1
  BY DEF GetIpAdresses
<1>6. JoinedSoFar'
  BY <1>1, <1>5 DEF Joining, JoinedSoFar
<1> QED
  BY <1>1, <1>2, <1>4, <1>5, <1>6 DEF Joining

LEMMA JoinGroupKeeps ==
  ASSUME Joining, JoinGroup
  PROVE  Joining'
<1> DEFINE address == addresses[next]
<1>1. /\ next \in Nat /\ next' = next + 1
      /\ next \in 1 .. Len(addresses)
      /\ address \in Addresses
      /\ UNCHANGED <<interfaces, listed, addresses, owner>>
      /\ listed = Len(interfaces) /\ owner = "joining"
  BY DEF Joining, JoinGroup
<1>2. IF address.joinable THEN joined' = joined \cup {address.nic} /\ warned' = warned
                          ELSE joined' = joined /\ warned' = warned \cup {next}
  BY DEF JoinGroup
<1>3. joined' \subseteq Nics /\ warned' \subseteq Nat
  BY <1>1, <1>2 DEF Joining, Addresses
<1>4. JoinedSoFar'
  <2>1. \A i \in warned' : i < next'
    <3>1. \A i \in warned : i \in Nat /\ i < next
      BY DEF Joining, JoinedSoFar
    <3>2. \A i \in warned' : i \in warned \/ i = next
      BY <1>2
    <3> QED
      BY <1>1, <3>1, <3>2
  <2>2. ASSUME NEW i \in 1 .. Len(addresses), i < next + 1
        PROVE  IF addresses[i].joinable
                 THEN addresses[i].nic \in joined' /\ i \notin warned'
                 ELSE i \in warned'
    <3>1. Len(addresses) \in Nat /\ (i < next \/ i = next)
      BY <1>1, <2>2 DEF Joining
    <3>2. CASE i < next
      <4>1. IF addresses[i].joinable THEN addresses[i].nic \in joined /\ i \notin warned
                                     ELSE i \in warned
        BY <3>2 DEF Joining, JoinedSoFar
      <4>2. joined \subseteq joined' /\ (i \in warned' => i \in warned \/ i = next)
        BY <1>2
      <4>3. warned \subseteq warned' /\ i # next
        BY <1>1, <1>2, <3>2
      <4> QED
        BY <4>1, <4>2, <4>3, Zenon
    <3>3. CASE i = next
      <4>1. next \notin warned
        BY <1>1 DEF Joining, JoinedSoFar
      <4> QED
        BY <1>2, <3>3, <4>1
    <3> QED
      BY <3>1, <3>2, <3>3
  <2> QED
    BY <1>1, <2>1, <2>2 DEF JoinedSoFar
<1>5. ListedSoFar'
  BY <1>1 DEF Joining, ListedSoFar
<1> QED
  BY <1>1, <1>3, <1>4, <1>5 DEF Joining

LEMMA BindKeeps ==
  ASSUME Joining, Bind
  PROVE  Joining'
<1>1. /\ interfaces' \in Seq(Addresses) /\ addresses' \in Seq(Addresses)
      /\ UNCHANGED <<listed, next, joined, warned>>
      /\ listed = 0 /\ owner' = "joining"
  <2>1. PICK given \in InterfaceAddresses :
          /\ addresses' = given
          /\ interfaces' \in IF given = <<>> THEN InterfaceLists ELSE {<<>>}
    BY DEF Bind
  <2>2. addresses' \in Seq(Addresses) /\ <<>> \in Seq(Addresses)
    BY <2>1, ReceiverAssumption
  <2>3. interfaces' \in Seq(Addresses)
    BY <2>1, <2>2, ReceiverAssumption
  <2> QED
    BY <2>2, <2>3 DEF Joining, Bind
<1>2. Len(interfaces') \in Nat
  BY <1>1
<1>3. next = 1 /\ \A i \in warned : i < next
  BY DEF Joining, JoinedSoFar, Bind
<1> QED
  BY <1>1, <1>2, <1>3 DEF Joining, ListedSoFar, JoinedSoFar

LEMMA StartThreadKeeps ==
  ASSUME InOrder, Joining, Threading, StartThread
  PROVE  InOrder' /\ Joining' /\ Threading'
<1>1. op = "none" /\ thread = "unstarted" /\ buffer = handed
  BY DEF StartThread, InOrder, Threading
<1>2. InOrder' /\ Len(queue') <= Len(queue) /\ op' \in {"pending", "done"}
  BY <1>1, ReceiveKeepsOrder DEF StartThread
<1>3. Joining'
  BY DEF StartThread, Joining, joinVars, ListedSoFar, JoinedSoFar
<1>4. Threading'
  <2>1. Len(queue') <= KernelDepth
    BY <1>2, ReceiverAssumption DEF InOrder, Threading
  <2> QED
    BY <1>2, <2>1
    DEF StartThread, Threading, CallbackKeepsItsPacket, NoCallbackAfterDestroy
<1> QED
  BY <1>2, <1>3, <1>4

\* The invariant is inductive.
LEMMA InvNext == ReceiverInv /\ [ReceiverNext]_receiverVars => ReceiverInv'
<1> SUFFICES ASSUME InOrder, Joining, Threading, [ReceiverNext]_receiverVars
             PROVE  InOrder' /\ Joining' /\ Threading'
  BY DEF ReceiverInv, ReceiverTypeOK, InOrder, Joining, Threading
<1>1. /\ Len(queue) \in Nat /\ Len(queue) <= KernelDepth /\ KernelDepth \in Nat
  BY ReceiverAssumption DEF Threading, InOrder
<1>2. CASE Arrive
  <2>1. InOrder' /\ Len(queue') <= KernelDepth
    BY <1>1, <1>2, ArriveKeepsOrder
  <2>2. Threading'
    BY <1>2, <2>1
    DEF Arrive, Threading, CallbackKeepsItsPacket, NoCallbackAfterDestroy
  <2>3. Joining'
    BY <1>2, JoiningKept DEF Arrive
  <2> QED
    BY <2>1, <2>2, <2>3
<1>3. CASE Bind \/ GetIpAdresses \/ JoinGroup
  <2>1. Joining'
    BY <1>3, BindKeeps, GetIpAdressesKeeps, JoinGroupKeeps
  <2>2. UNCHANGED ioVars /\ owner \in {"constructing", "joining"} /\ owner' = "joining"
    BY <1>3 DEF Bind, GetIpAdresses, JoinGroup
  <2>3. InOrder'
    BY <2>2 DEF ioVars, InOrder, QueuedInOrder
  <2>4. Threading'
    BY <2>2 DEF ioVars, Threading, CallbackKeepsItsPacket, NoCallbackAfterDestroy
  <2> QED
    BY <2>1, <2>3, <2>4
<1>4. CASE BindThrows
  <2>1. Joining'
    BY <1>4, JoiningKept DEF BindThrows
  <2>2. InOrder'
    BY <1>4 DEF BindThrows, ioVars, InOrder, QueuedInOrder
  <2>3. Threading'
    BY <1>4 DEF BindThrows, ioVars, Threading, CallbackKeepsItsPacket, NoCallbackAfterDestroy
  <2> QED
    BY <2>1, <2>2, <2>3
<1>5. CASE StartThread
  BY <1>5, StartThreadKeeps
<1>6. CASE ReactorFills
  <2>1. InOrder' /\ Len(queue') <= KernelDepth
    BY <1>1, <1>6, FillKeepsOrder DEF ReactorFills
  <2>2. Threading'
    BY <1>6, <2>1
    DEF ReactorFills, Fill, Threading, CallbackKeepsItsPacket, NoCallbackAfterDestroy
  <2>3. Joining'
    BY <1>6, JoiningKept DEF ReactorFills
  <2> QED
    BY <2>1, <2>2, <2>3
<1>7. CASE CallbackReturns
  <2>1. op = "none"
    BY <1>7 DEF CallbackReturns, Threading, CallbackKeepsItsPacket
  <2>2. InOrder' /\ Len(queue') <= Len(queue) /\ op' \in {"pending", "done"}
    BY <1>7, <2>1, ReceiveKeepsOrder DEF CallbackReturns
  <2>3. Len(queue') <= KernelDepth
    BY <1>1, <2>2 DEF InOrder
  <2>4. Threading'
    BY <1>7, <2>2, <2>3
    DEF CallbackReturns, Threading, CallbackKeepsItsPacket, NoCallbackAfterDestroy
  <2>5. Joining'
    BY <1>7, JoiningKept DEF CallbackReturns
  <2> QED
    BY <2>2, <2>4, <2>5
<1>8. CASE HandleReceived \/ HandleError \/ ReceiveFails \/ RunReturns \/ Stop
           \/ UNCHANGED receiverVars
  <2>1. InOrder'
    BY <1>8
    DEF HandleReceived, HandleError, ReceiveFails, RunReturns, Stop, receiverVars, ioVars,
        InOrder, QueuedInOrder
  <2>2. Threading'
    BY <1>8
    DEF HandleReceived, HandleError, ReceiveFails, RunReturns, Stop, receiverVars, ioVars,
        Threading, CallbackKeepsItsPacket, NoCallbackAfterDestroy
  <2>3. Joining'
    BY <1>8, JoiningKept
    DEF HandleReceived, HandleError, ReceiveFails, RunReturns, Stop, receiverVars
  <2> QED
    BY <2>1, <2>2, <2>3
<1>9. CASE Destroy
  <2>1. InOrder' /\ Len(queue') <= KernelDepth
    BY <1>1, <1>9 DEF Destroy, InOrder, QueuedInOrder
  <2>2. Threading'
    BY <1>9, <2>1 DEF Destroy, Threading, CallbackKeepsItsPacket, NoCallbackAfterDestroy
  <2>3. Joining'
    BY <1>9, JoiningKept DEF Destroy
  <2> QED
    BY <2>1, <2>2, <2>3
<1> QED
  BY <1>2, <1>3, <1>4, <1>5, <1>6, <1>7, <1>8, <1>9 DEF ReceiverNext, Construct, IoThread

LEMMA Invariance == ReceiverSpec => []ReceiverInv
BY InvInit, InvNext, PTL DEF ReceiverSpec

-----------------------------------------------------------------------------
(***************************************************************************)
(* Theorems.                                                               *)
(***************************************************************************)
\* Every variable keeps its type, and the socket's queue its depth.
THEOREM TypeCorrect == ReceiverSpec => []ReceiverTypeOK
<1>1. ReceiverInv => ReceiverTypeOK
  BY DEF ReceiverInv
<1> QED
  BY Invariance, <1>1, PTL

\* Whatever the interfaces are and whichever of them refuse, those that let the group
\* be joined are joined before the thread starts, and the others are warned of.
THEOREM AllAreJoined == ReceiverSpec => []JoinsWhatItCan
<1>1. ASSUME ReceiverInv, owner = "alive" PROVE JoinsWhatItCan
  <2>1. Joining /\ Len(interfaces) \in Nat /\ Len(addresses) \in Nat
    BY <1>1, InvParts DEF Joining
  <2>2. listed = Len(interfaces) /\ next > Len(addresses) /\ next \in Nat
    BY <1>1, <2>1 DEF Joining
  <2>3. ASSUME NEW i \in 1 .. Len(addresses)
        PROVE  IF addresses[i].joinable THEN addresses[i].nic \in joined /\ i \notin warned
                                        ELSE i \in warned
    <3>1. i < next
      BY <2>1, <2>2
    <3> QED
      BY <2>1, <3>1 DEF Joining, JoinedSoFar
  <2>4. ASSUME NEW i \in 1 .. Len(interfaces),
               interfaces[i].family = "v4", interfaces[i].joinable
        PROVE  interfaces[i].nic \in joined
    <3>1. PICK j \in 1 .. Len(addresses) : addresses[j] = interfaces[i]
      BY <2>1, <2>2, <2>4 DEF Joining, ListedSoFar
    <3> QED
      BY <2>3, <2>4, <3>1
  <2> QED
    BY <2>3, <2>4 DEF JoinsWhatItCan
<1>2. ReceiverInv => JoinsWhatItCan
  BY <1>1 DEF JoinsWhatItCan
<1> QED
  BY Invariance, <1>2, PTL

\* The callback's packet is not overwritten while it reads it.
THEOREM PacketIsKept == ReceiverSpec => []CallbackKeepsItsPacket
<1>1. ReceiverInv => CallbackKeepsItsPacket
  BY DEF ReceiverInv
<1> QED
  BY Invariance, <1>1, PTL

\* No callback runs or starts once the members of the receiver are gone.
THEOREM DestructorIsLast == ReceiverSpec => []NoCallbackAfterDestroy
<1>1. ReceiverInv => NoCallbackAfterDestroy
  BY DEF ReceiverInv
<1> QED
  BY Invariance, <1>1, PTL

\* Packets are handed on in the order of their arrival, none of them twice.
THEOREM OrderIsKept == ReceiverSpec => HandedInOrder
<1>1. ASSUME ReceiverInv, [ReceiverNext]_receiverVars,
             thread' = "callback", thread # "callback"
      PROVE  handed' > handed
  <2>1. HandleReceived
    BY <1>1
    DEF ReceiverNext, Construct, IoThread, receiverVars, ioVars, Arrive, Bind, BindThrows,
        GetIpAdresses, JoinGroup, StartThread, ReceiveFails, ReactorFills, CallbackReturns,
        HandleError, RunReturns, Stop, Destroy
  <2> QED
    BY <1>1, <2>1 DEF HandleReceived, ReceiverInv, ReceiverTypeOK
<1>2. ReceiverInv /\ [ReceiverNext]_receiverVars
        => [thread' = "callback" /\ thread # "callback" => handed' > handed]_receiverVars
  BY <1>1
<1> QED
  BY Invariance, <1>2, PTL DEF ReceiverSpec, HandedInOrder
=============================================================================
