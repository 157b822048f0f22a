# Verification of ssl_ros_bridge

TLA+ models of the bridge between the software of the RoboCup Small Size League
(SSL) and ROS 2, checked with TLC, with theorems checked by TLAPS. Every
definition is a translation of the C++ code; `PROJECT.json` (`map`) names the
lines each one stands for.

Paths are under `src/ssl_ros_bridge/src/` unless they start with `src/`.

## 1. Inventory

| Component | Source | State it keeps | Operations |
|---|---|---|---|
| Team client node | `team_client/team_client_node.cpp`, `team_client.{hpp,cpp}` | `connected_`, the TCP socket and what it has received, `buffer_`, the parameter `gc_ip_address` | constructor, four services, ping timer; under them `Connect`, `AttemptToConnectSocket`, `AttemptToRegister`, `SendRequest`, `WaitForReply`, `Disconnect` |
| GC multicast bridge node | `game_controller_bridge/gc_multicast_bridge_node.cpp` | `team_client_connected_`, `last_reconnect_attempt_time_`, pending service requests | `PublishMulticastMessage` (receiver's I/O thread), `TeamClientConnectionStatusCallback` (executor thread) |
| Multicast receiver | `core/multicast_receiver.{hpp,cpp}` | `buffer_`, `sender_endpoint_`, whether a receive is pending, the groups joined, the I/O thread | constructor, receive loop, destructor; `SendTo`, which nothing calls |
| log2bag | `log2bag/log2bag.cpp`, `log_reader.{hpp,cpp}` | position and flags of the input stream, entry counts, the bag | `main`, `RenderProgressBar`, `CheckHeader`, `GetNextMessage`, `ExtractNextEntry` |
| Vision bridge node | `vision_bridge/ssl_vision_bridge_node.cpp` | its publisher and its receiver, by their lifetimes | construct, parse, convert, publish, destroy |
| Message conversion | `core/message_conversion.{hpp,cpp}` | none | `fromProto` overloads |
| Interface addresses | `core/get_ip_addresses.cpp` | none | one walk over a list |
| Protobuf logging; messages, services, launch files | `core/protobuf_logging.hpp`, `src/ssl_league_msgs`, `src/ssl_ros_bridge_msgs`, `src/ssl_ros_bridge/launch` | none | - |

### Interactions

```
 game controller (GC) --UDP multicast--> MulticastReceiver --callback--> GC bridge --> /referee_messages
        ^                                 (own I/O thread)                 |   ^
        | TCP, length-delimited                        reconnect service  |   | connection_status topic,
        | protobuf, one reply per message              (request/response) v   | published by the ping
        +----------------------------------------------------------- team client node <-- users' services
 SSL vision ---UDP multicast--> MulticastReceiver --callback--> vision bridge --> /vision_messages
 log file --> LogReader --> log2bag's main --> bag
```

### What is hard

* **Team client.** One TCP stream carries the greeting, the registration's answer
  and all other answers, with nothing that tells whose answer a reply is.
  `WaitForReply` polls for a second, takes whatever has arrived, and forgets a
  reply that comes later. Failures leave `Connect` at five places, some with
  the socket closed, some with it open. `SendRequest` writes with a call that
  throws, and nothing catches. Everything blocks the node's only thread.
* **Discovery.** The bridge looks at a flag that two threads write without a lock
  and that news from another process make stale; it waits two seconds for an
  answer that may come later, never, or to a process that has been replaced.
* **Receiver and vision bridge.** One buffer, handed by reference to a callback that
  may block for seconds; a thread that runs before the node that owns it is
  constructed and until it is destroyed, in another thread; joins that fail on
  one interface and not on the next.
* **Log reader.** Logs end anywhere, or grow; lengths come from the file; reads and
  writes fail halfway.
* **Message conversion.** Some three hundred assignments by hand, in three forms (plain,
  optional, repeated) and two units, between declarations in other packages;
  times pass through integers of four widths and through a double.

### What makes each correct

* Team client: an answer is the GC's answer to that very request; "connected"
  means registered with the configured GC; the process dies only when it must;
  every call ends; a dead connection is noticed.
* Bridge: a belief in a connection comes from a connection; the publication of
  referee messages never stops for good; discovery settles.
* Receiver and vision bridge: it listens wherever it can; the callback's packet stays
  as it is and its publisher is there; order; nothing runs after the destructor;
  it keeps listening.
* Log reader: what is in the log, and only that, is in the bag; it stops.
* Message conversion: every field arrives, in its own place, with its values, its
  unit and its time, and one that was not sent does not.

## 2. The modules

| Module | Models | How |
|---|---|---|
| `TeamClient` | `TeamClientNode` and `TeamClient`, the socket, the stream and the GC | `step` is where the node's only thread is; one action per handler up to the first point it blocks at, and one per outcome of `connect` and of `WaitForReply` (`PollEmpty`, `Timeout`, `TcpError`, `Read`), each carrying on with the code after it (`HelloReply`, `RegisterReply`, `ServiceReply`, `PingReply`). `chan` counts the replies owed, those written, and how many halves of them the socket has received |
| `ConnectionService` | what the node promises, with no sockets, messages or time | abstract specification; `TeamClient!Service` is its refinement mapping (`phase` from `step`, `peer` from `connected` and `server`) |
| `GcBridge` | the bridge's two threads and the ROS queues | a step for the look at the flag, one for the request, the two ends of the wait, and one for the store of `true`: other threads run in between |
| `Discovery` | the bridge with the team client | extends `GcBridge`, instantiates `ConnectionService` for the client: what is shown of the bridge rests on what the client is shown to implement |
| `MulticastReceiver` | the constructor with `GetIpAdresses` and the joins, the receive loop, its thread and the destructor | `owner` is where the owner's thread is; an action for each interface looked at and each address joined on; the socket's queue, the state of the one receive operation, the I/O thread |
| `VisionBridge` | the vision bridge node | extends `MulticastReceiver`: its members' lifetimes around the receiver's, and a callback in three steps (called, published or not, returned), between which the other thread and the network go on |
| `LogReader` | `LogReader` and `main` | a file is a sequence of 16-byte chunks; an action for the header check and for opening the bag, one per path through `ExtractNextEntry`, and those of the world: the file grows, the medium fails |
| `LeagueProtobufs` | the `.proto` files | for each message its required, optional and repeated fields and its oneof |
| `TimeStamps` | the conversions of times | arithmetic on integers of constant widths |
| `MessageConversion` | every `fromProto` | an overload is the set of its assignments, a message the number of values in each field; `Converted` is what the assignments make of it |
| `MCTeamClient`, `MCDiscovery`, `MCVisionBridge`, `MCMessageConversion` | - | sets of model values and instances for TLC |
| `TeamClientProofs`, `DiscoveryProofs`, `MulticastReceiverProofs`, `VisionBridgeProofs`, `LogReaderProofs`, `OverloadProofs`, `MessageConversionProofs` | - | theorems about the module of that name, and lemmas about the overloads (section 5) |
| `SequenceInduction` | - | induction on the natural numbers, and what a concatenation of sequences holds |

A definition marked `\* mutant:` is not part of the model: it is a plausible bug
in the definition that follows it, named in `PROJECT.json` (`mutants`) with the
property that must fail when it takes that definition's place.

### Abstractions

* *Replies* are OK, refused, without a status code, or without a reply part.
  Keeper numbers, team names, colours, tokens and reasons play no part in the
  control and are left out, and so is what an uninitialised team colour or
  advantage choice is sent as (`team_client_node.cpp:111`, `:178`).
* *Bytes* are halves of a reply. That keeps what matters: a read may end inside
  a reply, or take several, and one that starts inside a reply can parse as
  anything. `BufferSize` is the number of halves `buffer_` holds.
* *Time* is order. A wait has `MaxPolls` sleeps and then its deadline. The bridge's
  retry time (1 s) is shorter than its wait (2 s): it has passed when the wait
  times out.
* *The data race* on `team_client_connected_`: a plain `bool`, loaded and stored
  whole by the builds of this code, so its outcomes are the interleavings of
  the loads and stores.
* *Crashes*: an exception that leaves a callback ends the process; the launch
  files respawn it with their parameters. A request in the node's queue is lost
  with it, one sent while it is down is lost too.
* *Addresses* a user names in `Discovery` are well formed; malformed ones are in
  `TeamClient`.
* *Logs*: a header read in the middle of a payload says anything. One type stands
  for all the types the reader skips, size -1 for a size it cannot allocate. A file
  grows once, to all that is logged; an error of the medium is for good. The
  progress bar counts in 8-byte units; 2^64 characters are never drawn.
* *Interfaces* are addresses with a family, the nic they are on and whether the nic
  lets the group be joined; a second address of a nic fails with EADDRINUSE,
  which the code passes over.
* *Packets* are numbers, the order of their arrival, and of one of three kinds: whole,
  unparsable, or longer than the buffer. The last may still parse when cut.
* *Converted values* are known by the field and the place they came from and by their
  unit; what the number is matters for times only. A message within a message is
  one value: its own overload, chosen by the compiler by type, converts it. Points
  that an overload takes apart are declared by their coordinates.
* *Time stamps*: 1000, 10^9, 2^64 and 2^32 are constants, and so is the distance of two
  doubles (256 ns at today's seconds).

## 3. The runs

| Run | Specification, bounds | Shows |
|---|---|---|
| `team_client` | `FairSpec`; 2 servers, 2 polls, buffer of 3 halves, 2 replies owed | the invariants below, `DiesOnlyOfReset`, `ImplementsService`, `HandlersReturn`, `DeadLinkNoticed` |
| `discovery` | `FairSpec`; 1 sender and 1 other server, requests queued 3 deep, 2 troubles | `NoFalseDiscovery`, `RefereeKeepsFlowing`, `Settles` |
| `vision_bridge` | `FairSpec`; socket queue of 2, 4 packets of any kinds, 3 machines, 3 values of `net_interface_address` | joins, publisher, buffer, order, destructor, liveness |
| `log` | `FairSpec`; 3 entries of at most 1 chunk, cut off anywhere | `TranslatesKnownLog`, `OnlyLogsMakeBags`, `BarEnds`, `Terminates` |
| `conversion` | `Spec`; every message, at most 2 values in a repeated field, small widths and 9 instants | fields, units, times |
| `late_reply`, `blank_reconnect`, `ping_crash`, `reconfigures_connected`, `receiver_deaf`, `log_counts`, `conversion_drops` | as small as shows it | counterexamples (section 4) |

**Team client.** `TruthfulUnlessLapsed`: while every wait on a connection got its
reply, an answer is a success exactly when the GC's reply to that request was
OK. `ConnectTruthful`: a connect answered success leaves the client connected to
the configured address with its registration taken, never a greeting mistaken
for it. `InStepUnlessLapsed` is why: nothing is owed and nothing is in the stream
between handlers. `StepAgreesWithSocket`: the thread, the flag and the socket
agree, so that no request is written to a socket the node closed or never
connected. `DiesOnlyOfReset`: only a reset connection or a malformed address
kills the process. `DeadLinkNoticed`: pings find out that the GC is gone whatever
old replies are still in the receive buffer.

**Discovery.** `NoFalseDiscovery`: no answer that connects nothing is taken for a
discovery; in particular the success of a blank reconnect without address
(`team_client_node.cpp:105`) never reaches the bridge, as its requests carry the
sender's address. `RefereeKeepsFlowing`: the I/O thread returns to the packets
whatever becomes of its request. `Settles`: once failures are over the client stays
connected and the bridge knows, although requests that timed out are still
queued and tear the connection down once each.

**Vision bridge and receiver.** `JoinsWhatItCan`: once it listens it does so on every
interface that lets it, whichever others fail before, and the log tells of those
that failed. `PublisherOutlivesCallback`: only the order of two members
(`ssl_vision_bridge_node.cpp:58`) keeps the thread, started inside the
constructor, from a publisher that is not there. `CallbackKeepsItsPacket`,
`HandedInOrder`, `NoCallbackAfterDestroy`, `DestructorReturns`: the one buffer and the
two threads. `PublishedInOrder` joins them: what is published is what was received,
in order, once, nothing for garbage, and cut only if the packet was longer than the
buffer. `PublishesUntilError`: every whole packet the socket holds is published, as
far as the code goes (section 4).

**Log reader.** `TranslatesKnownLog`: whatever fails, the bag of a log of known types
holds its first messages, in order, none invented; all of them if the program
succeeds, also if the file was cut anywhere or has grown. `OnlyLogsMakeBags`: a foreign
file leaves no bag, an existing bag stays. `BarEnds`: the unsigned number of spaces of
the progress bar (`log2bag.cpp:65`) cannot wrap unless the file outgrows the size taken
at the start; then it does, and the program hangs. `Terminates`: the reader stops on
every file, also on one whose entries it has lost track of, except for that and for
an error of the medium, on which `GetNextMessage` loops (`log_reader.cpp:44`).

**Message conversion.** `TypeOK`: a ROS field holds one default, or values that were sent
of one protobuf field, as many as were sent; a time is one that a `builtin_interfaces::Time`
can hold. `EverySetFieldArrives`: of every message a field that is set arrives with its
values in their order, but for two kinds. `Undeclared` ones have no place in the ROS message
(the recursion of `MultipleFouls`, models and shapes of the field, image sizes of cameras);
`Unfilled` ones have, and the overload does not fill it: the twelve of `conversion_drops`
(section 4). `NoFieldTakesAnothers`: none arrives in another's place; for a field of another
name in the ROS message (`pixel_x`, `q0` to `q3`) it says only that it arrives once, so two
of them swapped are not seen. `AbsenceIsVisible`: a field that is not set is an empty array;
those the ROS message declares plainly are listed in `ReadAsDefault`. `LengthsInMetres`: the
lengths whose `.proto` comment says millimetres are scaled; of thickness, radius, a camera's
position and a robot's height no file tells the unit, and nothing is said. `StampsKeepTime`:
the stamps of the referee's packets and the capture times of frames are right up to 2038,
where `sec` ends; of the other times only the unit is modelled.

### Why the bounds are enough

Two servers: a reconnect can go elsewhere, and no code compares more than two
addresses. Two replies owed and a buffer of three halves: a late reply and the one
waited for, read whole, in parts or together, or more than fits. Two polls: a
reply comes before, between and after them. Three queued requests: one served,
one waiting, one that pushes another out (the code's depth is ten). Two
troubles: a failure and another one during recovery. Four packets for a queue of
two: drops before and during a callback, and one after it. The machines: none found, all
join, and one with a refusal, an IPv6 address, an interface without address, a
second address before the last one that joins and nothing but an interface without address
after it. Three entries: one before and
one after the one that is damaged. The conversions are finite tables, checked in
whole; two values tell the order in a repeated field; the widths are small enough
for the instants to pass the ends of `sec` and of the nanoseconds' int64. Every invariant and every property
of a step that these runs check is also a theorem (section 5), which holds for every
bound.

`CHECK_DEADLOCK FALSE` is used where the program may stop: the vision bridge after its
destructor, log2bag after its file, a conversion when it has returned.

### Fairness

* Team client: the launch files respawn it (`respawn="True"`); `connect()` and the
  poll loop go on by themselves (the loop sleeps 100 ms and has a deadline); the
  executor takes ready timers before services, so the ping is not starved
  (strong fairness: the handlers make it wait again and again).
* Discovery: both threads of the bridge run, and the client's handlers end
  (`HandlersReturn`); the GC multicasts all the time; ready services are served again and again.
* Vision bridge: the constructor goes on once the socket is bound, the I/O thread
  runs, the callback, which waits for nothing, returns, and a destructor that can
  go on does; nothing is assumed of arrivals, errors or of when the node is destroyed.
* Log reader: `main` runs; the file need not grow and the medium need not fail.

## 4. What the code does and the repository says otherwise

| Run | The code | The repository |
|---|---|---|
| `late_reply` | after one late reply every request is answered with the reply to the one before (`team_client.cpp:245`) | "the result of the last request" (`src/ssl_league_protobufs/proto/ssl_gc_rcon.proto:7`) |
| `blank_reconnect` | a blank reconnect with no address configured answers success and does nothing (`team_client_node.cpp:105`) | "If blank, will reconnect to the last used address." (`src/ssl_ros_bridge_msgs/srv/ReconnectTeamClient.srv:3`) |
| `ping_crash` | the ping over a reset connection throws out of the timer callback and ends the process (`team_client.cpp:242`) | "to test if the connection is still open" (`src/ssl_league_protobufs/proto/ssl_gc_rcon_team.proto:30`) |
| `reconfigures_connected` | a request queued before the client connected is served after, and tears the connection down (`gc_multicast_bridge_node.cpp:93`) | "will only reconfigure the team client node if it is not already connected" (`src/README.md:106`) |
| `receiver_deaf` | one failed receive ends the I/O thread for good (`multicast_receiver.cpp:141`) | "This node listens for the multicast vision messages sent by ssl-vision and publishes them into ROS." (`src/README.md:77`) |
| `log_counts` | entries are counted before they are known to be whole and to parse (`log_reader.cpp:95`) | "Translated entries:" (`log2bag.cpp:111`) |
| `conversion_drops` | of a game event, none of ten kinds is copied (`core/message_conversion.cpp:127`); nor are `reason` of a failed penalty kick (`:490`) and `nearest_own_bot_distance` of a failed placement (`:497`) | "closely mirror the league protobufs" (`src/README.md:53`), and the ROS messages declare all twelve fields (`src/ssl_league_msgs/game_controller/msg/GameEvent.msg:42` to 51, `PenaltyKickFailed.msg`, `PlacementFailed.msg`); the ten kinds are marked as deprecated in the `.proto` file |

## 5. What is proved

All for every set of servers and senders and every bound.

**`TeamClientProofs`.** `IInv` (in `TeamClient`) is the conjunction of the run's
invariants, which is inductive as a whole; the parts that matter are not by
themselves. `TypeOK` needs the stream to be well formed, which is arithmetic over halves
(`ConsumedIsChannel`); `TruthfulUnlessLapsed` needs `InStepUnlessLapsed` to know
that the reply read is the one to the last request (`ReadInStep`); that needs
`StepAgreesWithSocket` to know that a registered connection starts in step. From
it: `TypeCorrect`, `Truthful`, `ConnectIsTruthful`, `InStep`, `StepAgrees`,
`DeathIsOfReset` (an action property), and `NodeImplementsService`: initial states
map to initial states of `ConnectionService` and every step to a step or a
stutter.

**`DiscoveryProofs`.** `IInv` (in `Discovery`) strengthens `NoFalseDiscovery` to
everything on its way to the flag: successes in the response queue or in the
future, connected statuses in theirs, the I/O thread about to store, a ping
under way, a connect that has an address. It is split into the client's, the
threads' and the queues' parts; the queues' part says that they are sequences
over the set of *true* messages, which pushing, taking and giving up preserve.
`TypeCorrect`, `DiscoveryIsTrue`.

**`MulticastReceiverProofs`.** `ReceiverInv` (in `MulticastReceiver`) has three parts. Of the
socket: the queue is in order above the buffer, and the buffer has been handed on
unless it has just been filled. Of the constructor: every IPv4 interface looked at is
among the addresses, and those before the next one are joined or warned of. Of the
threads: where the owner and the I/O thread can be together. `TypeCorrect`,
`AllAreJoined`, `PacketIsKept`, `DestructorIsLast`, `OrderIsKept`.

**`VisionBridgeProofs`.** `ImplementsReceiver`: every step of the node is one of
`MulticastReceiver`'s or a stutter, so the receiver's theorems hold in the node
(`NodeJoinsAll`, `NodeKeepsPacket`, `NodeDestructorIsLast`, `NodeHandsInOrder`). `NodeInv` adds
that the callback is where the I/O thread is, that the publisher is missing only
before the receiver exists and gone only after it, and that the last packet published is
no later than the last handed on: `NodeTypeCorrect`, `PublisherIsThere`,
`MessagesInOrder`.

**`SequenceInduction`, `LogReaderProofs`.** A log is the concatenation (`FlattenSeq`) of
its entries' chunks, so all that is said of the reader rests on where an entry starts,
which is induction over the log. `SetInduction` is induction stated for a *set* of
numbers, from the library's fact that `<` is well founded on them (an induction theorem
whose parameter is an operator cannot be used by the provers installed here).
`FlattenLayout` follows: each sequence is in the concatenation where those before
it end, and nothing else is. `IInv` (in `LogReader`) adds to the run's invariants:

* the file is a beginning of what is logged, except for a part of a chunk at its
  end (`FileInv`): without it a reader that loses nothing could still find another
  entry's header;
* it stands among the whole chunks until it has seen the end (`ReaderInv`): the part
  of a chunk is read once, and sets `eof`;
* in a log of known types it stands exactly behind some first entries, and the
  messages written are those of these entries (`MessagesInv`). `TranslatesKnownLog` alone
  does not say where the reader stands, and an entry read from the wrong place can be
  anything; and at `eof` it must know that no whole entry is left.

From it: `TypeCorrect`, `KnownLogIsTranslated`, `BagIsOfALog` and `BarIsDrawn`, the last by
arithmetic: (percent of a size no larger than the whole) of the bar is no wider than the
bar.

**`OverloadProofs`, `MessageConversionProofs`.** The overloads are tables, and the proof
goes by the message: `Faithful` says of one overload that every field is read that is not left
out, a repeated or optional one with as many values as it has, a length with its scale, and
that no two assignments read or write the same field. `OverloadsFaithful` shows it for each
message, its overload beside its `.proto` declaration; the many events that have a team and
optional fields follow from one lemma (`TeamEventFaithful`). `ProtoIncludes` and
`ConversionIncludes` show that joining the tables loses no row. With the invariant that a
call has a message that the parser accepts and returns what the overload makes of it
(`Invariant`) they give `TypeCorrect`, `FieldsArrive`, `FieldsAreNotMixed`,
`AbsenceIsKept` and `LengthsAreScaled`, whatever the length of a repeated field.

For all units, widths and instants: `MicrosecondsExact`, `SecondsClose`,
`FramesKeepOrder`, and from them `StampsAreKept`. They rest on lemmas on division with
remainder (`Nanoseconds(RosTime(ns)) = ns`) and on rounding to a multiple.

Assumptions: those named in the modules (`AddressAssumption`, `BoundAssumption`,
`GcBridgeAssumption`, `DiscoveryAssumption`, `ReceiverAssumption`, `LogAssumption`,
`TimeAssumption`, `ConversionAssumption`),
which TLC evaluates in the runs.

**Only model-checked:** what needs fairness or `ENABLED`, which the provers do not reach
(`HandlersReturn`, `DeadLinkNoticed`, `RefereeKeepsFlowing`, `Settles`,
`PublishesUntilError`, `DestructorReturns`, `Terminates`). No safety property is left to
TLC alone. The counterexamples of section 4 are TLC's, too.

## 6. What is not modelled

Protobuf logging (it redirects log lines) and the declarations of messages, services and
launch files; the command line of log2bag and the bag's format; `SendTo`, which has no
caller; IPv6 addresses, which no caller asks for; parameters other than
`gc_ip_address` and `net_interface_address`; interfaces that come up after the
constructor, which are never joined; the advantage choice that the GC keeps of a team and
a reconnect resets (`src/ssl_league_protobufs/proto/ssl_gc_rcon_team.proto:36`), as nothing
in this code stores it; memory held by requests whose future was given up
(`gc_multicast_bridge_node.cpp:105`).

## 7. State of the plan

Done: the team client with its abstract specification, discovery, the vision bridge
composed with the receiver, the log reader with its failures, message conversion;
the proofs of all their safety properties.

Left, should the project go on:

1. `Discovery`: several senders, and `MulticastReceiver` under `GcBridge` in place of the
   free choice of packets.
2. Proofs: that `Discovery`'s client is what `TeamClient` provides, composed; bounds on how
   far answers lag behind once a wait has lapsed; the steps behind the liveness
   properties (what a step towards the end never undoes), without the fairness.
