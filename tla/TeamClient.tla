----------------------------- MODULE TeamClient -----------------------------
(***************************************************************************)
(* The team client node: class TeamClientNode (team_client_node.cpp) with  *)
(* the TeamClient it owns (team_client.cpp), the TCP byte stream its socket *)
(* reads, and the game controller (GC) at the other end of that stream.    *)
(*                                                                         *)
(* The node spins a single-threaded executor, so one handler runs at a     *)
(* time and a handler that waits for the GC blocks the node.  `step' is    *)
(* where the thread is: "down" (no process), "spinning" (in the executor), *)
(* "connecting" (in socket_.connect), or in WaitForReply for the GC's      *)
(* greeting ("hello"), for the answer to the registration ("register") or  *)
(* to a request ("request").  `call' is the handler that runs, or ran last. *)
(*                                                                         *)
(* Byte counts are abstracted to halves of a message: that is what tells a *)
(* read that ends inside a reply from one that ends between two replies.   *)
(***************************************************************************)
EXTENDS Integers, Sequences

CONSTANTS Servers,         \* addresses a GC may be listening on
          NoAddress,       \* the empty gc_ip_address
          Malformed,       \* a gc_ip_address that is no IP address
          InitialAddress,  \* gc_ip_address the launch file gives the process
          MaxPolls,        \* sleeps of WaitForReply's loop before its deadline
          BufferSize,      \* halves of a reply that fit buffer_
          MaxOwed          \* bound: replies outstanding on one connection

Addresses == Servers \cup {NoAddress, Malformed}

ASSUME AddressAssumption ==
  /\ NoAddress \notin Servers
  /\ Malformed \notin Servers
  /\ NoAddress # Malformed
  /\ InitialAddress \in Addresses

ASSUME BoundAssumption ==
  /\ MaxPolls \in Nat \ {0}
  /\ BufferSize \in Nat \ {0, 1}
  /\ MaxOwed \in Nat \ {0}

VARIABLES step,       \* where the node's only thread is
          call,       \* the handler that runs or ran last
          connected,  \* TeamClient::connected_
          link,       \* socket_: closed, open (not connected), up, fin, rst
          server,     \* the address socket_ is connected to
          address,    \* the parameter gc_ip_address
          polls,      \* sleeps so far in WaitForReply
          chan,       \* the GC's replies the client has not read yet
          answer,     \* what the last handler answered or published
          verdict,    \* the GC's reply to the request of that handler
          lapsed      \* history: on this connection a wait ended with no reply

procVars == <<step, call, polls, address>>
sockVars == <<connected, link, server, chan, lapsed>>
respVars == <<answer, verdict>>
vars == <<step, call, connected, link, server, address, polls, chan,
          answer, verdict, lapsed>>

Waiting    == {"hello", "register", "request"}
Connects   == {"start", "reconnect"}
Requests   == {"set_desired_keeper", "substitute_bot", "set_advantage_choice"}
Calls      == Connects \cup Requests \cup {"ping"}

-----------------------------------------------------------------------------
(***************************************************************************)
(* What the GC can answer: status OK; another status; a ControllerReply    *)
(* without the optional status code; a ControllerToTeam without reply.     *)
(***************************************************************************)
Reply == {"ok", "rejected", "absent", "empty"}

\* A status code other than OK refuses the greeting or the registration; one
\* that is not there does not.
WelcomeAnyStatus(r) ==  \* mutant: the status code is not looked at
  r \in {"ok", "rejected", "absent"}
Welcome(r) == r \in {"ok", "absent"}

\* A request is accepted only with the status code there and equal to OK.
AcceptedIfNotRefused(r) ==  \* mutant: a missing status code counts as OK
  r \in {"ok", "absent"}
Accepted(r) == r = "ok"

-----------------------------------------------------------------------------
(***************************************************************************)
(* The stream from the GC.  `owed' counts the replies the client has not   *)
(* wholly read, written or not; `replies' are those the GC has written;    *)
(* the client has already read `offset' halves of the first of them, and   *)
(* `inbox' more halves have reached the socket's receive buffer.           *)
(***************************************************************************)
EmptyChan == [owed |-> 0, replies |-> <<>>, inbox |-> 0, offset |-> 0]

InFlight(ch) == 2 * Len(ch.replies) - ch.offset - ch.inbox

Sent(ch) == [ch EXCEPT !.owed = @ + 1]

\* The GC's reply to the last request sent, once it has written it.
LastVerdict(ch) ==
  IF ch.owed > 0 /\ Len(ch.replies) = ch.owed THEN ch.replies[ch.owed] ELSE "none"

\* How many halves boost::asio::read moves to buffer_.
ReadSize(ch) == IF ch.inbox < BufferSize THEN ch.inbox ELSE BufferSize

\* The stream after that read: all of buffer_ is gone, parsed or not.
Consumed(ch) ==
  LET n    == ReadSize(ch)
      gone == (n + ch.offset) \div 2
  IN [owed    |-> ch.owed - gone,
      replies |-> SubSeq(ch.replies, gone + 1, Len(ch.replies)),
      inbox   |-> ch.inbox - n,
      offset  |-> (n + ch.offset) % 2]

\* What ParseDelimitedFromZeroCopyStream can make of buffer_: the first reply if
\* all of it is there, nothing if only a part is, and anything if buffer_
\* starts in the middle of a reply, whose bytes it takes for a length.
Parses(ch) ==
  IF ch.offset = 1 THEN Reply \cup {"none"}
  ELSE IF ReadSize(ch) >= 2 THEN {ch.replies[1]} ELSE {"none"}

-----------------------------------------------------------------------------
Alive == link \in {"up", "fin", "rst"}

\* boost::asio::write (the overload that throws) succeeds: after the peer's FIN
\* the kernel still takes the bytes, after its RST it does not.
Writable == link \in {"up", "fin"}

\* A handler returns to the executor with its answer.
Return(ok, v) ==
  /\ step' = "spinning"
  /\ polls' = 0
  /\ answer' = IF ok THEN "success" ELSE "failure"
  /\ verdict' = v

\* The socket is closed and what it had received is dropped.
Close ==
  /\ link' = "closed"
  /\ server' = NoAddress
  /\ chan' = EmptyChan

\* An exception leaves the callback: it leaves spin() and main, too.
Die ==
  /\ step' = "down"
  /\ polls' = 0
  /\ answer' = "none"
  /\ verdict' = "none"
  /\ connected' = FALSE
  /\ lapsed' = FALSE
  /\ Close

\* A message has been written and WaitForReply is entered.
Await(s, ch) ==
  /\ step' = s
  /\ polls' = 0
  /\ chan' = Sent(ch)
  /\ answer' = "none"
  /\ verdict' = "none"

DisconnectKeepingFlag ==  \* mutant: connected_ is not cleared
  UNCHANGED connected /\ Close

Disconnect == connected' = FALSE /\ Close

-----------------------------------------------------------------------------
\* TeamClient::Connect: the flag is cleared, an open socket closed, and the
\* thread blocks in socket_.connect.
BeginConnectKeepingFlag ==  \* mutant: connected_ is not cleared first
  /\ step' = "connecting"
  /\ polls' = 0
  /\ answer' = "none"
  /\ verdict' = "none"
  /\ UNCHANGED <<connected, lapsed>>
  /\ Close

BeginConnect ==
  /\ step' = "connecting"
  /\ polls' = 0
  /\ answer' = "none"
  /\ verdict' = "none"
  /\ connected' = FALSE
  /\ UNCHANGED lapsed
  /\ Close

\* TeamClientNode::Connect.  With no address nothing is attempted and the answer
\* is "success"; a malformed one makes address::from_string throw.
Connect(a) ==
  /\ address' = a
  /\ \/ a = NoAddress /\ Return(TRUE, "none") /\ UNCHANGED sockVars
     \/ a = Malformed /\ Die
     \/ a \in Servers /\ BeginConnect

\* The process starts (the launch file respawns it): the constructor connects.
Launch ==
  /\ step = "down"
  /\ call' = "start"
  /\ Connect(InitialAddress)

HandleReconnectTeamClient(a) ==
  /\ step = "spinning"
  /\ call' = "reconnect"
  /\ Connect(IF a = NoAddress THEN address ELSE a)

\* socket_.connect succeeds: the GC owes its greeting.
SocketConnectedUngreeted ==  \* mutant: the greeting is not waited for
  /\ step = "connecting"
  /\ link' = "up"
  /\ server' = address
  /\ lapsed' = FALSE
  /\ Await("register", Sent(EmptyChan))
  /\ UNCHANGED <<call, connected, address>>

SocketConnected ==
  /\ step = "connecting"
  /\ link' = "up"
  /\ server' = address
  /\ lapsed' = FALSE
  /\ Await("hello", EmptyChan)
  /\ UNCHANGED <<call, connected, address>>

\* socket_.connect fails: the socket it opened stays open, unconnected.
SocketRefused ==
  /\ step = "connecting"
  /\ link' = "open"
  /\ Return(FALSE, "none")
  /\ UNCHANGED <<call, connected, server, address, chan, lapsed>>

-----------------------------------------------------------------------------
(***************************************************************************)
(* What follows a WaitForReply that gave r ("none": no reply) and left the *)
(* stream at ch.                                                           *)
(***************************************************************************)

\* AttemptToConnectSocket after the greeting, and AttemptToRegister's write.
HelloReply(r, ch) ==
  /\ step = "hello"
  /\ \/ /\ Welcome(r) /\ Writable
        /\ Await("register", ch)
        /\ lapsed' = lapsed
        /\ UNCHANGED <<connected, link, server>>
     \/ /\ Welcome(r) /\ ~Writable
        /\ Die
     \/ /\ r = "rejected"
        /\ Return(FALSE, LastVerdict(chan))
        /\ lapsed' = lapsed
        /\ UNCHANGED connected
        /\ Close
     \/ /\ r \in {"empty", "none"}
        /\ Return(FALSE, LastVerdict(chan))
        /\ lapsed' = (lapsed \/ r = "none")
        /\ chan' = ch
        /\ UNCHANGED <<connected, link, server>>

\* AttemptToRegister after the answer, and the rest of TeamClient::Connect.
RegisterReplyIgnored(r, ch) ==  \* mutant: a refused registration still connects
  /\ step = "register"
  /\ Return(Welcome(r), LastVerdict(chan))
  /\ lapsed' = (lapsed \/ r = "none")
  /\ connected' = TRUE
  /\ chan' = ch
  /\ UNCHANGED <<link, server>>

RegisterReply(r, ch) ==
  /\ step = "register"
  /\ Return(Welcome(r), LastVerdict(chan))
  /\ lapsed' = (lapsed \/ r = "none")
  /\ \/ /\ Welcome(r)
        /\ connected' = TRUE
        /\ chan' = ch
        /\ UNCHANGED <<link, server>>
     \/ /\ ~Welcome(r)
        /\ UNCHANGED connected
        /\ Close

\* A service handler after SendRequest: the answer is the response.
ServiceReply(r, ch) ==
  /\ step = "request"
  /\ call \in Requests
  /\ Return(Accepted(r), LastVerdict(chan))
  /\ lapsed' = (lapsed \/ r = "none")
  /\ chan' = ch
  /\ UNCHANGED <<connected, link, server>>

\* PingCallback after Ping: the answer is the status it publishes.
PingReply(r, ch) ==
  /\ step = "request"
  /\ call = "ping"
  /\ Return(Accepted(r), LastVerdict(chan))
  /\ lapsed' = (lapsed \/ r = "none")
  /\ \/ /\ Accepted(r)
        /\ chan' = ch
        /\ UNCHANGED <<connected, link, server>>
     \/ /\ ~Accepted(r)
        /\ Disconnect

Resume(r, ch) ==
  /\ \/ HelloReply(r, ch)
     \/ RegisterReply(r, ch)
     \/ ServiceReply(r, ch)
     \/ PingReply(r, ch)
  /\ UNCHANGED <<call, address>>

(***************************************************************************)
(* WaitForReply.                                                           *)
(***************************************************************************)
\* Nothing available: sleep and look again.
PollEmptyForever ==  \* mutant: the deadline is never reached
  /\ step \in Waiting
  /\ chan.inbox = 0
  /\ UNCHANGED vars

PollEmptyPastDeadline ==  \* mutant: one sleep after the deadline
  /\ step \in Waiting
  /\ polls <= MaxPolls
  /\ chan.inbox = 0
  /\ polls' = polls + 1
  /\ UNCHANGED <<step, call, address, sockVars, respVars>>

PollEmpty ==
  /\ step \in Waiting
  /\ polls < MaxPolls
  /\ chan.inbox = 0
  /\ polls' = polls + 1
  /\ UNCHANGED <<step, call, address, sockVars, respVars>>

Timeout ==
  /\ polls = MaxPolls
  /\ Resume("none", chan)

\* available() or read() reports the error of a reset connection.
TcpError ==
  /\ polls < MaxPolls
  /\ link = "rst"
  /\ Resume("none", chan)

Read ==
  /\ polls < MaxPolls
  /\ chan.inbox > 0
  /\ \E r \in Parses(chan) : Resume(r, Consumed(chan))

-----------------------------------------------------------------------------
(***************************************************************************)
(* Handlers that talk to the GC over the open connection: refused at once  *)
(* when the client is not connected; SendRequest throws when the write     *)
(* fails.  MaxOwed bounds the requests a connection is left owing.         *)
(***************************************************************************)
SendRequest(c) ==
  /\ step = "spinning"
  /\ call' = c
  /\ UNCHANGED address
  /\ \/ /\ ~connected
        /\ Return(FALSE, "none")
        /\ UNCHANGED sockVars
     \/ /\ connected /\ Writable
        /\ Await("request", chan)
        /\ UNCHANGED <<connected, link, server, lapsed>>
     \/ /\ connected /\ ~Writable
        /\ Die

HandleSetDesiredKeeper   == chan.owed < MaxOwed /\ SendRequest("set_desired_keeper")
HandleSubstituteBot      == chan.owed < MaxOwed /\ SendRequest("substitute_bot")
HandleSetAdvantageChoice == chan.owed < MaxOwed /\ SendRequest("set_advantage_choice")

PingCallbackPublishingFlag ==  \* mutant: the flag is published without a ping
  /\ step = "spinning"
  /\ call' = "ping"
  /\ Return(connected, "none")
  /\ UNCHANGED <<address, sockVars>>

PingCallback == SendRequest("ping")

\* Someone sets gc_ip_address (ros2 param set): the parameter service is served
\* by the same executor.
SetAddressParameter(a) ==
  /\ step = "spinning"
  /\ address' = a
  /\ answer' = "none"
  /\ verdict' = "none"
  /\ UNCHANGED <<step, call, polls, sockVars>>

-----------------------------------------------------------------------------
(***************************************************************************)
(* The GC and the network.                                                 *)
(***************************************************************************)
\* The GC writes the next reply it owes.
GcAnswer ==
  /\ link = "up"
  /\ Len(chan.replies) < chan.owed
  /\ \E r \in Reply : chan' = [chan EXCEPT !.replies = Append(@, r)]
  /\ UNCHANGED <<procVars, respVars, connected, link, server, lapsed>>

\* Some of what the GC wrote reaches the client's receive buffer.
Deliver ==
  /\ link = "up"
  /\ \E n \in 1 .. InFlight(chan) : chan' = [chan EXCEPT !.inbox = @ + n]
  /\ UNCHANGED <<procVars, respVars, connected, link, server, lapsed>>

\* The GC closes the connection in order: its FIN comes after its replies.
PeerClose ==
  /\ link = "up"
  /\ InFlight(chan) = 0
  /\ link' = "fin"
  /\ UNCHANGED <<procVars, respVars, connected, server, chan, lapsed>>

\* The connection is reset: the GC is gone, or it answers bytes sent after its FIN.
PeerReset ==
  /\ link \in {"up", "fin"}
  /\ link' = "rst"
  /\ UNCHANGED <<procVars, respVars, connected, server, chan, lapsed>>

-----------------------------------------------------------------------------
Init ==
  /\ step = "down"
  /\ call = "start"
  /\ connected = FALSE
  /\ link = "closed"
  /\ server = NoAddress
  /\ address = InitialAddress
  /\ polls = 0
  /\ chan = EmptyChan
  /\ answer = "none"
  /\ verdict = "none"
  /\ lapsed = FALSE

SocketOutcome == SocketConnected \/ SocketRefused
WaitStep      == PollEmpty \/ Timeout \/ TcpError \/ Read

Handler ==
  \/ HandleSetDesiredKeeper
  \/ HandleSubstituteBot
  \/ HandleSetAdvantageChoice
  \/ PingCallback
  \/ \E a \in Addresses : HandleReconnectTeamClient(a)
  \/ \E a \in Addresses : SetAddressParameter(a)

Environment == GcAnswer \/ Deliver \/ PeerClose \/ PeerReset

Next == Launch \/ SocketOutcome \/ WaitStep \/ Handler \/ Environment

Spec == Init /\ [][Next]_vars

(***************************************************************************)
(* Fairness: the launch files respawn the process; connect() and the poll  *)
(* loop proceed by themselves; the executor serves a ready timer before    *)
(* any service, so the ping timer is not starved by requests.              *)
(***************************************************************************)
Fairness ==
  /\ WF_vars(Launch)
  /\ WF_vars(SocketOutcome)
  /\ WF_vars(WaitStep)
  /\ SF_vars(PingCallback)

FairSpec == Spec /\ Fairness
-----------------------------------------------------------------------------
(***************************************************************************)
(* Properties.                                                             *)
(***************************************************************************)
\* A well-formed stream: no more is read than was written, no more is written
\* than is owed, and a partly read reply has its other half to come.
IsChannel(ch) ==
  /\ ch \in [owed : Nat, replies : Seq(Reply), inbox : Nat, offset : {0, 1}]
  /\ Len(ch.replies) <= ch.owed
  /\ ch.offset + ch.inbox <= 2 * Len(ch.replies)

\* Every variable has its type, and the reply stream (what available() and
\* read() see of the socket) is well formed.
TypeOK ==
  /\ step \in {"down", "spinning", "connecting"} \cup Waiting
  /\ call \in Calls
  /\ connected \in BOOLEAN
  /\ link \in {"closed", "open", "up", "fin", "rst"}
  /\ server \in Servers \cup {NoAddress}
  /\ address \in Addresses
  /\ polls \in 0 .. MaxPolls
  /\ answer \in {"none", "success", "failure"}
  /\ verdict \in Reply \cup {"none"}
  /\ lapsed \in BOOLEAN
  /\ IsChannel(chan)

\* As long as no wait on this connection has ended without a reply, what
\* SendRequest tells its caller is what the GC replied to that very request: a
\* success exactly when the GC said OK to it.
TruthfulUnlessLapsed ==
  ~lapsed /\ call \in Requests \cup {"ping"} /\ answer # "none"
    => (answer = "success" <=> verdict = "ok")

\* A connect that answers success and had an address to connect to leaves the
\* client connected to that address, and the GC has taken its registration
\* (never a greeting mistaken for the answer to the registration).
ConnectTruthful ==
  call \in Connects /\ answer = "success" /\ address # NoAddress
    => connected /\ server = address /\ verdict \in {"ok", "absent"}

\* Requests and replies stay in step on a connection on which every wait got its
\* reply: between handlers nothing is owed and nothing is left in the stream, and
\* a handler that waits is owed exactly the reply it waits for.
InStepUnlessLapsed ==
  Alive /\ ~lapsed =>
    /\ chan.offset = 0
    /\ chan.owed = IF step \in Waiting THEN 1 ELSE 0

\* Where the thread is agrees with the flag and the socket.  It waits only on a
\* socket that a GC is or was at the other end of, with a reply to wait for; a
\* connection is registered on the configured address and not lapsed; a request
\* is written, and the flag is set, only over a connection that was registered;
\* a handler has answered only when the thread is back in the executor.
StepAgreesWithSocket ==
  /\ step \in Waiting => Alive /\ chan.owed > 0
  /\ step \in {"connecting", "hello", "register"} =>
       ~connected /\ call \in Connects /\ address \in Servers
  /\ step \in {"hello", "register"} => ~lapsed /\ server = address
  /\ step = "request" => connected /\ call \in Requests \cup {"ping"}
  /\ step = "down" => ~connected
  /\ step # "spinning" => answer = "none"
  /\ connected => Alive /\ server \in Servers

\* The process dies only because the GC reset the connection it writes to, or
\* for an address that cannot be parsed: never by writing to a socket it closed
\* itself or never connected.
DiesOnlyOfReset ==
  [][step # "down" /\ step' = "down" => link = "rst" \/ address' = Malformed]_vars

\* The inductive invariant these rest on.
IInv ==
  /\ TypeOK
  /\ StepAgreesWithSocket
  /\ InStepUnlessLapsed
  /\ TruthfulUnlessLapsed
  /\ ConnectTruthful

\* A handler that blocks the executor lets it go: it returns or the process dies.
HandlersReturn ==
  step \in Waiting \cup {"connecting"} ~> step \in {"spinning", "down"}

\* A connection the GC closed or reset does not count as connected for ever:
\* the pings find out, whatever late replies are still in the receive buffer.
DeadLinkNoticed ==
  connected /\ link \in {"fin", "rst"} ~> ~connected

\* What the node promises its users, and how its state stands for that.
ServicePhase == IF step = "down" THEN "down"
                ELSE IF step = "spinning" THEN "ready" ELSE "busy"
ServicePeer  == IF connected THEN server ELSE NoAddress

Service == INSTANCE ConnectionService WITH phase <- ServicePhase, peer <- ServicePeer

\* The node implements ConnectionService: every step of it is a step of the
\* service or none, so a failed connect or ping never leaves a peer, and nothing
\* but the end of a call changes it.
ImplementsService == Service!Spec

-----------------------------------------------------------------------------
(***************************************************************************)
(* What the repository says of the program and the program does not do.    *)
(***************************************************************************)
\* "status_code is an optional code that indicates the result of the last
\* request" (ssl_gc_rcon.proto:7): a request that is answered success is one to
\* which the GC replied OK.
StatusIsOfLastRequest ==
  call \in Requests /\ answer = "success" => verdict = "ok"

\* "If blank, will reconnect to the last used address" (ReconnectTeamClient.srv:3):
\* a reconnect that is answered success has connected the client.
ReconnectSuccessMeansConnected ==
  call = "reconnect" /\ answer = "success" => connected

\* "send a ping to the GC to test if the connection is still open"
\* (ssl_gc_rcon_team.proto:30): a ping is survived, open or not.
PingIsSurvived ==
  [][step # "down" /\ call' = "ping" => step' # "down"]_vars
=============================================================================
