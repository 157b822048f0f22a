------------------------------ MODULE Discovery ------------------------------
(***************************************************************************)
(* Automatic discovery of the game controller: the bridge node (GcBridge)  *)
(* and the team client node, the latter by what it promises                *)
(* (ConnectionService, which TeamClient implements).                       *)
(*                                                                         *)
(* A handler of the team client blocks its executor, so reconnect requests *)
(* and the ping timer wait for one another there.  Failures the bridge     *)
(* cannot help (a GC that refuses or goes away, a process that dies, a     *)
(* user who reconnects by hand) are bounded by MaxTroubles.                *)
(***************************************************************************)
EXTENDS GcBridge

CONSTANTS Servers,         \* addresses a user may name: senders and others
          Malformed,
          InitialAddress,  \* gc_ip_address of the launch file
          MaxTroubles      \* bound: failures and manual reconnects

ASSUME DiscoveryAssumption ==
  /\ Senders \subseteq Servers
  /\ NoAddress \notin Servers /\ Malformed \notin Servers
  /\ InitialAddress \in Servers \cup {NoAddress}
  /\ MaxTroubles \in Nat

VARIABLES phase, call, peer, address, answer,  \* of ConnectionService
          serving,   \* is the reconnect it serves the bridge's, and awaited
          troubles,  \* failures so far
          hadPeer    \* history: the client has had a connection

Client == INSTANCE ConnectionService

clientVars == <<phase, call, peer, address, answer>>
vars == <<bridgeVars, queueVars, clientVars, serving, troubles, hadPeer>>

Unserved == "none"

TypeOK ==
  /\ BridgeTypeOK
  /\ Client!TypeOK
  /\ serving \in {"none", "awaited", "abandoned"}
  /\ troubles \in 0 .. MaxTroubles
  /\ hadPeer \in BOOLEAN

Init ==
  /\ BridgeInit
  /\ Client!Init
  /\ serving = Unserved
  /\ troubles = 0
  /\ hadPeer = FALSE

\* What every step does to the history, and what a trouble costs.
NotePeer == hadPeer' = (hadPeer \/ peer' # NoAddress)
Trouble   == troubles < MaxTroubles /\ troubles' = troubles + 1
NoTrouble == UNCHANGED troubles

-----------------------------------------------------------------------------
(***************************************************************************)
(* The team client node.                                                   *)
(***************************************************************************)
ClientStarts ==
  /\ Client!Start
  /\ NoTrouble
  /\ UNCHANGED <<bridgeVars, queueVars, serving>>

\* The executor takes a reconnect request of the bridge; a blank one with no
\* address configured is answered at once.
ServeReconnect ==
  /\ requests # <<>>
  /\ Client!Reconnect(Head(requests).to)
  /\ requests' = Tail(requests)
  /\ LET awaited == Head(requests).awaited IN
     \/ /\ phase' = "busy"
        /\ serving' = IF awaited THEN "awaited" ELSE "abandoned"
        /\ UNCHANGED responses
     \/ /\ phase' = "ready"
        /\ responses' = Push(responses, [outcome |-> answer', awaited |-> awaited],
                             RequestDepth)
        /\ UNCHANGED serving
  /\ NoTrouble
  /\ UNCHANGED <<bridgeVars, statuses>>

\* The connect ends; if the bridge asked for it the response is sent.
ReconnectEnds ==
  /\ Client!EndConnect
  /\ responses' = IF serving = Unserved THEN responses
                  ELSE Push(responses, [outcome |-> answer',
                                        awaited |-> serving = "awaited"],
                            RequestDepth)
  /\ serving' = Unserved
  /\ IF answer' = "failure" THEN Trouble ELSE NoTrouble
  /\ UNCHANGED <<bridgeVars, requests, statuses>>

\* The ping timer fires; without a connection the status is published at once.
PingFires ==
  /\ Client!BeginExchange("ping")
  /\ statuses' = IF phase' = "ready" THEN Push(statuses, FALSE, StatusDepth) ELSE statuses
  /\ NoTrouble
  /\ UNCHANGED <<bridgeVars, requests, responses, serving>>

PingEnds ==
  /\ Client!EndPing
  /\ statuses' = Push(statuses, answer' = "success", StatusDepth)
  /\ IF answer' = "failure" THEN Trouble ELSE NoTrouble
  /\ UNCHANGED <<bridgeVars, requests, responses, serving>>

\* A user's request occupies the client; its answer does not matter here.
UserRequest ==
  /\ Client!BeginExchange("substitute_bot") \/ Client!EndRequest
  /\ NoTrouble
  /\ UNCHANGED <<bridgeVars, queueVars, serving>>

UserReconnect(a) ==
  /\ Client!Reconnect(a)
  /\ Trouble
  /\ UNCHANGED <<bridgeVars, queueVars, serving>>

\* The process dies: what it had not answered is lost, what it sent is not.
ClientFails ==
  /\ Client!Fail
  /\ requests' = <<>>
  /\ serving' = Unserved
  /\ Trouble
  /\ UNCHANGED <<bridgeVars, responses, statuses>>

ClientStep ==
  /\ \/ ClientStarts \/ ServeReconnect \/ ReconnectEnds \/ PingFires \/ PingEnds
     \/ UserRequest \/ ClientFails
     \/ \E a \in Servers \cup {NoAddress} : UserReconnect(a)
  /\ NotePeer

-----------------------------------------------------------------------------
(***************************************************************************)
(* The bridge.  When its wait times out, or it dies, nobody waits for the  *)
(* request that is being served any more.                                  *)
(***************************************************************************)
ServiceIsUp == phase # "down"

Packet == \E s \in Senders : CheckFlag(s)

GiveUpServing == serving' = IF serving = "awaited" THEN "abandoned" ELSE serving

BridgeStep ==
  /\ \/ /\ Packet \/ IoStep(ServiceIsUp) \/ ExecutorStep \/ RetryTimePasses
        /\ UNCHANGED <<serving, troubles>>
     \/ WaitTimesOut /\ GiveUpServing /\ NoTrouble
     \/ Respawn /\ GiveUpServing /\ Trouble
  /\ UNCHANGED <<clientVars, hadPeer>>

Next == ClientStep \/ BridgeStep

Spec == Init /\ [][Next]_vars

(***************************************************************************)
(* Fairness.  Threads run: what the I/O thread, the bridge's executor and  *)
(* the running handler of the client can do, they do.  The GC keeps        *)
(* multicasting, and the ROS graph finds the service out.  The client's    *)
(* executor serves a ready timer or service again and again as long as it  *)
(* comes back to it, and connect() and the GC's replies do not take for    *)
(* ever.                                                                   *)
(***************************************************************************)
Step(A) == A /\ NotePeer

Fairness ==
  /\ WF_vars(IoStep(ServiceIsUp) /\ BridgeStep)
  /\ WF_vars(WaitTimesOut /\ BridgeStep)
  /\ WF_vars(TeamClientConnectionStatusCallback /\ BridgeStep)
  /\ WF_vars(TakeResponse /\ BridgeStep)
  /\ WF_vars(RetryTimePasses /\ BridgeStep)
  /\ SF_vars(Packet /\ ServiceIsUp /\ BridgeStep)
  /\ WF_vars(Step(ClientStarts))
  /\ WF_vars(Step(ReconnectEnds))
  /\ WF_vars(Step(PingEnds))
  /\ WF_vars(Step(UserRequest) /\ phase = "busy")
  /\ SF_vars(Step(PingFires))
  /\ SF_vars(Step(ServeReconnect))

FairSpec == Spec /\ Fairness

-----------------------------------------------------------------------------
(***************************************************************************)
(* Properties.                                                             *)
(***************************************************************************)
\* The bridge believes in a connection only if the client has had one: no
\* answer that connects nothing is ever taken for a discovery.
NoFalseDiscovery == flag => hadPeer

\* What that rests on: no request is blank, so a connect that is taken up has an
\* address; a success or a connected status on its way to the bridge, or in its
\* threads' hands, comes from a connection the client has or has had.
TrueResponses == {r \in Response : r.outcome = "success" => hadPeer}
TrueStatuses  == {b \in BOOLEAN : b => hadPeer}

IInv ==
  /\ TypeOK
  /\ NoFalseDiscovery
  /\ requests \in Seq([to : Senders, awaited : BOOLEAN])
  /\ responses \in Seq(TrueResponses)
  /\ statuses \in Seq(TrueStatuses)
  /\ io = "sending" => sender \in Senders
  /\ io = "storing" \/ reply = "success" => hadPeer
  /\ phase = "busy" /\ call \in Client!Connects => address \in Servers
  /\ peer # NoAddress \/ (phase = "busy" /\ call = "ping") => hadPeer

\* The I/O thread, which publishes the referee messages, always comes back to the
\* packets, whatever became of its request: lost with the process of the client,
\* pushed out of a full queue, or still behind other calls.
RefereeKeepsFlowing == io # "idle" ~> io = "idle"

\* Once the troubles are over, discovery settles: the client stays connected and
\* the bridge knows, in spite of the requests that timed out and are still queued.
Settles == <>[](peer # NoAddress /\ flag)

\* "The game controller bridge will only reconfigure the team client node if it
\* is not already connected." (README.md:106)
OnlyReconfiguresDisconnected ==
  [][serving = Unserved /\ serving' # Unserved => peer = NoAddress]_vars
=============================================================================
