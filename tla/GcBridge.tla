------------------------------ MODULE GcBridge ------------------------------
(***************************************************************************)
(* The game controller bridge node (gc_multicast_bridge_node.cpp), as far  *)
(* as it discovers the GC for the team client: it asks the team client to  *)
(* reconnect to the sender of a referee packet whenever it believes that   *)
(* the client has no connection.                                           *)
(*                                                                         *)
(* Two threads share the node.  The multicast receiver's I/O thread runs   *)
(* PublishMulticastMessage and blocks in wait_for; the executor thread     *)
(* takes statuses and service responses, one at a time.  Both write        *)
(* team_client_connected_, a plain bool that no lock protects: the builds  *)
(* of this code load and store it whole, so what is left of the data race  *)
(* is every interleaving of the loads and stores, each a step of its own.  *)
(*                                                                         *)
(* `requests', `responses' and `statuses' are the ROS queues between this  *)
(* node and the team client node.                                          *)
(***************************************************************************)
EXTENDS Naturals, Sequences

CONSTANTS Senders,       \* hosts that multicast referee packets
          NoAddress,     \* the empty server_address
          RequestDepth,  \* history depth of the service's two queues
          StatusDepth    \* history depth of the status subscription

ASSUME GcBridgeAssumption ==
  /\ NoAddress \notin Senders
  /\ RequestDepth \in Nat \ {0}
  /\ StatusDepth \in Nat \ {0}

VARIABLES io,         \* where the I/O thread is
          sender,     \* sender_address of the packet it handles
          flag,       \* team_client_connected_
          recent,     \* less than kReconnectRetryTime since the last attempt
          reply,      \* what the future it waits for holds
          requests,   \* reconnect requests on their way to the team client
          responses,  \* its responses on their way back
          statuses    \* connection_status messages on their way

ioVars     == <<io, sender, recent>>
bridgeVars == <<io, sender, flag, recent, reply>>
queueVars  == <<requests, responses, statuses>>

Outcome == {"success", "failure"}

\* A request, and whether the future for its response is still waited for.
Request  == [to : Senders \cup {NoAddress}, awaited : BOOLEAN]
Response == [outcome : Outcome, awaited : BOOLEAN]

BridgeTypeOK ==
  /\ io \in {"idle", "sending", "waiting", "storing"}
  /\ sender \in Senders \cup {NoAddress}
  /\ flag \in BOOLEAN
  /\ recent \in BOOLEAN
  /\ reply \in Outcome \cup {"none"}
  /\ requests \in Seq(Request) /\ Len(requests) <= RequestDepth
  /\ responses \in Seq(Response) /\ Len(responses) <= RequestDepth
  /\ statuses \in Seq(BOOLEAN) /\ Len(statuses) <= StatusDepth

BridgeInit ==
  /\ io = "idle"
  /\ sender = NoAddress
  /\ flag = FALSE
  /\ recent = FALSE
  /\ reply = "none"
  /\ requests = <<>>
  /\ responses = <<>>
  /\ statuses = <<>>

\* A full queue with KEEP_LAST history loses its oldest message.
PushUnbounded(q, x, depth) == Append(q, x)  \* mutant: KEEP_ALL history
Push(q, x, depth) == Append(IF Len(q) < depth THEN q ELSE Tail(q), x)

Abandon(q) == [i \in DOMAIN q |-> [q[i] EXCEPT !.awaited = FALSE]]

-----------------------------------------------------------------------------
(***************************************************************************)
(* The I/O thread: PublishMulticastMessage.                                *)
(***************************************************************************)
\* A referee packet from s is published and the conditions for an attempt are
\* looked at.  (When one of them fails nothing but the publication happens.)
\* service_is_ready() tells what the ROS graph has found out so far: it may say
\* yes of a process that is gone, and no, for a while, of one that is there.
CheckFlag(s) ==
  /\ io = "idle"
  /\ ~flag /\ ~recent
  /\ io' = "sending"
  /\ sender' = s
  /\ recent' = TRUE
  /\ UNCHANGED <<flag, reply, queueVars>>

\* The request goes out, whatever the flag has become since; it is lost if the
\* process that offered the service is gone.
SendBlankRequest(serviceIsUp) ==  \* mutant: request->server_address is left empty
  /\ io = "sending"
  /\ io' = "waiting"
  /\ reply' = "none"
  /\ requests' = IF serviceIsUp
                 THEN Push(requests, [to |-> NoAddress, awaited |-> TRUE], RequestDepth)
                 ELSE requests
  /\ UNCHANGED <<sender, flag, recent, responses, statuses>>

SendRequest(serviceIsUp) ==
  /\ io = "sending"
  /\ io' = "waiting"
  /\ reply' = "none"
  /\ requests' = IF serviceIsUp
                 THEN Push(requests, [to |-> sender, awaited |-> TRUE], RequestDepth)
                 ELSE requests
  /\ UNCHANGED <<sender, flag, recent, responses, statuses>>

\* The future is ready before kReconnectTimeout.
WaitEnds ==
  /\ io = "waiting"
  /\ reply # "none"
  /\ io' = IF reply = "success" THEN "storing" ELSE "idle"
  /\ reply' = "none"
  /\ UNCHANGED <<sender, flag, recent, queueVars>>

WaitForEver == FALSE  \* mutant: wait() for wait_for(kReconnectTimeout)

\* kReconnectTimeout passes, and kReconnectRetryTime, which is shorter, has passed
\* by then; the request stays where it is and its response will find nobody.

WaitTimesOut ==
  /\ io = "waiting"
  /\ reply = "none"
  /\ ~recent
  /\ io' = "idle"
  /\ requests' = Abandon(requests)
  /\ responses' = Abandon(responses)
  /\ UNCHANGED <<sender, flag, recent, reply, statuses>>

\* team_client_connected_ = true, some time after the response came.
StoreSuccess ==
  /\ io = "storing"
  /\ io' = "idle"
  /\ flag' = TRUE
  /\ UNCHANGED <<sender, recent, reply, queueVars>>

\* kReconnectRetryTime has passed since the last attempt.
RetryTimePasses ==
  /\ recent
  /\ recent' = FALSE
  /\ UNCHANGED <<io, sender, flag, reply, queueVars>>

-----------------------------------------------------------------------------
(***************************************************************************)
(* The executor thread.                                                    *)
(***************************************************************************)
StatusOnlyRaisesFlag ==  \* mutant: a lost connection is not taken over
  /\ statuses # <<>>
  /\ flag' = (flag \/ Head(statuses))
  /\ statuses' = Tail(statuses)
  /\ UNCHANGED <<ioVars, reply, requests, responses>>

TeamClientConnectionStatusCallback ==
  /\ statuses # <<>>
  /\ flag' = Head(statuses)
  /\ statuses' = Tail(statuses)
  /\ UNCHANGED <<ioVars, reply, requests, responses>>

\* The client library hands a response to the future that waits for it, if any.
TakeResponse ==
  /\ responses # <<>>
  /\ reply' = IF Head(responses).awaited THEN Head(responses).outcome ELSE reply
  /\ responses' = Tail(responses)
  /\ UNCHANGED <<ioVars, flag, requests, statuses>>

IoStep(serviceIsUp) == SendRequest(serviceIsUp) \/ WaitEnds \/ StoreSuccess
ExecutorStep        == TeamClientConnectionStatusCallback \/ TakeResponse

\* The node's process ends and is respawned: what was on its way to it is lost.
Respawn ==
  /\ io' = "idle"
  /\ sender' = NoAddress
  /\ flag' = FALSE
  /\ recent' = FALSE
  /\ reply' = "none"
  /\ requests' = Abandon(requests)
  /\ responses' = <<>>
  /\ statuses' = <<>>
=============================================================================
