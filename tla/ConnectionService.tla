-------------------------- MODULE ConnectionService --------------------------
(***************************************************************************)
(* What the team client node promises to those who use it: a service that  *)
(* handles one call at a time, each ending in a success or a failure, and  *)
(* a connection to at most one peer that only the end of a call changes.   *)
(*                                                                         *)
(*   - a reconnect drops the old peer first; it ends in success with the   *)
(*     configured address as the peer, or in failure with no peer at all;  *)
(*   - a request to the GC is refused when there is no peer, and leaves    *)
(*     the peer as it is whatever its answer;                              *)
(*   - a ping ends in success, or in failure with no peer;                 *)
(*   - a failure of the process loses the peer.                            *)
(*                                                                         *)
(* Nothing is said of sockets, of messages or of time.                     *)
(***************************************************************************)
CONSTANTS Servers, NoAddress, Malformed, InitialAddress

Addresses == Servers \cup {NoAddress, Malformed}
Requests  == {"set_desired_keeper", "substitute_bot", "set_advantage_choice"}
Connects  == {"start", "reconnect"}

VARIABLES phase,    \* "down", "ready" or "busy" with `call'
          call,     \* the last call taken up
          peer,     \* the GC the service is connected to, or NoAddress
          address,  \* the configured address
          answer    \* "none", "success" or "failure" of that call

vars == <<phase, call, peer, address, answer>>

TypeOK ==
  /\ phase \in {"down", "ready", "busy"}
  /\ call \in Connects \cup Requests \cup {"ping"}
  /\ peer \in Servers \cup {NoAddress}
  /\ address \in Addresses
  /\ answer \in {"none", "success", "failure"}

Init ==
  /\ phase = "down"
  /\ call = "start"
  /\ peer = NoAddress
  /\ address = InitialAddress
  /\ answer = "none"

Finish(result) == phase' = "ready" /\ answer' = result

Take == phase' = "busy" /\ answer' = "none"

Lose == phase' = "down" /\ answer' = "none" /\ peer' = NoAddress

\* No address: nothing to do, and that is a success.
BeginConnect(a) ==
  /\ address' = a
  /\ \/ a = NoAddress /\ Finish("success") /\ UNCHANGED peer
     \/ a \in Servers /\ Take /\ peer' = NoAddress
     \/ a = Malformed /\ Lose

Start == phase = "down" /\ call' = "start" /\ BeginConnect(InitialAddress)

Reconnect(a) ==
  /\ phase = "ready"
  /\ call' = "reconnect"
  /\ BeginConnect(IF a = NoAddress THEN address ELSE a)

EndConnect ==
  /\ phase = "busy"
  /\ call \in Connects
  /\ \/ Finish("success") /\ peer' = address
     \/ Finish("failure") /\ peer' = NoAddress
  /\ UNCHANGED <<call, address>>

BeginExchange(c) ==
  /\ phase = "ready"
  /\ call' = c
  /\ IF peer = NoAddress THEN Finish("failure") ELSE Take
  /\ UNCHANGED <<peer, address>>

EndRequest ==
  /\ phase = "busy"
  /\ call \in Requests
  /\ \E result \in {"success", "failure"} : Finish(result)
  /\ UNCHANGED <<call, peer, address>>

EndPing ==
  /\ phase = "busy"
  /\ call = "ping"
  /\ \/ Finish("success") /\ UNCHANGED peer
     \/ Finish("failure") /\ peer' = NoAddress
  /\ UNCHANGED <<call, address>>

Configure(a) ==
  /\ phase = "ready"
  /\ address' = a
  /\ answer' = "none"
  /\ UNCHANGED <<phase, call, peer>>

\* The process dies: while it serves a call, or as it takes one up over a
\* connection that is no longer there.
Fail ==
  /\ \/ phase = "busy" /\ UNCHANGED call
     \/ phase = "ready" /\ peer # NoAddress /\ call' \in Requests \cup {"ping"}
  /\ Lose
  /\ UNCHANGED address

Begin == \/ Start
         \/ \E a \in Addresses : Reconnect(a) \/ Configure(a)
         \/ \E c \in Requests \cup {"ping"} : BeginExchange(c)

End == EndConnect \/ EndRequest \/ EndPing \/ Fail

Next == Begin \/ End

Spec == Init /\ [][Next]_vars
=============================================================================
