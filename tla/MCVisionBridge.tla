--------------------------- MODULE MCVisionBridge ---------------------------
(* Model checking of VisionBridge: the interfaces of a few machines. *)
EXTENDS VisionBridge

CONSTANTS lo, eth, wlan

Address(family, nic, joinable) == [family |-> family, nic |-> nic, joinable |-> joinable]

ThreeNics == {lo, eth, wlan}

\* getifaddrs fails; every nic joins; eth has two addresses and lo refuses, with an
\* IPv6 address and an interface without one between them, and another such at the end.
Machines ==
  {<<>>,
   <<Address("v4", eth, TRUE), Address("v4", wlan, TRUE)>>,
   <<Address("v4", lo, FALSE), Address("v6", lo, FALSE), Address("v4", eth, TRUE),
     Address("none", wlan, FALSE), Address("v4", eth, TRUE), Address("v4", wlan, TRUE),
     Address("none", lo, FALSE)>>}

OneMachine == {<<Address("v4", eth, TRUE)>>}

\* No net_interface_address, a good one and one that cannot be joined.
Parameters == {<<>>, <<Address("v4", wlan, TRUE)>>, <<Address("none", lo, FALSE)>>}

NoParameter == {<<>>}
=============================================================================
