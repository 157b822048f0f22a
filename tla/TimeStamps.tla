------------------------------ MODULE TimeStamps ------------------------------
(***************************************************************************)
(* The times of message_conversion.cpp.  The referee stamps its packets    *)
(* with microseconds in a uint64, ssl-vision with seconds in a double;     *)
(* both become a builtin_interfaces::Time, by way of rclcpp::Time, whose   *)
(* 64 bits of nanoseconds are split into int32 sec and uint32 nanosec.     *)
(*                                                                         *)
(* The units and the widths are constants, so that a small instance meets  *)
(* their ends too: 1000, 10^9, 2^64, 2^32 in the code.  NsPerDouble is the *)
(* distance between neighbouring doubles at the nanoseconds of the present *)
(* (about 1.7 * 10^18, so 256).                                            *)
(***************************************************************************)
EXTENDS Integers

CONSTANTS NsPerUs, NsPerSec, TwoTo64, TwoTo32, NsPerDouble

ASSUME TimeAssumption ==
  /\ NsPerUs \in Nat \ {0}
  /\ NsPerSec \in Nat \ {0} /\ NsPerSec <= TwoTo32
  /\ TwoTo32 \in Nat \ {0} /\ TwoTo32 % 2 = 0
  /\ TwoTo64 \in Nat /\ TwoTo32 * NsPerSec <= TwoTo64
  /\ NsPerDouble \in Nat \ {0}

\* What a signed integer of the width makes of the low bits of n.
Signed(n, width) ==
  IF 2 * (n % width) < width THEN n % width ELSE (n % width) - width

\* rclcpp::Time, read as a builtin_interfaces::Time: nanosec is never negative.
RosTime(ns) == [sec |-> Signed(ns \div NsPerSec, TwoTo32), nanosec |-> ns % NsPerSec]

\* rclcpp::Time(microseconds * 1000): the product is a uint64, the parameter an
\* int64_t.
FromMicrosecondsAsSeconds(us) == RosTime(Signed(us, TwoTo64))  \* mutant: no * 1000

FromMicroseconds(us) == RosTime(Signed(us * NsPerUs, TwoTo64))

\* static_cast<int64_t>(seconds * secToNanosec), for the seconds that stand for ns:
\* the product is the nearest double, which at this size has no fraction to cut.
NearestDouble(ns) == ((ns + NsPerDouble \div 2) \div NsPerDouble) * NsPerDouble

FromSeconds(ns) == RosTime(NearestDouble(ns))

\* A Time's nanoseconds since the epoch.
Nanoseconds(time) == time.sec * NsPerSec + time.nanosec

\* The instants whose seconds fit an int32: up to 19 January 2038.
Representable(ns) == 0 <= ns /\ 2 * (ns \div NsPerSec) < TwoTo32
=============================================================================
