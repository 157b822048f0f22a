------------------------ MODULE MessageConversionProofs ------------------------
(***************************************************************************)
(* Theorems about message_conversion.cpp: about the times in its messages, *)
(* for every unit and width, and about the fields of every message,        *)
(* however many values a repeated one holds.  TLC checks them on a few     *)
(* instants of a small clock and on two values.                            *)
(***************************************************************************)
EXTENDS OverloadProofs

-----------------------------------------------------------------------------
(***************************************************************************)
(* Division.                                                               *)
(***************************************************************************)
\* A number is its quotient times the divisor, and the remainder.
LEMMA DivMod ==
  ASSUME NEW n \in Int, NEW d \in Nat \ {0}
  PROVE  /\ n \div d \in Int /\ n % d \in 0 .. (d - 1)
         /\ n = (n \div d) * d + (n % d)
OBVIOUS

LEMMA QuotientBounds ==
  ASSUME NEW n \in Nat, NEW d \in Nat \ {0}
  PROVE  n \div d \in Nat /\ (n \div d) * d <= n /\ n < (n \div d) * d + d
<1>1. n \div d \in Nat
  OBVIOUS
<1>2. n % d \in 0 .. (d - 1) /\ n = (n \div d) * d + (n % d)
  BY DivMod
<1>3. (n \div d) * d \in Nat
  BY <1>1
<1> QED BY <1>1, <1>2, <1>3

\* The quotient does not fall when the number grows.
LEMMA DivMonotone ==
  ASSUME NEW m \in Int, NEW n \in Int, NEW d \in Nat \ {0}, m <= n
  PROVE  m \div d <= n \div d
<1> DEFINE q == m \div d
           r == n \div d
<1>1. q \in Int /\ r \in Int /\ q * d <= m /\ n < r * d + d
  BY DivMod
<1> HIDE DEF q, r
<1>2. q * d < (r + 1) * d
  BY <1>1
<1>3. q < r + 1
  BY <1>1, <1>2
<1> QED BY <1>1, <1>3 DEF q, r

\* A number below half the width is what a signed integer of the width holds.
LEMMA SignedHolds ==
  ASSUME NEW n \in Nat, NEW width \in Nat \ {0}, 2 * n < width
  PROVE  Signed(n, width) = n
<1>1. n % width = n
  OBVIOUS
<1> QED BY <1>1 DEF Signed

-----------------------------------------------------------------------------
(***************************************************************************)
(* A representable instant.                                                *)
(***************************************************************************)
\* Its seconds fit sec, and its nanoseconds an int64.
LEMMA RepresentableFits ==
  ASSUME NEW ns \in Nat, Representable(ns)
  PROVE  /\ ns \div NsPerSec \in Nat
         /\ 2 * (ns \div NsPerSec) < TwoTo32
         /\ 2 * ns < TwoTo64
<1> DEFINE q == ns \div NsPerSec
<1>1. NsPerSec \in Nat \ {0} /\ TwoTo32 \in Nat \ {0} /\ TwoTo64 \in Nat
  BY TimeAssumption
<1>2. PICK half \in Nat : TwoTo32 = 2 * half
  BY TimeAssumption
<1>3. q \in Nat /\ ns < q * NsPerSec + NsPerSec
  BY <1>1, QuotientBounds
<1>4. 2 * q < TwoTo32
  BY DEF Representable
<1> HIDE DEF q
<1>5. q + 1 <= half
  BY <1>2, <1>3, <1>4
<1>6. (q + 1) * NsPerSec <= half * NsPerSec
  BY <1>1, <1>3, <1>5
<1>7. 2 * ns < TwoTo32 * NsPerSec
  BY <1>1, <1>2, <1>3, <1>6
<1>8. 2 * ns < TwoTo64
  BY <1>1, <1>7, TimeAssumption
<1> QED BY <1>3, <1>4, <1>8 DEF q

\* An earlier one is representable too.
LEMMA RepresentableDown ==
  ASSUME NEW m \in Nat, NEW n \in Nat, m <= n, Representable(n)
  PROVE  Representable(m)
<1>1. m \div NsPerSec <= n \div NsPerSec
  BY DivMonotone, TimeAssumption
<1>2. m \div NsPerSec \in Int /\ n \div NsPerSec \in Int /\ TwoTo32 \in Int
  BY DivMod, TimeAssumption
<1> QED BY <1>1, <1>2 DEF Representable

\* rclcpp::Time loses nothing of it.
LEMMA RosTimeExact ==
  ASSUME NEW ns \in Nat, Representable(ns)
  PROVE  Nanoseconds(RosTime(ns)) = ns
<1>1. Signed(ns \div NsPerSec, TwoTo32) = ns \div NsPerSec
  BY RepresentableFits, SignedHolds, TimeAssumption
<1>2. ns = (ns \div NsPerSec) * NsPerSec + (ns % NsPerSec)
  BY DivMod, TimeAssumption
<1> QED BY <1>1, <1>2 DEF RosTime, Nanoseconds

\* The nearest double is at most half the distance of two doubles away.
LEMMA NearestIsNear ==
  ASSUME NEW ns \in Nat
  PROVE  /\ NearestDouble(ns) \in Nat
         /\ 2 * (NearestDouble(ns) - ns) <= NsPerDouble
         /\ -NsPerDouble <= 2 * (NearestDouble(ns) - ns)
<1> DEFINE d == NsPerDouble
           h == d \div 2
           q == (ns + h) \div d
<1>1. d \in Nat \ {0}
  BY TimeAssumption
<1>2. h \in Nat /\ 2 * h <= d /\ d <= 2 * h + 1
  <2> HIDE DEF d
  <2> QED BY <1>1
<1>3. ns + h \in Nat
  BY <1>2
<1> HIDE DEF d, h
<1>4. q \in Nat /\ q * d <= ns + h /\ ns + h < q * d + d
  BY <1>1, <1>3, QuotientBounds
<1> HIDE DEF q
<1>5. q * d \in Nat
  BY <1>1, <1>4
<1>6. 2 * (q * d - ns) <= d /\ -d <= 2 * (q * d - ns)
  BY <1>1, <1>2, <1>4, <1>5
<1>7. NearestDouble(ns) = q * d
  BY DEF NearestDouble, q, h, d
<1> QED BY <1>5, <1>6, <1>7 DEF d

-----------------------------------------------------------------------------
(***************************************************************************)
(* What an overload makes of a message.                                    *)
(***************************************************************************)
\* The numbers of values that the fields of a message of type t may hold.
Sent(t) ==
  {sent \in [Fields(t) -> 0 .. MaxRepeated] :
     \A f \in Fields(t) \ Proto[t].repeated : sent[f] <= 1}

\* The library sets no field twice, unless it is repeated.
LEMMA AcceptableIsSent == \A t \in Messages : Acceptable(t) \subseteq Sent(t)
<1> SUFFICES ASSUME NEW t \in Messages, NEW sent \in Acceptable(t) PROVE sent \in Sent(t)
  OBVIOUS
<1>1. PICK optional \in [Proto[t].optional -> 0 .. 1],
           repeated \in [Proto[t].repeated -> 0 .. MaxRepeated],
           event \in Proto[t].oneof \cup {"none"} :
        sent = Filled(t, optional, repeated, event)
  BY DEF Acceptable
<1> DEFINE required == [f \in Proto[t].required |-> 1]
           told == [f \in Proto[t].oneof |-> IF f = event THEN 1 ELSE 0]
           plain == required ++ optional
           further == plain ++ repeated
<1>2. DOMAIN plain = Proto[t].required \cup Proto[t].optional
  BY DEF ++
<1>3. ASSUME NEW f \in DOMAIN plain PROVE plain[f] \in 0 .. 1
  <2>1. CASE f \in DOMAIN required
    <3>1. plain[f] = required[f]
      BY <2>1 DEF ++
    <3>2. required[f] = 1
      BY <2>1
    <3> QED BY <3>1, <3>2
  <2>2. CASE f \notin DOMAIN required
    <3>1. plain[f] = optional[f] /\ f \in Proto[t].optional
      BY <1>2, <2>2 DEF ++
    <3> QED BY <3>1
  <2> QED BY <2>1, <2>2
<1> HIDE DEF plain
<1>4. DOMAIN further = Proto[t].required \cup Proto[t].optional \cup Proto[t].repeated
  BY <1>2 DEF ++
<1>5. ASSUME NEW f \in DOMAIN further
      PROVE  \/ further[f] \in 0 .. 1
             \/ f \in Proto[t].repeated /\ further[f] \in 0 .. MaxRepeated
  <2>1. CASE f \in DOMAIN plain
    BY <1>3, <1>4, <2>1 DEF ++
  <2>2. CASE f \notin DOMAIN plain
    BY <1>4, <2>2 DEF ++
  <2> QED BY <2>1, <2>2
<1> HIDE DEF further
<1>6. sent = further ++ told
  BY <1>1 DEF Filled, further, plain
<1>7. sent = [f \in Fields(t) |-> sent[f]]
  BY <1>4, <1>6 DEF Fields, ++
<1>8. ASSUME NEW f \in Fields(t)
      PROVE  sent[f] \in 0 .. MaxRepeated /\ (f \notin Proto[t].repeated => sent[f] <= 1)
  <2>1. f \in DOMAIN further \/ f \in Proto[t].oneof
    BY <1>4 DEF Fields
  <2>2. CASE f \in DOMAIN further
    <3>1. sent[f] = further[f]
      BY <1>6, <2>2 DEF ++
    <3> QED BY <1>5, <2>2, <3>1, ConversionAssumption
  <2>3. CASE f \notin DOMAIN further
    <3>1. sent[f] = told[f]
      BY <1>6, <2>1, <2>3 DEF ++
    <3> QED BY <2>1, <2>3, <3>1, ConversionAssumption
  <2> QED BY <2>2, <2>3
<1> QED BY <1>7, <1>8 DEF Sent

\* An assignment puts as many values as were sent, or one, and each is the default or
\* the field's value of that place.
LEMMA PutValues ==
  ASSUME NEW a, NEW sent, sent[a.from] \in Nat
  PROVE  /\ Len(Put(a, sent)) = IF a.how \in AsManyAsSent THEN sent[a.from] ELSE 1
         /\ DOMAIN Put(a, sent) = 1 .. Len(Put(a, sent))
         /\ \A i \in DOMAIN Put(a, sent) :
              \/ a.how \notin AsManyAsSent /\ sent[a.from] = 0 /\ Put(a, sent)[i] = Default
              \/ Put(a, sent)[i] = [from |-> a.from, place |-> i, unit |-> Unit(a.how)]
<1> DEFINE value(i) == [from |-> a.from, place |-> i, unit |-> Unit(a.how)]
           count == sent[a.from]
<1>1. CASE a.how \in AsManyAsSent
  <2>1. Put(a, sent) = [i \in 1 .. count |-> value(i)]
    BY <1>1 DEF Put, AsManyAsSent
  <2>2. Len(Put(a, sent)) = count
    BY <2>1
  <2> QED BY <1>1, <2>1, <2>2
<1>2. CASE a.how \notin AsManyAsSent
  <2>1. Put(a, sent) = <<IF count = 0 THEN Default ELSE value(1)>>
    BY <1>2 DEF Put, AsManyAsSent
  <2> QED BY <1>2, <2>1
<1> QED BY <1>1, <1>2

\* Every ROS field is written by one assignment, and every assignment writes one.
LEMMA ConvertedBy ==
  ASSUME NEW t \in Messages, NEW sent
  PROVE  /\ \A a \in Conversion[t] :
              a.to \in DOMAIN Converted(t, sent) /\ Converted(t, sent)[a.to] = Put(a, sent)
         /\ \A g \in DOMAIN Converted(t, sent) : \E a \in Conversion[t] :
              a.to = g /\ Converted(t, sent)[g] = Put(a, sent)
<1>1. \A a, b \in Conversion[t] : a.to = b.to => a = b
  BY OverloadsFaithful DEF Faithful
<1>2. ASSUME NEW a \in Conversion[t] PROVE (CHOOSE b \in Conversion[t] : b.to = a.to) = a
  BY <1>1
<1> QED BY <1>2 DEF Converted

-----------------------------------------------------------------------------
(***************************************************************************)
(* The inductive invariant: the message is one that the library accepts,   *)
(* and what has been returned is what its overload makes of it.            *)
(***************************************************************************)
IInv ==
  /\ type \in Messages
  /\ fields \in Sent(type)
  /\ at \in Instants \cup {0}
  /\ phase \in {"idle", "called", "returned"}
  /\ ros = IF Returned THEN Converted(type, fields) ELSE <<>>
  /\ stamp = IF Returned THEN StampOf(type, at) ELSE NoStamp

LEMMA WrapperIsSent ==
  /\ "SSL_WrapperPacket" \in Messages
  /\ [f \in Fields("SSL_WrapperPacket") |-> 0] \in Sent("SSL_WrapperPacket")
<1>1. "SSL_WrapperPacket" \in Messages
  BY ProtoIncludes DEF Messages, WrapperProtos
<1> QED BY <1>1, ConversionAssumption DEF Sent

\* In every state the message of a call is one the parser accepts, and what a call that
\* has returned returned is what the overload of that message makes of it.
THEOREM Invariant == Spec => []IInv
<1>1. Init => IInv
  BY WrapperIsSent DEF Init, IInv, Returned
<1>2. IInv /\ [Next]_vars => IInv'
  <2> SUFFICES ASSUME IInv, [Next]_vars PROVE IInv'
    OBVIOUS
  <2>1. CASE Call
    <3>1. PICK t \in Messages : type' = t /\ fields' \in Acceptable(t)
                                /\ at' \in IF t \in Timed THEN Instants ELSE {0}
      BY <2>1 DEF Call
    <3>2. fields' \in Sent(t)
      BY <3>1, AcceptableIsSent
    <3> QED BY <2>1, <3>1, <3>2 DEF Call, IInv, Returned
  <2>2. CASE FromProto
    BY <2>2 DEF FromProto, IInv, Returned
  <2>3. CASE UNCHANGED vars
    BY <2>3 DEF vars, IInv, Returned
  <2> QED BY <2>1, <2>2, <2>3 DEF Next
<1> QED BY <1>1, <1>2, PTL DEF Spec

\* A ROS field, once a call has returned, and the assignment that has written it.
LEMMA WrittenBy ==
  ASSUME IInv, NEW g \in DOMAIN ros
  PROVE  /\ Returned
         /\ \E a \in Conversion[type] :
              /\ a.to = g /\ ros[g] = Put(a, fields)
              /\ a.from \in Fields(type) /\ fields[a.from] \in 0 .. MaxRepeated
<1>1. Returned /\ ros = Converted(type, fields)
  BY DEF IInv
<1>2. PICK a \in Conversion[type] : a.to = g /\ ros[g] = Put(a, fields)
  BY <1>1, ConvertedBy DEF IInv
<1>3. a.from \in Fields(type)
  BY OverloadsFaithful DEF IInv, Faithful
<1>4. fields[a.from] \in 0 .. MaxRepeated
  BY <1>3 DEF IInv, Sent
<1> QED BY <1>1, <1>2, <1>3, <1>4

\* What a ROS field holds: values of the one field that its assignment reads.
LEMMA HeldBy ==
  ASSUME IInv, NEW g \in DOMAIN ros, NEW a \in Conversion[type], ros[g] = Put(a, fields),
         fields[a.from] \in 0 .. MaxRepeated, NEW i \in DOMAIN ros[g], ros[g][i] # Default
  PROVE  ros[g][i].from = a.from /\ ros[g][i].unit = Unit(a.how)
<1>1. fields[a.from] \in Nat
  BY ConversionAssumption
<1>2. ros[g][i] = [from |-> a.from, place |-> i, unit |-> Unit(a.how)]
  BY <1>1, PutValues
<1> QED BY <1>2

-----------------------------------------------------------------------------
(***************************************************************************)
(* The theorems.                                                           *)
(***************************************************************************)
\* The referee's microseconds become a Time without loss (message_conversion.cpp:71
\* and 76).
THEOREM MicrosecondsExact ==
  ASSUME NEW us \in Nat, Representable(us * NsPerUs)
  PROVE  Nanoseconds(FromMicroseconds(us)) = us * NsPerUs
<1> DEFINE ns == us * NsPerUs
<1>1. ns \in Nat
  BY TimeAssumption
<1>2. Signed(ns, TwoTo64) = ns
  <2>1. 2 * ns < TwoTo64 /\ TwoTo64 \in Nat
    BY <1>1, RepresentableFits, TimeAssumption
  <2> HIDE DEF ns
  <2>2. TwoTo64 \in Nat \ {0}
    BY <1>1, <2>1
  <2> QED BY <1>1, <2>1, <2>2, SignedHolds
<1> QED BY <1>1, <1>2, RosTimeExact DEF FromMicroseconds

\* The seconds of ssl-vision, a double, become a Time that is off by half the distance
\* of two doubles at most (message_conversion.cpp:601 to 604).
THEOREM SecondsClose ==
  ASSUME NEW ns \in Nat, Representable(ns + NsPerDouble)
  PROVE  /\ Nanoseconds(FromSeconds(ns)) = NearestDouble(ns)
         /\ 2 * (Nanoseconds(FromSeconds(ns)) - ns) \in -NsPerDouble .. NsPerDouble
<1> DEFINE n == NearestDouble(ns)
<1>1. NsPerDouble \in Nat
  BY TimeAssumption
<1>2. n \in Nat /\ 2 * (n - ns) <= NsPerDouble /\ -NsPerDouble <= 2 * (n - ns)
  BY NearestIsNear
<1> HIDE DEF n
<1>3. n <= ns + NsPerDouble
  BY <1>1, <1>2
<1>4. Representable(n)
  BY <1>1, <1>2, <1>3, RepresentableDown
<1>5. Nanoseconds(FromSeconds(ns)) = n
  BY <1>2, <1>4, RosTimeExact DEF FromSeconds, n
<1> QED BY <1>1, <1>2, <1>5 DEF n

\* Two frames are never put in the wrong order: the Time does not fall when the
\* seconds grow, although two close ones may become equal.
THEOREM FramesKeepOrder ==
  ASSUME NEW a \in Nat, NEW b \in Nat, a <= b, Representable(b + NsPerDouble)
  PROVE  Nanoseconds(FromSeconds(a)) <= Nanoseconds(FromSeconds(b))
<1> DEFINE d == NsPerDouble
           h == d \div 2
<1>1. d \in Nat \ {0} /\ h \in Nat
  BY TimeAssumption
<1>2. Representable(a + d)
  BY <1>1, RepresentableDown
<1>3. (a + h) \div d <= (b + h) \div d
  BY <1>1, DivMonotone
<1>4. (a + h) \div d \in Int /\ (b + h) \div d \in Int
  BY <1>1, DivMod
<1>5. ((a + h) \div d) * d <= ((b + h) \div d) * d
  BY <1>1, <1>3, <1>4
<1>6. NearestDouble(a) <= NearestDouble(b)
  BY <1>5 DEF NearestDouble
<1> QED BY <1>2, <1>6, SecondsClose

\* The bits of an even width, read as a signed number, are one of its numbers.
LEMMA SignedBounds ==
  ASSUME NEW n \in Int, NEW half \in Nat \ {0}
  PROVE  Signed(n, 2 * half) \in -half .. half - 1
<1>1. n % (2 * half) \in 0 .. (2 * half - 1)
  BY DivMod
<1> QED BY <1>1 DEF Signed

\* Whatever the nanoseconds, rclcpp::Time makes a Time of them.
LEMMA RosTimeFits ==
  ASSUME NEW ns \in Int
  PROVE  RosTime(ns) \in Times
<1>1. ns \div NsPerSec \in Int /\ ns % NsPerSec \in 0 .. NsPerSec - 1
  BY DivMod, TimeAssumption
<1>2. PICK half \in Nat \ {0} : TwoTo32 = 2 * half
  BY TimeAssumption
<1>3. Signed(ns \div NsPerSec, TwoTo32) \in -half .. half - 1
  BY <1>1, <1>2, SignedBounds
<1>4. TwoTo32 \div 2 = half
  BY <1>2
<1> QED BY <1>1, <1>3, <1>4 DEF RosTime, Times

\* Every stamp fits a builtin_interfaces::Time, of whatever instant.
LEMMA StampFits ==
  ASSUME NEW t, NEW instant \in Nat
  PROVE  StampOf(t, instant) \in Times
<1>1. instant * NsPerUs \in Nat
  BY TimeAssumption
<1>2. FromMicroseconds(instant) \in Times
  <2>1. TwoTo64 \in Nat \ {0}
    BY TimeAssumption
  <2>2. (instant * NsPerUs) % TwoTo64 \in Int
    BY <1>1, <2>1, DivMod
  <2>3. Signed(instant * NsPerUs, TwoTo64) \in Int
    BY <2>1, <2>2 DEF Signed
  <2> QED BY <2>3, RosTimeFits DEF FromMicroseconds
<1>3. FromSeconds(instant * NsPerUs) \in Times
  BY <1>1, NearestIsNear, RosTimeFits DEF FromSeconds
<1>4. NoStamp \in Times
  <2>1. PICK half \in Nat \ {0} : TwoTo32 = 2 * half
    BY TimeAssumption
  <2>2. TwoTo32 \div 2 = half
    BY <2>1
  <2> QED BY <2>2, TimeAssumption DEF NoStamp, Times
<1> QED BY <1>2, <1>3, <1>4 DEF StampOf

\* An assignment puts a default or the values that were sent of the field it reads.
LEMMA PutType ==
  ASSUME NEW a, fields[a.from] \in Nat, a.how \in AsManyAsSent \/ fields[a.from] \in 0 .. 1
  PROVE  \/ Put(a, fields) = <<Default>>
         \/ Put(a, fields) \in [1 .. fields[a.from] -> ValuesOf(a.from)]
<1> DEFINE count == fields[a.from]
           value(i) == [from |-> a.from, place |-> i, unit |-> Unit(a.how)]
<1>1. ASSUME NEW i \in 1 .. count PROVE value(i) \in ValuesOf(a.from)
  <2>1. Unit(a.how) \in Units
    BY DEF Unit, Units
  <2> QED BY <2>1 DEF ValuesOf
<1>2. CASE a.how \in AsManyAsSent
  <2>1. Put(a, fields) = [i \in 1 .. count |-> value(i)]
    BY <1>2 DEF Put, AsManyAsSent
  <2> HIDE DEF value
  <2> QED BY <1>1, <2>1
<1>3. CASE a.how \notin AsManyAsSent
  <2>1. Put(a, fields) = <<IF count = 0 THEN Default ELSE value(1)>>
    BY <1>3 DEF Put, AsManyAsSent
  <2>2. CASE count = 0
    BY <2>1, <2>2
  <2>3. CASE count = 1
    <3>1. Put(a, fields) = <<value(1)>> /\ value(1) \in ValuesOf(a.from)
      BY <1>1, <2>1, <2>3
    <3> HIDE DEF value
    <3>2. <<value(1)>> \in [1 .. 1 -> ValuesOf(a.from)]
      BY <3>1
    <3> QED BY <2>3, <3>1, <3>2
  <2> QED BY <1>3, <2>2, <2>3
<1> QED BY <1>2, <1>3

\* Whatever message is converted, the result is of its type: each ROS field holds a
\* default or the values that were sent of one field, with their unit, and the time is
\* within int32 seconds and the nanoseconds of one second.
THEOREM TypeCorrect == Spec => []TypeOK
<1>1. IInv => TypeOK
  <2> SUFFICES ASSUME IInv PROVE TypeOK
    OBVIOUS
  <2>1. /\ type \in Messages
        /\ fields \in [Fields(type) -> 0 .. MaxRepeated]
        /\ at \in Instants \cup {0}
        /\ phase \in {"idle", "called", "returned"}
    BY DEF IInv, Sent
  <2>2. ASSUME NEW g \in DOMAIN ros
        PROVE  \/ ros[g] = <<Default>>
               \/ \E f \in Fields(type) : ros[g] \in [1 .. fields[f] -> ValuesOf(f)]
    <3>1. PICK a \in Conversion[type] :
            /\ ros[g] = Put(a, fields)
            /\ a.from \in Fields(type) /\ fields[a.from] \in 0 .. MaxRepeated
      BY WrittenBy
    <3>2. fields[a.from] \in Nat
      BY <3>1, ConversionAssumption
    <3>3. a.how \in AsManyAsSent \/ fields[a.from] \in 0 .. 1
      <4>1. a.from \in Proto[type].repeated => a.how \in AsManyAsSent
        BY OverloadsFaithful DEF IInv, Faithful
      <4>2. a.from \notin Proto[type].repeated => fields[a.from] <= 1
        BY <3>1 DEF IInv, Sent
      <4> QED BY <3>2, <4>1, <4>2
    <3> QED BY <3>1, <3>2, <3>3, PutType
  <2>3. stamp \in Times
    <3>1. at \in Nat
      BY <2>1, ConversionAssumption
    <3>2. NoStamp = StampOf("none", at)
      BY DEF StampOf
    <3> QED BY <3>1, <3>2, StampFits DEF IInv
  <2> QED BY <2>1, <2>2, <2>3 DEF TypeOK
<1> QED BY <1>1, Invariant, PTL

\* Nothing that was sent is lost: every field of every message that is not left out
\* arrives, with all its values in their order.
THEOREM FieldsArrive == Spec => []EverySetFieldArrives
<1>1. IInv => EverySetFieldArrives
  <2> SUFFICES ASSUME IInv, Returned,
                      NEW f \in Fields(type) \ LeftOut(type), fields[f] > 0
               PROVE  Arrives(f)
    BY DEF EverySetFieldArrives
  <2>1. PICK a \in Conversion[type] :
          a.from = f /\ (a.from \in Proto[type].repeated => a.how \in AsManyAsSent)
    BY OverloadsFaithful DEF IInv, Faithful
  <2>2. a.to \in DOMAIN ros /\ ros[a.to] = Put(a, fields)
    BY ConvertedBy DEF IInv
  <2>3. fields[f] \in Nat \ {0} /\ (f \notin Proto[type].repeated => fields[f] = 1)
    BY ConversionAssumption DEF IInv, Sent
  <2>4. Len(ros[a.to]) = fields[f]
    <3>1. Len(ros[a.to]) = IF a.how \in AsManyAsSent THEN fields[a.from] ELSE 1
      BY <2>1, <2>2, <2>3, PutValues
    <3> QED BY <2>1, <2>3, <3>1
  <2>5. ASSUME NEW i \in 1 .. fields[f]
        PROVE  ros[a.to][i].from = f /\ ros[a.to][i].place = i
    <3>1. ros[a.to][i] = [from |-> a.from, place |-> i, unit |-> Unit(a.how)]
      BY <2>1, <2>2, <2>3, <2>4, PutValues
    <3> QED BY <2>1, <3>1
  <2> QED BY <2>2, <2>4, <2>5 DEF Arrives
<1> QED BY <1>1, Invariant, PTL

\* Nothing is told as something else: no event as another one, no yellow robot as a
\* blue one.
THEOREM FieldsAreNotMixed == Spec => []NoFieldTakesAnothers
<1>1. IInv => NoFieldTakesAnothers
  <2> SUFFICES ASSUME IInv, NEW g \in DOMAIN ros, NEW i \in DOMAIN ros[g],
                      ros[g][i] # Default
               PROVE  /\ g \in Fields(type) => ros[g][i].from = g
                      /\ \A h \in DOMAIN ros \ {g} : \A j \in DOMAIN ros[h] :
                           ros[h][j].from # ros[g][i].from
    BY DEF NoFieldTakesAnothers
  <2>1. PICK a \in Conversion[type] :
          /\ a.to = g /\ ros[g] = Put(a, fields)
          /\ a.from \in Fields(type) /\ fields[a.from] \in 0 .. MaxRepeated
    BY WrittenBy
  <2>2. ros[g][i].from = a.from
    BY <2>1, HeldBy
  <2>3. Faithful(type)
    BY OverloadsFaithful DEF IInv
  <2>4. g \in Fields(type) => a.from = g
    BY <2>1, <2>3 DEF Faithful
  <2>5. ASSUME NEW h \in DOMAIN ros \ {g}, NEW j \in DOMAIN ros[h]
        PROVE  ros[h][j].from # a.from
    <3>1. PICK b \in Conversion[type] :
            /\ b.to = h /\ ros[h] = Put(b, fields)
            /\ b.from \in Fields(type) /\ fields[b.from] \in 0 .. MaxRepeated
      BY WrittenBy
    <3>2. b.from # a.from
      BY <2>1, <2>3, <3>1 DEF Faithful
    <3>3. CASE ros[h][j] = Default
      BY <2>1, <2>3, <3>3 DEF Faithful, Default
    <3>4. CASE ros[h][j] # Default
      BY <3>1, <3>2, <3>4, HeldBy
    <3> QED BY <3>3, <3>4
  <2> QED BY <2>2, <2>4, <2>5
<1> QED BY <1>1, Invariant, PTL

\* A field that was not set does not look like one that was set to zero.
THEOREM AbsenceIsKept == Spec => []AbsenceIsVisible
<1>1. IInv => AbsenceIsVisible
  <2> SUFFICES ASSUME IInv, Returned,
                      NEW f \in (Proto[type].optional \cup Proto[type].oneof)
                                  \ ReadAsDefault(type),
                      f \in DOMAIN ros
               PROVE  Len(ros[f]) = fields[f]
    BY DEF AbsenceIsVisible
  <2>1. PICK a \in Conversion[type] :
          /\ a.to = f /\ ros[f] = Put(a, fields)
          /\ a.from \in Fields(type) /\ fields[a.from] \in 0 .. MaxRepeated
    BY WrittenBy
  <2>2. a.how \in AsManyAsSent /\ a.from = f
    BY <2>1, OverloadsFaithful DEF IInv, Faithful, Fields
  <2>3. fields[a.from] \in Nat
    BY <2>1, ConversionAssumption
  <2> QED BY <2>1, <2>2, <2>3, PutValues
<1> QED BY <1>1, Invariant, PTL

\* Every length that was sent in millimetres arrives in metres.
THEOREM LengthsAreScaled == Spec => []LengthsInMetres
<1>1. IInv => LengthsInMetres
  <2> SUFFICES ASSUME IInv, NEW g \in DOMAIN ros, NEW i \in DOMAIN ros[g],
                      ros[g][i].from \in InMillimetres(type)
               PROVE  ros[g][i].unit = "metres"
    BY DEF LengthsInMetres
  <2>1. PICK a \in Conversion[type] :
          ros[g] = Put(a, fields) /\ fields[a.from] \in 0 .. MaxRepeated
    BY WrittenBy
  <2>2. Faithful(type)
    BY OverloadsFaithful DEF IInv
  <2>3. ros[g][i] # Default
    BY <2>2 DEF Faithful, Default
  <2>4. ros[g][i].from = a.from /\ ros[g][i].unit = Unit(a.how)
    BY <2>1, <2>3, HeldBy
  <2> QED BY <2>2, <2>4 DEF Faithful
<1> QED BY <1>1, Invariant, PTL

\* Every message that has a time gets it right, as long as seconds fit an int32: the
\* stamp of a call that has returned is that of the message it was called with.
THEOREM StampsAreKept == Spec => []StampsKeepTime
<1>1. IInv => StampsKeepTime
  <2> SUFFICES ASSUME at \in Nat, Returned, stamp = StampOf(type, at), type \in Timed,
                      Representable(at * NsPerUs + NsPerDouble)
               PROVE  IF type = "Referee"
                        THEN Nanoseconds(stamp) = at * NsPerUs
                        ELSE 2 * (Nanoseconds(stamp) - at * NsPerUs)
                               \in -NsPerDouble .. NsPerDouble
    BY ConversionAssumption DEF IInv, StampsKeepTime
  <2> DEFINE ns == at * NsPerUs
  <2>1. ns \in Nat /\ NsPerDouble \in Nat
    BY TimeAssumption
  <2>2. CASE type = "Referee"
    <3>1. Representable(ns)
      <4> HIDE DEF ns
      <4> QED BY <2>1, RepresentableDown DEF ns
    <3>2. stamp = FromMicroseconds(at)
      BY <2>2 DEF StampOf
    <3> QED BY <2>2, <3>1, <3>2, MicrosecondsExact
  <2>3. CASE type = "SSL_DetectionFrame"
    <3>1. stamp = FromSeconds(ns)
      BY <2>3 DEF StampOf
    <3> QED BY <2>1, <2>3, <3>1, SecondsClose
  <2> QED BY <2>2, <2>3 DEF Timed
<1> QED BY <1>1, Invariant, PTL
=============================================================================
