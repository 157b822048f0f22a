---------------------------- MODULE OverloadProofs ----------------------------
(***************************************************************************)
(* Lemmas about the overloads of message_conversion.cpp, one for every     *)
(* message: each reads every field that it does not leave out, in the way  *)
(* its kind asks for, and mixes no two fields up.                          *)
(***************************************************************************)
EXTENDS MessageConversion, TLAPS

-----------------------------------------------------------------------------
(***************************************************************************)
(* The tables, joined.                                                     *)
(***************************************************************************)
\* h has what f has.
Includes(h, f) == DOMAIN f \subseteq DOMAIN h /\ \A x \in DOMAIN f : h[x] = f[x]

\* Two tables of different messages are joined without loss.
LEMMA JoinApart ==
  ASSUME NEW f, NEW g, DOMAIN f \cap DOMAIN g = {}
  PROVE  /\ DOMAIN (f ++ g) = DOMAIN f \cup DOMAIN g
         /\ Includes(f ++ g, f) /\ Includes(f ++ g, g)
BY DEF ++, Includes

\* No message is declared in two tables, so Proto has every one of them.
LEMMA ProtoIncludes ==
  /\ DOMAIN Proto =
      DOMAIN CommonProtos \cup DOMAIN RefereeProtos \cup DOMAIN GameEventProtos
       \cup DOMAIN EventProtos \cup DOMAIN FurtherEventProtos \cup DOMAIN LastEventProtos
       \cup DOMAIN DetectionProtos \cup DOMAIN FieldProtos \cup DOMAIN CameraProtos
       \cup DOMAIN WrapperProtos
  /\ Includes(Proto, CommonProtos) /\ Includes(Proto, RefereeProtos)
  /\ Includes(Proto, GameEventProtos) /\ Includes(Proto, EventProtos)
  /\ Includes(Proto, FurtherEventProtos) /\ Includes(Proto, LastEventProtos)
  /\ Includes(Proto, DetectionProtos) /\ Includes(Proto, FieldProtos)
  /\ Includes(Proto, CameraProtos) /\ Includes(Proto, WrapperProtos)
<1> DEFINE p2 == CommonProtos ++ RefereeProtos
           p3 == p2 ++ GameEventProtos
           p4 == p3 ++ EventProtos
           p5 == p4 ++ FurtherEventProtos
           p6 == p5 ++ LastEventProtos
           p7 == p6 ++ DetectionProtos
           p8 == p7 ++ FieldProtos
           p9 == p8 ++ CameraProtos
           p10 == p9 ++ WrapperProtos
<1>2. /\ DOMAIN p2 = DOMAIN CommonProtos \cup DOMAIN RefereeProtos
      /\ Includes(p2, CommonProtos) /\ Includes(p2, RefereeProtos)
  <2>1. DOMAIN CommonProtos \cap DOMAIN RefereeProtos = {}
    BY DEF CommonProtos, RefereeProtos
  <2> QED BY <2>1, JoinApart
<1> HIDE DEF p2
<1>3. /\ DOMAIN p3 = DOMAIN p2 \cup DOMAIN GameEventProtos
      /\ Includes(p3, p2) /\ Includes(p3, GameEventProtos)
  <2>1. DOMAIN p2 \cap DOMAIN GameEventProtos = {}
    BY <1>2 DEF CommonProtos, RefereeProtos, GameEventProtos
  <2> QED BY <2>1, JoinApart
<1> HIDE DEF p3
<1>4. /\ DOMAIN p4 = DOMAIN p3 \cup DOMAIN EventProtos
      /\ Includes(p4, p3) /\ Includes(p4, EventProtos)
  <2>1. DOMAIN p3 \cap DOMAIN EventProtos = {}
    BY <1>2, <1>3 DEF CommonProtos, RefereeProtos, GameEventProtos, EventProtos
  <2> QED BY <2>1, JoinApart
<1> HIDE DEF p4
<1>5. /\ DOMAIN p5 = DOMAIN p4 \cup DOMAIN FurtherEventProtos
      /\ Includes(p5, p4) /\ Includes(p5, FurtherEventProtos)
  <2>1. DOMAIN p4 \cap DOMAIN FurtherEventProtos = {}
    BY <1>2, <1>3, <1>4 DEF CommonProtos, RefereeProtos, GameEventProtos, EventProtos,
         FurtherEventProtos
  <2> QED BY <2>1, JoinApart
<1> HIDE DEF p5
<1>6. /\ DOMAIN p6 = DOMAIN p5 \cup DOMAIN LastEventProtos
      /\ Includes(p6, p5) /\ Includes(p6, LastEventProtos)
  <2>1. DOMAIN p5 \cap DOMAIN LastEventProtos = {}
    BY <1>2, <1>3, <1>4, <1>5 DEF CommonProtos, RefereeProtos, GameEventProtos, EventProtos,
         FurtherEventProtos, LastEventProtos
  <2> QED BY <2>1, JoinApart
<1> HIDE DEF p6
<1>7. /\ DOMAIN p7 = DOMAIN p6 \cup DOMAIN DetectionProtos
      /\ Includes(p7, p6) /\ Includes(p7, DetectionProtos)
  <2>1. DOMAIN p6 \cap DOMAIN DetectionProtos = {}
    BY <1>2, <1>3, <1>4, <1>5, <1>6 DEF CommonProtos, RefereeProtos, GameEventProtos,
         EventProtos, FurtherEventProtos, LastEventProtos, DetectionProtos
  <2> QED BY <2>1, JoinApart
<1> HIDE DEF p7
<1>8. /\ DOMAIN p8 = DOMAIN p7 \cup DOMAIN FieldProtos
      /\ Includes(p8, p7) /\ Includes(p8, FieldProtos)
  <2>1. DOMAIN p7 \cap DOMAIN FieldProtos = {}
    BY <1>2, <1>3, <1>4, <1>5, <1>6, <1>7 DEF CommonProtos, RefereeProtos, GameEventProtos,
         EventProtos, FurtherEventProtos, LastEventProtos, DetectionProtos, FieldProtos
  <2> QED BY <2>1, JoinApart
<1> HIDE DEF p8
<1>9. /\ DOMAIN p9 = DOMAIN p8 \cup DOMAIN CameraProtos
      /\ Includes(p9, p8) /\ Includes(p9, CameraProtos)
  <2>1. DOMAIN p8 \cap DOMAIN CameraProtos = {}
    BY <1>2, <1>3, <1>4, <1>5, <1>6, <1>7, <1>8 DEF CommonProtos, RefereeProtos,
         GameEventProtos, EventProtos, FurtherEventProtos, LastEventProtos, DetectionProtos,
         FieldProtos, CameraProtos
  <2> QED BY <2>1, JoinApart
<1> HIDE DEF p9
<1>10. /\ DOMAIN p10 = DOMAIN p9 \cup DOMAIN WrapperProtos
      /\ Includes(p10, p9) /\ Includes(p10, WrapperProtos)
  <2>1. DOMAIN p9 \cap DOMAIN WrapperProtos = {}
    BY <1>2, <1>3, <1>4, <1>5, <1>6, <1>7, <1>8, <1>9 DEF CommonProtos, RefereeProtos,
         GameEventProtos, EventProtos, FurtherEventProtos, LastEventProtos, DetectionProtos,
         FieldProtos, CameraProtos, WrapperProtos
  <2> QED BY <2>1, JoinApart
<1> HIDE DEF p10
<1>11. Proto = p10
  BY DEF Proto, p2, p3, p4, p5, p6, p7, p8, p9, p10
<1> QED BY <1>2, <1>3, <1>4, <1>5, <1>6, <1>7, <1>8, <1>9, <1>10, <1>11 DEF Includes

\* Nor is one converted by two overloads.
LEMMA ConversionIncludes ==
  /\ DOMAIN Conversion =
      DOMAIN VectorConversions \cup DOMAIN RefereeConversion \cup DOMAIN TeamInfoConversion
       \cup DOMAIN GameEventConversion \cup DOMAIN SmallConversions
       \cup DOMAIN EventConversions \cup DOMAIN FurtherEventConversions
       \cup DOMAIN LastEventConversions \cup DOMAIN DetectionConversions
       \cup DOMAIN FieldConversions \cup DOMAIN GeometryConversions
  /\ Includes(Conversion, VectorConversions) /\ Includes(Conversion, RefereeConversion)
  /\ Includes(Conversion, TeamInfoConversion) /\ Includes(Conversion, GameEventConversion)
  /\ Includes(Conversion, SmallConversions) /\ Includes(Conversion, EventConversions)
  /\ Includes(Conversion, FurtherEventConversions) /\ Includes(Conversion,
                                                               LastEventConversions)
  /\ Includes(Conversion, DetectionConversions) /\ Includes(Conversion, FieldConversions)
  /\ Includes(Conversion, GeometryConversions)
<1> DEFINE c2 == VectorConversions ++ RefereeConversion
           c3 == c2 ++ TeamInfoConversion
           c4 == c3 ++ GameEventConversion
           c5 == c4 ++ SmallConversions
           c6 == c5 ++ EventConversions
           c7 == c6 ++ FurtherEventConversions
           c8 == c7 ++ LastEventConversions
           c9 == c8 ++ DetectionConversions
           c10 == c9 ++ FieldConversions
           c11 == c10 ++ GeometryConversions
<1>2. /\ DOMAIN c2 = DOMAIN VectorConversions \cup DOMAIN RefereeConversion
      /\ Includes(c2, VectorConversions) /\ Includes(c2, RefereeConversion)
  <2>1. DOMAIN VectorConversions \cap DOMAIN RefereeConversion = {}
    BY DEF VectorConversions, RefereeConversion
  <2> QED BY <2>1, JoinApart
<1> HIDE DEF c2
<1>3. /\ DOMAIN c3 = DOMAIN c2 \cup DOMAIN TeamInfoConversion
      /\ Includes(c3, c2) /\ Includes(c3, TeamInfoConversion)
  <2>1. DOMAIN c2 \cap DOMAIN TeamInfoConversion = {}
    BY <1>2 DEF VectorConversions, RefereeConversion, TeamInfoConversion
  <2> QED BY <2>1, JoinApart
<1> HIDE DEF c3
<1>4. /\ DOMAIN c4 = DOMAIN c3 \cup DOMAIN GameEventConversion
      /\ Includes(c4, c3) /\ Includes(c4, GameEventConversion)
  <2>1. DOMAIN c3 \cap DOMAIN GameEventConversion = {}
    BY <1>2, <1>3 DEF VectorConversions, RefereeConversion, TeamInfoConversion,
         GameEventConversion
  <2> QED BY <2>1, JoinApart
<1> HIDE DEF c4
<1>5. /\ DOMAIN c5 = DOMAIN c4 \cup DOMAIN SmallConversions
      /\ Includes(c5, c4) /\ Includes(c5, SmallConversions)
  <2>1. DOMAIN c4 \cap DOMAIN SmallConversions = {}
    BY <1>2, <1>3, <1>4 DEF VectorConversions, RefereeConversion, TeamInfoConversion,
         GameEventConversion, SmallConversions
  <2> QED BY <2>1, JoinApart
<1> HIDE DEF c5
<1>6. /\ DOMAIN c6 = DOMAIN c5 \cup DOMAIN EventConversions
      /\ Includes(c6, c5) /\ Includes(c6, EventConversions)
  <2>1. DOMAIN c5 \cap DOMAIN EventConversions = {}
    BY <1>2, <1>3, <1>4, <1>5 DEF VectorConversions, RefereeConversion, TeamInfoConversion,
         GameEventConversion, SmallConversions, EventConversions
  <2> QED BY <2>1, JoinApart
<1> HIDE DEF c6
<1>7. /\ DOMAIN c7 = DOMAIN c6 \cup DOMAIN FurtherEventConversions
      /\ Includes(c7, c6) /\ Includes(c7, FurtherEventConversions)
  <2>1. DOMAIN c6 \cap DOMAIN FurtherEventConversions = {}
    BY <1>2, <1>3, <1>4, <1>5, <1>6 DEF VectorConversions, RefereeConversion,
         TeamInfoConversion, GameEventConversion, SmallConversions, EventConversions,
         FurtherEventConversions
  <2> QED BY <2>1, JoinApart
<1> HIDE DEF c7
<1>8. /\ DOMAIN c8 = DOMAIN c7 \cup DOMAIN LastEventConversions
      /\ Includes(c8, c7) /\ Includes(c8, LastEventConversions)
  <2>1. DOMAIN c7 \cap DOMAIN LastEventConversions = {}
    BY <1>2, <1>3, <1>4, <1>5, <1>6, <1>7 DEF VectorConversions, RefereeConversion,
         TeamInfoConversion, GameEventConversion, SmallConversions, EventConversions,
         FurtherEventConversions, LastEventConversions
  <2> QED BY <2>1, JoinApart
<1> HIDE DEF c8
<1>9. /\ DOMAIN c9 = DOMAIN c8 \cup DOMAIN DetectionConversions
      /\ Includes(c9, c8) /\ Includes(c9, DetectionConversions)
  <2>1. DOMAIN c8 \cap DOMAIN DetectionConversions = {}
    BY <1>2, <1>3, <1>4, <1>5, <1>6, <1>7, <1>8 DEF VectorConversions, RefereeConversion,
         TeamInfoConversion, GameEventConversion, SmallConversions, EventConversions,
         FurtherEventConversions, LastEventConversions, DetectionConversions
  <2> QED BY <2>1, JoinApart
<1> HIDE DEF c9
<1>10. /\ DOMAIN c10 = DOMAIN c9 \cup DOMAIN FieldConversions
      /\ Includes(c10, c9) /\ Includes(c10, FieldConversions)
  <2>1. DOMAIN c9 \cap DOMAIN FieldConversions = {}
    BY <1>2, <1>3, <1>4, <1>5, <1>6, <1>7, <1>8, <1>9 DEF VectorConversions,
         RefereeConversion, TeamInfoConversion, GameEventConversion, SmallConversions,
         EventConversions, FurtherEventConversions, LastEventConversions,
         DetectionConversions, FieldConversions
  <2> QED BY <2>1, JoinApart
<1> HIDE DEF c10
<1>11. /\ DOMAIN c11 = DOMAIN c10 \cup DOMAIN GeometryConversions
      /\ Includes(c11, c10) /\ Includes(c11, GeometryConversions)
  <2>1. DOMAIN c10 \cap DOMAIN GeometryConversions = {}
    BY <1>2, <1>3, <1>4, <1>5, <1>6, <1>7, <1>8, <1>9, <1>10 DEF VectorConversions,
         RefereeConversion, TeamInfoConversion, GameEventConversion, SmallConversions,
         EventConversions, FurtherEventConversions, LastEventConversions,
         DetectionConversions, FieldConversions, GeometryConversions
  <2> QED BY <2>1, JoinApart
<1> HIDE DEF c11
<1>12. Conversion = c11
  BY DEF Conversion, c2, c3, c4, c5, c6, c7, c8, c9, c10, c11
<1> QED BY <1>2, <1>3, <1>4, <1>5, <1>6, <1>7, <1>8, <1>9, <1>10, <1>11, <1>12 DEF Includes

-----------------------------------------------------------------------------
(***************************************************************************)
(* A faithful overload.                                                    *)
(***************************************************************************)
\* The assignments that put into the ROS field as many values as were sent.
AsManyAsSent == {"if_set", "to_metres_if_set", "each"}

\* Where LeftOut is expanded, so are its two parts.
USE DEF Undeclared, Unfilled

\* The overload of t reads every field that is not left out, in the way its kind asks
\* for, and never mixes two fields up.
Faithful(t) ==
  /\ \A a \in Conversion[t] : a.from \in Fields(t) /\ (a.to \in Fields(t) => a.from = a.to)
  /\ \A a, b \in Conversion[t] : a.to = b.to \/ a.from = b.from => a = b
  /\ \A f \in Fields(t) \ LeftOut(t) : \E a \in Conversion[t] : a.from = f
  /\ \A a \in Conversion[t] : a.from \in Proto[t].repeated => a.how \in AsManyAsSent
  /\ \A a \in Conversion[t] :
       a.to \in (Proto[t].optional \cup Proto[t].oneof) \ ReadAsDefault(t)
         => a.how \in AsManyAsSent
  /\ \A a \in Conversion[t] : a.from \in InMillimetres(t) => Unit(a.how) = "metres"
  /\ "nowhere" \notin Fields(t) \cup InMillimetres(t)

Assigned(to, from, how) == [to |-> to, from |-> from, how |-> how]

LEMMA AssignedFields ==
  ASSUME NEW a, NEW to, NEW from, NEW how, a = Assigned(to, from, how)
  PROVE  a.to = to /\ a.from = from /\ a.how = how
BY DEF Assigned

LEMMA NoAssignments == \A how : Assignments(how, {}) = {}
BY DEF Assignments

\* An overload that renames nothing and assigns each field once.
LEMMA StraightFaithful ==
  ASSUME NEW t, NEW copied, NEW ifSet, NEW each, NEW metres, NEW times,
         Conversion[t] = Copy(copied) \cup CopyOptional(ifSet) \cup Transform(each)
                           \cup ToMetres(metres) \cup ToTime(times),
         copied \cap (ifSet \cup each \cup metres \cup times) = {},
         ifSet \cap (each \cup metres \cup times) = {},
         each \cap (metres \cup times) = {}, metres \cap times = {},
         copied \cup ifSet \cup each \cup metres \cup times = Fields(t) \ LeftOut(t),
         Proto[t].repeated \subseteq each \cup LeftOut(t),
         Proto[t].optional \cup Proto[t].oneof
           \subseteq ifSet \cup ReadAsDefault(t) \cup LeftOut(t),
         InMillimetres(t) \subseteq metres,
         "nowhere" \notin Fields(t)
  PROVE  Faithful(t)
<1> DEFINE conversion == Conversion[t]
           all == copied \cup ifSet \cup each \cup metres \cup times
           Way(f, how) == \/ f \in copied /\ how = "copy"
                          \/ f \in ifSet /\ how = "if_set"
                          \/ f \in each /\ how = "each"
                          \/ f \in metres /\ how = "to_metres"
                          \/ f \in times /\ how = "to_time"
<1>0. conversion = Copy(copied) \cup CopyOptional(ifSet) \cup Transform(each)
                     \cup ToMetres(metres) \cup ToTime(times)
  OBVIOUS
<1> HIDE DEF conversion
<1>1. ASSUME NEW a \in conversion
      PROVE  \E f, how : a = Assigned(f, f, how) /\ Way(f, how)
  BY <1>0 DEF Copy, CopyOptional, Transform, ToMetres, ToTime, Assignments, Assigned
<1>2. ASSUME NEW f \in all PROVE \E how : Assigned(f, f, how) \in conversion
  <2>1. \A how, set : f \in set => Assigned(f, f, how) \in Assignments(how, set)
    BY DEF Assignments, Assigned
  <2>2. \E how, set : f \in set /\ Assignments(how, set) \subseteq conversion
    BY <1>0 DEF Copy, CopyOptional, Transform, ToMetres, ToTime
  <2> QED BY <2>1, <2>2
<1>3. ASSUME NEW a \in conversion
      PROVE  a = Assigned(a.from, a.from, a.how) /\ Way(a.from, a.how) /\ a.to = a.from
  <2>1. PICK f, how : a = Assigned(f, f, how) /\ Way(f, how)
    BY <1>1, Zenon
  <2> HIDE DEF Way
  <2> QED BY <2>1, AssignedFields
<1>4. ASSUME NEW a \in conversion PROVE a.from \in all
  BY <1>3
<1>5. ASSUME NEW a \in conversion, NEW b \in conversion, a.from = b.from PROVE a = b
  <2>1. a.how = b.how
    BY <1>3, <1>5
  <2> QED BY <1>3, <1>5, <2>1
<1>6. \A a \in conversion : a.from \in Fields(t) /\ (a.to \in Fields(t) => a.from = a.to)
  BY <1>3, <1>4
<1>7. \A a, b \in conversion : a.to = b.to \/ a.from = b.from => a = b
  BY <1>3, <1>5
<1>8. ASSUME NEW f \in Fields(t) \ LeftOut(t)
      PROVE  \E a \in conversion : a.from = f
  <2>1. PICK how : Assigned(f, f, how) \in conversion
    BY <1>2
  <2> QED BY <2>1, AssignedFields
<1>9. ASSUME NEW a \in conversion,
             a.to \in (Proto[t].optional \cup Proto[t].oneof) \ ReadAsDefault(t)
      PROVE  a.how \in AsManyAsSent
  <2>1. a.to = a.from /\ a.from \in all /\ Way(a.from, a.how)
    BY <1>3, <1>4
  <2>2. a.from \in ifSet
    BY <1>9, <2>1
  <2> QED BY <2>1, <2>2 DEF AsManyAsSent
<1>10. ASSUME NEW a \in conversion, a.from \in InMillimetres(t) PROVE Unit(a.how) = "metres"
  <2>1. a.from \in metres /\ Way(a.from, a.how)
    BY <1>3, <1>10
  <2>2. a.how = "to_metres"
    BY <2>1
  <2> QED BY <2>2 DEF Unit
<1>11. ASSUME NEW a \in conversion, a.from \in Proto[t].repeated PROVE a.how \in AsManyAsSent
  <2>1. a.from \in all /\ Way(a.from, a.how)
    BY <1>3, <1>4
  <2>2. a.from \in each
    BY <1>11, <2>1
  <2> QED BY <2>1, <2>2 DEF AsManyAsSent
<1>12. "nowhere" \notin Fields(t) \cup InMillimetres(t)
  OBVIOUS
<1> QED BY <1>6, <1>7, <1>8, <1>9, <1>10, <1>11, <1>12 DEF Faithful, conversion

-----------------------------------------------------------------------------
(***************************************************************************)
(* The events of a team.                                                   *)
(***************************************************************************)
\* Both tables have the event, its overload with every optional field the .proto file
\* declares.
OfItsTeam(conversions, protos, t) ==
  /\ t \in DOMAIN conversions /\ t \in DOMAIN protos
  /\ conversions[t] = OfTeam(protos[t].optional)
  /\ protos[t] = ByTeam(protos[t].optional)
  /\ protos[t].optional \cap {"by_team", "nowhere"} = {}

\* No field of the message is left out, in millimetres or read as its default.
Ordinary(t) == LeftOut(t) = {} /\ InMillimetres(t) = {} /\ ReadAsDefault(t) = {}

\* Such an overload copies the team and takes the rest as it is set.
LEMMA TeamEventFaithful ==
  ASSUME NEW conversions, NEW protos, NEW t, OfItsTeam(conversions, protos, t), Ordinary(t),
         Includes(Conversion, conversions), Includes(Proto, protos)
  PROVE  Faithful(t)
<1> DEFINE optional == Proto[t].optional
<1>1. Conversion[t] = OfTeam(optional) /\ Proto[t] = ByTeam(optional)
  BY DEF OfItsTeam, Includes
<1>2. optional \cap {"by_team", "nowhere"} = {}
  BY DEF OfItsTeam, Includes
<1>3. Conversion[t] = Copy({"by_team"}) \cup CopyOptional(optional) \cup Transform({})
                        \cup ToMetres({}) \cup ToTime({})
  BY <1>1, NoAssignments DEF OfTeam, Transform, ToMetres, ToTime
<1>4. Proto[t].required = {"by_team"} /\ Proto[t].repeated = {} /\ Proto[t].oneof = {}
  BY <1>1 DEF ByTeam, Declares
<1> HIDE DEF optional
<1>5. Fields(t) = {"by_team"} \cup optional
  BY <1>4 DEF Fields, optional
<1> QED BY <1>2, <1>3, <1>4, <1>5, StraightFaithful DEF Ordinary, optional

TeamEvents ==
  {"AimlessKick", "AttackerDoubleTouchedBall", "AttackerTooCloseToDefenseArea",
   "AttackerTouchedBallInDefenseArea", "AttackerTouchedOpponentInDefenseArea",
   "BallLeftField", "BotCrashUnique", "BotDribbledBallTooFar", "BotHeldBallDeliberately",
   "BotInterferedPlacement", "BotKickedBallTooFast", "BotPushedBot", "BotSubstitution",
   "BotTippedOver", "BotTooFastInStop", "BoundaryCrossing", "ChallengeFlag", "ChippedGoal",
   "DefenderInDefenseArea", "DefenderInDefenseAreaPartially", "DefenderTooCloseToKickPoint",
   "EmergencyStop", "Goal", "IndirectGoal", "KeeperHeldBall", "KickTimeout",
   "MultipleCards", "MultiplePlacementFailures", "PlacementSucceeded", "TooManyRobots",
   "BotDroppedParts", "ExcessiveBotSubstitution"}

\* The exceptions are other messages.
LEMMA TeamEventsOrdinary == \A t \in TeamEvents : Ordinary(t)
BY DEF TeamEvents, Ordinary, LeftOut, InMillimetres, ReadAsDefault

\* One step for each: the overload and the .proto file, side by side.
LEMMA TeamEventsFaithful == \A t \in TeamEvents : Faithful(t)
<1>1. OfItsTeam(EventConversions, EventProtos, "AimlessKick")
  BY DEF OfItsTeam, EventConversions, EventProtos, ByTeam, Declares
<1>2. OfItsTeam(EventConversions, FurtherEventProtos, "AttackerDoubleTouchedBall")
  BY DEF OfItsTeam, EventConversions, FurtherEventProtos, ByTeam, Declares
<1>3. OfItsTeam(EventConversions, FurtherEventProtos, "AttackerTooCloseToDefenseArea")
  BY DEF OfItsTeam, EventConversions, FurtherEventProtos, ByTeam, Declares
<1>4. OfItsTeam(EventConversions, EventProtos, "AttackerTouchedBallInDefenseArea")
  BY DEF OfItsTeam, EventConversions, EventProtos, ByTeam, Declares
<1>5. OfItsTeam(EventConversions, FurtherEventProtos,
                "AttackerTouchedOpponentInDefenseArea")
  BY DEF OfItsTeam, EventConversions, FurtherEventProtos, ByTeam, Declares
<1>6. OfItsTeam(EventConversions, EventProtos, "BallLeftField")
  BY DEF OfItsTeam, EventConversions, EventProtos, ByTeam, Declares
<1>7. OfItsTeam(EventConversions, EventProtos, "BotCrashUnique")
  BY DEF OfItsTeam, EventConversions, EventProtos, ByTeam, Declares
<1>8. OfItsTeam(EventConversions, FurtherEventProtos, "BotDribbledBallTooFar")
  BY DEF OfItsTeam, EventConversions, FurtherEventProtos, ByTeam, Declares
<1>9. OfItsTeam(EventConversions, FurtherEventProtos, "BotHeldBallDeliberately")
  BY DEF OfItsTeam, EventConversions, FurtherEventProtos, ByTeam, Declares
<1>10. OfItsTeam(EventConversions, FurtherEventProtos, "BotInterferedPlacement")
  BY DEF OfItsTeam, EventConversions, FurtherEventProtos, ByTeam, Declares
<1>11. OfItsTeam(EventConversions, FurtherEventProtos, "BotKickedBallTooFast")
  BY DEF OfItsTeam, EventConversions, FurtherEventProtos, ByTeam, Declares
<1>12. OfItsTeam(EventConversions, EventProtos, "BotPushedBot")
  BY DEF OfItsTeam, EventConversions, EventProtos, ByTeam, Declares
<1>13. OfItsTeam(EventConversions, LastEventProtos, "BotSubstitution")
  BY DEF OfItsTeam, EventConversions, LastEventProtos, ByTeam, Declares
<1>14. OfItsTeam(FurtherEventConversions, EventProtos, "BotTippedOver")
  BY DEF OfItsTeam, FurtherEventConversions, EventProtos, ByTeam, Declares
<1>15. OfItsTeam(FurtherEventConversions, EventProtos, "BotTooFastInStop")
  BY DEF OfItsTeam, FurtherEventConversions, EventProtos, ByTeam, Declares
<1>16. OfItsTeam(FurtherEventConversions, LastEventProtos, "BoundaryCrossing")
  BY DEF OfItsTeam, FurtherEventConversions, LastEventProtos, ByTeam, Declares
<1>17. OfItsTeam(FurtherEventConversions, LastEventProtos, "ChallengeFlag")
  BY DEF OfItsTeam, FurtherEventConversions, LastEventProtos, ByTeam, Declares
<1>18. OfItsTeam(FurtherEventConversions, EventProtos, "ChippedGoal")
  BY DEF OfItsTeam, FurtherEventConversions, EventProtos, ByTeam, Declares
<1>19. OfItsTeam(FurtherEventConversions, EventProtos, "DefenderInDefenseArea")
  BY DEF OfItsTeam, FurtherEventConversions, EventProtos, ByTeam, Declares
<1>20. OfItsTeam(FurtherEventConversions, EventProtos, "DefenderInDefenseAreaPartially")
  BY DEF OfItsTeam, FurtherEventConversions, EventProtos, ByTeam, Declares
<1>21. OfItsTeam(FurtherEventConversions, EventProtos, "DefenderTooCloseToKickPoint")
  BY DEF OfItsTeam, FurtherEventConversions, EventProtos, ByTeam, Declares
<1>22. OfItsTeam(FurtherEventConversions, LastEventProtos, "EmergencyStop")
  BY DEF OfItsTeam, FurtherEventConversions, LastEventProtos, ByTeam, Declares
<1>23. OfItsTeam(FurtherEventConversions, EventProtos, "Goal")
  BY DEF OfItsTeam, FurtherEventConversions, EventProtos, ByTeam, Declares
<1>24. OfItsTeam(FurtherEventConversions, EventProtos, "IndirectGoal")
  BY DEF OfItsTeam, FurtherEventConversions, EventProtos, ByTeam, Declares
<1>25. OfItsTeam(FurtherEventConversions, LastEventProtos, "KeeperHeldBall")
  BY DEF OfItsTeam, FurtherEventConversions, LastEventProtos, ByTeam, Declares
<1>26. OfItsTeam(FurtherEventConversions, FurtherEventProtos, "KickTimeout")
  BY DEF OfItsTeam, FurtherEventConversions, FurtherEventProtos, ByTeam, Declares
<1>27. OfItsTeam(FurtherEventConversions, FurtherEventProtos, "MultipleCards")
  BY DEF OfItsTeam, FurtherEventConversions, FurtherEventProtos, ByTeam, Declares
<1>28. OfItsTeam(FurtherEventConversions, FurtherEventProtos, "MultiplePlacementFailures")
  BY DEF OfItsTeam, FurtherEventConversions, FurtherEventProtos, ByTeam, Declares
<1>29. OfItsTeam(LastEventConversions, LastEventProtos, "PlacementSucceeded")
  BY DEF OfItsTeam, LastEventConversions, LastEventProtos, ByTeam, Declares
<1>30. OfItsTeam(LastEventConversions, LastEventProtos, "TooManyRobots")
  BY DEF OfItsTeam, LastEventConversions, LastEventProtos, ByTeam, Declares
<1>31. OfItsTeam(LastEventConversions, EventProtos, "BotDroppedParts")
  BY DEF OfItsTeam, LastEventConversions, EventProtos, ByTeam, Declares
<1>32. OfItsTeam(LastEventConversions, LastEventProtos, "ExcessiveBotSubstitution")
  BY DEF OfItsTeam, LastEventConversions, LastEventProtos, ByTeam, Declares
<1>33. ASSUME NEW t \in TeamEvents
      PROVE  \E conversions \in {EventConversions, FurtherEventConversions,
                                 LastEventConversions},
                protos \in {EventProtos, FurtherEventProtos, LastEventProtos} :
               OfItsTeam(conversions, protos, t)
  BY <1>1, <1>2, <1>3, <1>4, <1>5, <1>6, <1>7, <1>8, <1>9, <1>10, <1>11, <1>12, <1>13,
     <1>14, <1>15, <1>16, <1>17, <1>18, <1>19, <1>20, <1>21, <1>22, <1>23, <1>24, <1>25,
     <1>26, <1>27, <1>28, <1>29, <1>30, <1>31, <1>32 DEF TeamEvents
<1> SUFFICES ASSUME NEW t \in TeamEvents PROVE Faithful(t)
  OBVIOUS
<1> QED BY <1>33, TeamEventFaithful, TeamEventsOrdinary, ConversionIncludes, ProtoIncludes

-----------------------------------------------------------------------------
(***************************************************************************)
(* The other messages that rename nothing.                                 *)
(***************************************************************************)
\* The rows of a message in the two tables: its overload assigns each of these fields
\* once, in its way, and the .proto file declares these and what is left out.
Straight(conversions, protos, t, copied, ifSet, each, metres, times) ==
  LET declared == protos[t]
      optional == declared.optional \cup declared.oneof
  IN  /\ t \in DOMAIN conversions /\ t \in DOMAIN protos
      /\ conversions[t] = Copy(copied) \cup CopyOptional(ifSet) \cup Transform(each)
                            \cup ToMetres(metres) \cup ToTime(times)
      /\ copied \cap (ifSet \cup each \cup metres \cup times) = {}
      /\ ifSet \cap (each \cup metres \cup times) = {}
      /\ each \cap (metres \cup times) = {}
      /\ metres \cap times = {}
      /\ copied \cup ifSet \cup each \cup metres \cup times
           = (declared.required \cup declared.repeated \cup optional) \ LeftOut(t)
      /\ declared.repeated \subseteq each \cup LeftOut(t)
      /\ optional \subseteq ifSet \cup ReadAsDefault(t) \cup LeftOut(t)
      /\ InMillimetres(t) \subseteq metres
      /\ "nowhere" \notin declared.required \cup declared.repeated \cup optional

\* Two such rows make a faithful overload.
LEMMA StraightRows ==
  ASSUME NEW conversions, NEW protos, NEW t,
         NEW copied, NEW ifSet, NEW each, NEW metres, NEW times,
         Straight(conversions, protos, t, copied, ifSet, each, metres, times),
         Includes(Conversion, conversions), Includes(Proto, protos)
  PROVE  Faithful(t)
<1>1. Conversion[t] = conversions[t] /\ Proto[t] = protos[t]
  BY DEF Straight, Includes
<1>2. Fields(t) = Proto[t].required \cup Proto[t].repeated
                    \cup (Proto[t].optional \cup Proto[t].oneof)
  BY DEF Fields
<1>3. /\ copied \cup ifSet \cup each \cup metres \cup times = Fields(t) \ LeftOut(t)
      /\ "nowhere" \notin Fields(t)
  BY <1>1, <1>2 DEF Straight
<1> QED BY <1>1, <1>3, StraightFaithful DEF Straight

\* Again one step for each: the fields by the way they are assigned.
LEMMA StraightOverloads ==
  \A t \in {"Vector2", "Vector3", "TeamInfo", "GameEventProposalGroup", "RobotId",
             "BotCrashDrawn", "MultipleFouls", "NoProgressInGame", "PenaltyKickFailed",
             "PlacementFailed", "Prepared", "UnsportingBehaviorMajor",
             "UnsportingBehaviorMinor", "ChallengeFlagHandled", "SSL_DetectionFrame",
             "SSL_FieldLineSegment", "SSL_FieldCircularArc", "SSL_GeometryFieldSize",
             "SSL_WrapperPacket"} : Faithful(t)
<1>1. Faithful("Vector2")
  <2>1. Straight(VectorConversions, CommonProtos, "Vector2",
                 {"x", "y"}, {}, {}, {}, {})
    BY NoAssignments DEF Straight, VectorConversions, CommonProtos, Vector2Proto, Declares,
       Copy, CopyOptional, Transform, ToMetres, ToTime, LeftOut, ReadAsDefault, InMillimetres
  <2> QED BY <2>1, StraightRows, ConversionIncludes, ProtoIncludes
<1>2. Faithful("Vector3")
  <2>1. Straight(VectorConversions, CommonProtos, "Vector3",
                 {"x", "y", "z"}, {}, {}, {}, {})
    BY NoAssignments DEF Straight, VectorConversions, CommonProtos, Vector3Proto, Declares,
       Copy, CopyOptional, Transform, ToMetres, ToTime, LeftOut, ReadAsDefault, InMillimetres
  <2> QED BY <2>1, StraightRows, ConversionIncludes, ProtoIncludes
<1>3. Faithful("TeamInfo")
  <2>1. Straight(TeamInfoConversion, RefereeProtos, "TeamInfo",
                 {"name", "score", "red_cards", "yellow_cards", "timeouts",
                  "timeout_time", "goalkeeper"},
                 {"foul_counter", "ball_placement_failures", "can_place_ball",
                  "max_allowed_bots", "bot_substitution_intent",
                  "ball_placement_failures_reached", "bot_substitution_allowed",
                  "bot_substitutions_left", "bot_substitution_time_left"},
                 {"yellow_card_times"}, {}, {})
    BY NoAssignments DEF Straight, TeamInfoConversion, RefereeProtos, Declares, Copy,
       CopyOptional, Transform, ToMetres, ToTime, LeftOut, ReadAsDefault, InMillimetres
  <2> QED BY <2>1, StraightRows, ConversionIncludes, ProtoIncludes
<1>4. Faithful("GameEventProposalGroup")
  <2>1. Straight(SmallConversions, RefereeProtos, "GameEventProposalGroup",
                 {"accepted"}, {"id"}, {"game_events"}, {}, {})
    BY NoAssignments DEF Straight, SmallConversions, RefereeProtos, Declares, Copy,
       CopyOptional, Transform, ToMetres, ToTime, LeftOut, ReadAsDefault, InMillimetres
  <2> QED BY <2>1, StraightRows, ConversionIncludes, ProtoIncludes
<1>5. Faithful("RobotId")
  <2>1. Straight(SmallConversions, CommonProtos, "RobotId",
                 {}, {"team", "id"}, {}, {}, {})
    BY NoAssignments DEF Straight, SmallConversions, CommonProtos, Declares, Copy,
       CopyOptional, Transform, ToMetres, ToTime, LeftOut, ReadAsDefault, InMillimetres
  <2> QED BY <2>1, StraightRows, ConversionIncludes, ProtoIncludes
<1>6. Faithful("BotCrashDrawn")
  <2>1. Straight(EventConversions, EventProtos, "BotCrashDrawn",
                 {},
                 {"bot_yellow", "bot_blue", "location", "crash_speed", "speed_diff",
                  "crash_angle"}, {}, {}, {})
    BY NoAssignments DEF Straight, EventConversions, EventProtos, Declares, ByTeam, OfTeam,
       Copy, CopyOptional, Transform, ToMetres, ToTime, LeftOut, ReadAsDefault,
       InMillimetres
  <2> QED BY <2>1, StraightRows, ConversionIncludes, ProtoIncludes
<1>7. Faithful("MultipleFouls")
  <2>1. Straight(FurtherEventConversions, FurtherEventProtos, "MultipleFouls",
                 {"by_team"}, {}, {}, {}, {})
    BY NoAssignments DEF Straight, FurtherEventConversions, FurtherEventProtos, Declares,
       ByTeam, OfTeam, Copy, CopyOptional, Transform, ToMetres, ToTime, LeftOut,
       ReadAsDefault, InMillimetres
  <2> QED BY <2>1, StraightRows, ConversionIncludes, ProtoIncludes
<1>8. Faithful("NoProgressInGame")
  <2>1. Straight(LastEventConversions, FurtherEventProtos, "NoProgressInGame",
                 {}, {"location", "time"}, {}, {}, {})
    BY NoAssignments DEF Straight, LastEventConversions, FurtherEventProtos, Declares,
       ByTeam, OfTeam, Copy, CopyOptional, Transform, ToMetres, ToTime, LeftOut,
       ReadAsDefault, InMillimetres
  <2> QED BY <2>1, StraightRows, ConversionIncludes, ProtoIncludes
<1>9. Faithful("PenaltyKickFailed")
  <2>1. Straight(LastEventConversions, LastEventProtos, "PenaltyKickFailed",
                 {"by_team"}, {"location"}, {}, {}, {})
    BY NoAssignments DEF Straight, LastEventConversions, LastEventProtos, Declares, ByTeam,
       OfTeam, Copy, CopyOptional, Transform, ToMetres, ToTime, LeftOut, ReadAsDefault,
       InMillimetres
  <2> QED BY <2>1, StraightRows, ConversionIncludes, ProtoIncludes
<1>10. Faithful("PlacementFailed")
  <2>1. Straight(LastEventConversions, FurtherEventProtos, "PlacementFailed",
                 {"by_team"}, {"remaining_distance"}, {}, {}, {})
    BY NoAssignments DEF Straight, LastEventConversions, FurtherEventProtos, Declares,
       ByTeam, OfTeam, Copy, CopyOptional, Transform, ToMetres, ToTime, LeftOut,
       ReadAsDefault, InMillimetres
  <2> QED BY <2>1, StraightRows, ConversionIncludes, ProtoIncludes
<1>11. Faithful("Prepared")
  <2>1. Straight(LastEventConversions, LastEventProtos, "Prepared",
                 {}, {"time_taken"}, {}, {}, {})
    BY NoAssignments DEF Straight, LastEventConversions, LastEventProtos, Declares, ByTeam,
       OfTeam, Copy, CopyOptional, Transform, ToMetres, ToTime, LeftOut, ReadAsDefault,
       InMillimetres
  <2> QED BY <2>1, StraightRows, ConversionIncludes, ProtoIncludes
<1>12. Faithful("UnsportingBehaviorMajor")
  <2>1. Straight(LastEventConversions, LastEventProtos, "UnsportingBehaviorMajor",
                 {"by_team", "reason"}, {}, {}, {}, {})
    BY NoAssignments DEF Straight, LastEventConversions, LastEventProtos, Declares, ByTeam,
       OfTeam, Copy, CopyOptional, Transform, ToMetres, ToTime, LeftOut, ReadAsDefault,
       InMillimetres
  <2> QED BY <2>1, StraightRows, ConversionIncludes, ProtoIncludes
<1>13. Faithful("UnsportingBehaviorMinor")
  <2>1. Straight(LastEventConversions, LastEventProtos, "UnsportingBehaviorMinor",
                 {"by_team", "reason"}, {}, {}, {}, {})
    BY NoAssignments DEF Straight, LastEventConversions, LastEventProtos, Declares, ByTeam,
       OfTeam, Copy, CopyOptional, Transform, ToMetres, ToTime, LeftOut, ReadAsDefault,
       InMillimetres
  <2> QED BY <2>1, StraightRows, ConversionIncludes, ProtoIncludes
<1>14. Faithful("ChallengeFlagHandled")
  <2>1. Straight(LastEventConversions, LastEventProtos, "ChallengeFlagHandled",
                 {"by_team", "accepted"}, {}, {}, {}, {})
    BY NoAssignments DEF Straight, LastEventConversions, LastEventProtos, Declares, ByTeam,
       OfTeam, Copy, CopyOptional, Transform, ToMetres, ToTime, LeftOut, ReadAsDefault,
       InMillimetres
  <2> QED BY <2>1, StraightRows, ConversionIncludes, ProtoIncludes
<1>15. Faithful("SSL_DetectionFrame")
  <2>1. Straight(DetectionConversions, DetectionProtos, "SSL_DetectionFrame",
                 {"frame_number", "camera_id"}, {},
                 {"balls", "robots_yellow", "robots_blue"}, {},
                 {"t_capture", "t_sent", "t_capture_camera"})
    <3>1. Proto["SSL_DetectionFrame"] = DetectionProtos["SSL_DetectionFrame"]
      BY ProtoIncludes DEF Includes, DetectionProtos
    <3> QED BY <3>1, NoAssignments DEF Straight, DetectionConversions, DetectionProtos,
           Declares, Copy, CopyOptional, Transform, ToMetres, ToTime, LeftOut,
           ReadAsDefault, InMillimetres
  <2> QED BY <2>1, StraightRows, ConversionIncludes, ProtoIncludes
<1>16. Faithful("SSL_FieldLineSegment")
  <2>1. Straight(FieldConversions, FieldProtos, "SSL_FieldLineSegment",
                 {"name"}, {}, {}, {"p1.x", "p1.y", "p2.x", "p2.y", "thickness"}, {})
    BY NoAssignments DEF Straight, FieldConversions, FieldProtos, Declares, Copy,
       CopyOptional, Transform, ToMetres, ToTime, LeftOut, ReadAsDefault, InMillimetres
  <2> QED BY <2>1, StraightRows, ConversionIncludes, ProtoIncludes
<1>17. Faithful("SSL_FieldCircularArc")
  <2>1. Straight(FieldConversions, FieldProtos, "SSL_FieldCircularArc",
                 {"name", "a1", "a2"}, {}, {},
                 {"center.x", "center.y", "radius", "thickness"}, {})
    BY NoAssignments DEF Straight, FieldConversions, FieldProtos, Declares, Copy,
       CopyOptional, Transform, ToMetres, ToTime, LeftOut, ReadAsDefault, InMillimetres
  <2> QED BY <2>1, StraightRows, ConversionIncludes, ProtoIncludes
<1>18. Faithful("SSL_GeometryFieldSize")
  <2>1. Straight(FieldConversions, FieldProtos, "SSL_GeometryFieldSize",
                 {}, {}, {"field_lines", "field_arcs"},
                 {"field_length", "field_width", "goal_width", "goal_depth",
                  "boundary_width", "penalty_area_depth", "penalty_area_width",
                  "center_circle_radius", "line_thickness", "goal_center_to_penalty_mark",
                  "goal_height", "ball_radius", "max_robot_radius"}, {})
    <3>1. Proto["SSL_GeometryFieldSize"] = FieldProtos["SSL_GeometryFieldSize"]
      BY ProtoIncludes DEF Includes, FieldProtos
    <3> DEFINE metres == {"field_length", "field_width", "goal_width", "goal_depth",
                          "boundary_width", "penalty_area_depth", "penalty_area_width",
                          "center_circle_radius", "line_thickness",
                          "goal_center_to_penalty_mark", "goal_height", "ball_radius",
                          "max_robot_radius"}
               each == {"field_lines", "field_arcs"}
               declared == FieldProtos["SSL_GeometryFieldSize"]
    <3>2. Fields("SSL_GeometryFieldSize") = metres \cup each
      BY <3>1 DEF FieldProtos, Declares, Fields
    <3>3. InMillimetres("SSL_GeometryFieldSize") = metres
      <4>1. InMillimetres("SSL_GeometryFieldSize") = Fields("SSL_GeometryFieldSize") \ each
        BY DEF InMillimetres
      <4> QED BY <3>2, <4>1
    <3>4. /\ ReadAsDefault("SSL_GeometryFieldSize") = declared.optional
          /\ LeftOut("SSL_GeometryFieldSize") = {}
      BY <3>1 DEF ReadAsDefault, LeftOut
    <3>5. FieldConversions["SSL_GeometryFieldSize"]
            = Copy({}) \cup CopyOptional({}) \cup Transform(each) \cup ToMetres(metres)
                \cup ToTime({})
      BY NoAssignments DEF FieldConversions, Copy, CopyOptional, ToTime
    <3>6. /\ declared.repeated = each /\ declared.oneof = {}
          /\ declared.required \cup declared.optional = metres
          /\ "SSL_GeometryFieldSize" \in DOMAIN FieldProtos \cap DOMAIN FieldConversions
      BY DEF FieldProtos, FieldConversions, Declares
    <3> QED BY <3>3, <3>4, <3>5, <3>6 DEF Straight
  <2> QED BY <2>1, StraightRows, ConversionIncludes, ProtoIncludes
<1>19. Faithful("SSL_WrapperPacket")
  <2>1. Straight(GeometryConversions, WrapperProtos, "SSL_WrapperPacket",
                 {}, {"detection", "geometry"}, {}, {}, {})
    BY NoAssignments DEF Straight, GeometryConversions, WrapperProtos, Declares, Copy,
       CopyOptional, Transform, ToMetres, ToTime, LeftOut, ReadAsDefault, InMillimetres
  <2> QED BY <2>1, StraightRows, ConversionIncludes, ProtoIncludes
<1> QED BY <1>1, <1>2, <1>3, <1>4, <1>5, <1>6, <1>7, <1>8, <1>9, <1>10, <1>11, <1>12, <1>13,
      <1>14, <1>15, <1>16, <1>17, <1>18, <1>19

\* The events that are converted are those still in use, each by its own name.
LEMMA GameEventFaithful == Faithful("GameEvent")
<1> DEFINE told == {"id", "type", "created_timestamp"}
           declared == GameEventProtos["GameEvent"]
<1>1. ConvertedEvents = CurrentEvents
  BY DEF ConvertedEvents, CurrentEvents
<1>2. /\ CurrentEvents \cap (told \cup {"origin"} \cup DeprecatedEvents) = {}
      /\ DeprecatedEvents \cap (told \cup {"origin"}) = {}
      /\ "nowhere" \notin CurrentEvents \cup DeprecatedEvents
  BY DEF CurrentEvents, DeprecatedEvents
<1>3. /\ "GameEvent" \in DOMAIN GameEventConversion /\ "GameEvent" \in DOMAIN GameEventProtos
      /\ declared.required = {} /\ declared.optional = told
      /\ declared.repeated = {"origin"} /\ declared.oneof = CurrentEvents \cup DeprecatedEvents
  BY DEF GameEventConversion, GameEventProtos
<1>4. GameEventConversion["GameEvent"]
        = Copy(told) \cup CopyOptional(CurrentEvents) \cup Transform({"origin"})
            \cup ToMetres({}) \cup ToTime({})
  BY <1>1, NoAssignments DEF GameEventConversion, ToMetres, ToTime
<1>5. /\ LeftOut("GameEvent") = DeprecatedEvents /\ ReadAsDefault("GameEvent") = told
      /\ InMillimetres("GameEvent") = {}
  BY DEF LeftOut, ReadAsDefault, InMillimetres
<1> HIDE DEF told, declared
<1>6. told \cap {"origin", "nowhere"} = {}
  BY DEF told
<1>7. Straight(GameEventConversion, GameEventProtos, "GameEvent",
               told, CurrentEvents, {"origin"}, {}, {})
  BY <1>2, <1>3, <1>4, <1>5, <1>6 DEF Straight, declared
<1> QED BY <1>7, StraightRows, ConversionIncludes, ProtoIncludes

-----------------------------------------------------------------------------
(***************************************************************************)
(* The messages that rename fields.                                        *)
(***************************************************************************)
\* An assignment has the parts it is made of; below, the assignments of an overload one
\* by one.
LEMMA AssignedParts ==
  \A to, from, how : /\ Assigned(to, from, how).to = to
                     /\ Assigned(to, from, how).from = from
                     /\ Assigned(to, from, how).how = how
BY DEF Assigned

LEMMA RefereeFaithful == Faithful("Referee")
<1> DEFINE t == "Referee"
           conversion == Conversion[t]
           declared == Proto[t]
<1>1. conversion = RefereeConversion[t] /\ declared = RefereeProtos[t]
  BY ConversionIncludes, ProtoIncludes DEF Includes, RefereeConversion, RefereeProtos
<1>2. conversion
        = {Assigned("source_identifier", "source_identifier", "if_set"),
           Assigned("match_type", "match_type", "if_set"),
           Assigned("stage_time_left", "stage_time_left", "if_set"),
           Assigned("blue_team_on_positive_half", "blue_team_on_positive_half", "if_set"),
           Assigned("next_command", "next_command", "if_set"),
           Assigned("current_action_time_remaining", "current_action_time_remaining",
                    "if_set"),
           Assigned("status_message", "status_message", "if_set"),
           Assigned("stage", "stage", "copy"),
           Assigned("command", "command", "copy"),
           Assigned("command_counter", "command_counter", "copy"),
           Assigned("yellow", "yellow", "copy"),
           Assigned("blue", "blue", "copy"),
           Assigned("timestamp", "packet_timestamp", "to_time"),
           Assigned("command_timestamp", "command_timestamp", "to_time"),
           Assigned("designated_position", "designated_position", "to_metres_if_set"),
           Assigned("game_events", "game_events", "each"),
           Assigned("game_event_proposals", "game_event_proposals", "each")}
  BY <1>1 DEF RefereeConversion, CopyOptional, Assignments, Copy, Renamed, ToTime,
     Transform, Assigned
<1> HIDE DEF conversion
<1>3. \A a, b \in conversion : a.to = b.to \/ a.from = b.from => a = b
  BY <1>2, AssignedParts
<1>4. /\ Fields(t)
           = {"packet_timestamp", "stage", "command", "command_counter",
              "command_timestamp", "yellow", "blue", "source_identifier", "match_type",
              "stage_time_left", "designated_position", "blue_team_on_positive_half",
              "next_command", "current_action_time_remaining", "status_message",
              "game_events", "game_event_proposals"}
      /\ declared.optional \cup declared.oneof
           = {"source_identifier", "match_type", "stage_time_left", "designated_position",
              "blue_team_on_positive_half", "next_command",
              "current_action_time_remaining", "status_message"}
      /\ declared.repeated = {"game_events", "game_event_proposals"}
  BY <1>1 DEF RefereeProtos, Declares, Fields
<1>5. /\ ReadAsDefault(t) = {}
      /\ InMillimetres(t) = {"designated_position"}
      /\ LeftOut(t) = {}
  BY <1>1 DEF RefereeProtos, Declares, ReadAsDefault, InMillimetres, LeftOut
<1> HIDE DEF declared
<1>6. \A a \in conversion :
        /\ a.from \in Fields(t)
        /\ a.to \in Fields(t) => a.from = a.to
        /\ a.from \in declared.repeated => a.how \in AsManyAsSent
        /\ a.to \in (declared.optional \cup declared.oneof) \ ReadAsDefault(t)
             => a.how \in AsManyAsSent
        /\ a.from \in InMillimetres(t) => Unit(a.how) = "metres"
  BY <1>2, <1>4, <1>5, AssignedParts DEF AsManyAsSent, Unit
<1>7. \A f \in Fields(t) \ LeftOut(t) : \E a \in conversion : a.from = f
  BY <1>2, <1>4, <1>5, AssignedParts
<1>8. "nowhere" \notin Fields(t) \cup InMillimetres(t)
  BY <1>4, <1>5
<1> QED BY <1>3, <1>6, <1>7, <1>8 DEF Faithful, conversion, declared

LEMMA DivisionFaithful == Faithful("Division")
<1> DEFINE t == "Division"
           conversion == Conversion[t]
           declared == Proto[t]
<1>1. conversion = SmallConversions[t] /\ declared = CommonProtos[t]
  BY ConversionIncludes, ProtoIncludes DEF Includes, SmallConversions, CommonProtos
<1>2. conversion
        = {Assigned("division", "value", "copy")}
  BY <1>1 DEF SmallConversions, Renamed, Assigned
<1> HIDE DEF conversion
<1>3. \A a, b \in conversion : a.to = b.to \/ a.from = b.from => a = b
  BY <1>2, AssignedParts
<1>4. /\ Fields(t) = {"value"}
      /\ declared.optional \cup declared.oneof = {}
      /\ declared.repeated = {}
  BY <1>1 DEF CommonProtos, Declares, Fields
<1>5. /\ ReadAsDefault(t) = {}
      /\ InMillimetres(t) = {}
      /\ LeftOut(t) = {}
  BY <1>1 DEF CommonProtos, Declares, ReadAsDefault, InMillimetres, LeftOut
<1> HIDE DEF declared
<1>6. \A a \in conversion :
        /\ a.from \in Fields(t)
        /\ a.to \in Fields(t) => a.from = a.to
        /\ a.from \in declared.repeated => a.how \in AsManyAsSent
        /\ a.to \in (declared.optional \cup declared.oneof) \ ReadAsDefault(t)
             => a.how \in AsManyAsSent
        /\ a.from \in InMillimetres(t) => Unit(a.how) = "metres"
  BY <1>2, <1>4, <1>5, AssignedParts DEF AsManyAsSent, Unit
<1>7. \A f \in Fields(t) \ LeftOut(t) : \E a \in conversion : a.from = f
  BY <1>2, <1>4, <1>5, AssignedParts
<1>8. "nowhere" \notin Fields(t) \cup InMillimetres(t)
  BY <1>4, <1>5
<1> QED BY <1>3, <1>6, <1>7, <1>8 DEF Faithful, conversion, declared

LEMMA TeamFaithful == Faithful("Team")
<1> DEFINE t == "Team"
           conversion == Conversion[t]
           declared == Proto[t]
<1>1. conversion = SmallConversions[t] /\ declared = CommonProtos[t]
  BY ConversionIncludes, ProtoIncludes DEF Includes, SmallConversions, CommonProtos
<1>2. conversion
        = {Assigned("color", "value", "copy")}
  BY <1>1 DEF SmallConversions, Renamed, Assigned
<1> HIDE DEF conversion
<1>3. \A a, b \in conversion : a.to = b.to \/ a.from = b.from => a = b
  BY <1>2, AssignedParts
<1>4. /\ Fields(t) = {"value"}
      /\ declared.optional \cup declared.oneof = {}
      /\ declared.repeated = {}
  BY <1>1 DEF CommonProtos, Declares, Fields
<1>5. /\ ReadAsDefault(t) = {}
      /\ InMillimetres(t) = {}
      /\ LeftOut(t) = {}
  BY <1>1 DEF CommonProtos, Declares, ReadAsDefault, InMillimetres, LeftOut
<1> HIDE DEF declared
<1>6. \A a \in conversion :
        /\ a.from \in Fields(t)
        /\ a.to \in Fields(t) => a.from = a.to
        /\ a.from \in declared.repeated => a.how \in AsManyAsSent
        /\ a.to \in (declared.optional \cup declared.oneof) \ ReadAsDefault(t)
             => a.how \in AsManyAsSent
        /\ a.from \in InMillimetres(t) => Unit(a.how) = "metres"
  BY <1>2, <1>4, <1>5, AssignedParts DEF AsManyAsSent, Unit
<1>7. \A f \in Fields(t) \ LeftOut(t) : \E a \in conversion : a.from = f
  BY <1>2, <1>4, <1>5, AssignedParts
<1>8. "nowhere" \notin Fields(t) \cup InMillimetres(t)
  BY <1>4, <1>5
<1> QED BY <1>3, <1>6, <1>7, <1>8 DEF Faithful, conversion, declared

LEMMA SSL_DetectionBallFaithful == Faithful("SSL_DetectionBall")
<1> DEFINE t == "SSL_DetectionBall"
           conversion == Conversion[t]
           declared == Proto[t]
<1>1. conversion = DetectionConversions[t] /\ declared = DetectionProtos[t]
  BY ConversionIncludes, ProtoIncludes DEF Includes, DetectionConversions, DetectionProtos
<1>2. conversion
        = {Assigned("confidence", "confidence", "copy"),
           Assigned("area", "area", "copy"),
           Assigned("pos.x", "x", "to_metres"),
           Assigned("pos.y", "y", "to_metres"),
           Assigned("pos.z", "z", "to_metres"),
           Assigned("pixel.x", "pixel_x", "copy"),
           Assigned("pixel.y", "pixel_y", "copy")}
  BY <1>1 DEF DetectionConversions, Copy, Assignments, Renamed, Assigned
<1> HIDE DEF conversion
<1>3. \A a, b \in conversion : a.to = b.to \/ a.from = b.from => a = b
  BY <1>2, AssignedParts
<1>4. /\ Fields(t) = {"confidence", "x", "y", "pixel_x", "pixel_y", "area", "z"}
      /\ declared.optional \cup declared.oneof = {"area", "z"}
      /\ declared.repeated = {}
  BY <1>1 DEF DetectionProtos, Declares, Fields
<1>5. /\ ReadAsDefault(t) = {"area", "z"}
      /\ InMillimetres(t) = {"x", "y", "z"}
      /\ LeftOut(t) = {}
  BY <1>1 DEF DetectionProtos, Declares, ReadAsDefault, InMillimetres, LeftOut
<1> HIDE DEF declared
<1>6. \A a \in conversion :
        /\ a.from \in Fields(t)
        /\ a.to \in Fields(t) => a.from = a.to
        /\ a.from \in declared.repeated => a.how \in AsManyAsSent
        /\ a.to \in (declared.optional \cup declared.oneof) \ ReadAsDefault(t)
             => a.how \in AsManyAsSent
        /\ a.from \in InMillimetres(t) => Unit(a.how) = "metres"
  BY <1>2, <1>4, <1>5, AssignedParts DEF AsManyAsSent, Unit
<1>7. \A f \in Fields(t) \ LeftOut(t) : \E a \in conversion : a.from = f
  BY <1>2, <1>4, <1>5, AssignedParts
<1>8. "nowhere" \notin Fields(t) \cup InMillimetres(t)
  BY <1>4, <1>5
<1> QED BY <1>3, <1>6, <1>7, <1>8 DEF Faithful, conversion, declared

LEMMA SSL_DetectionRobotFaithful == Faithful("SSL_DetectionRobot")
<1> DEFINE t == "SSL_DetectionRobot"
           conversion == Conversion[t]
           declared == Proto[t]
<1>1. conversion = DetectionConversions[t] /\ declared = DetectionProtos[t]
  BY ConversionIncludes, ProtoIncludes DEF Includes, DetectionConversions, DetectionProtos
<1>2. conversion
        = {Assigned("confidence", "confidence", "copy"),
           Assigned("robot_id", "robot_id", "copy"),
           Assigned("height", "height", "copy"),
           Assigned("pose.position.x", "x", "to_metres"),
           Assigned("pose.position.y", "y", "to_metres"),
           Assigned("pose.orientation", "orientation", "to_quaternion"),
           Assigned("pixel.x", "pixel_x", "copy"),
           Assigned("pixel.y", "pixel_y", "copy")}
  BY <1>1 DEF DetectionConversions, Copy, Assignments, Renamed, Assigned
<1> HIDE DEF conversion
<1>3. \A a, b \in conversion : a.to = b.to \/ a.from = b.from => a = b
  BY <1>2, AssignedParts
<1>4. /\ Fields(t)
           = {"confidence", "x", "y", "pixel_x", "pixel_y", "robot_id", "orientation",
              "height"}
      /\ declared.optional \cup declared.oneof = {"robot_id", "orientation", "height"}
      /\ declared.repeated = {}
  BY <1>1 DEF DetectionProtos, Declares, Fields
<1>5. /\ ReadAsDefault(t) = {"robot_id", "orientation", "height"}
      /\ InMillimetres(t) = {"x", "y"}
      /\ LeftOut(t) = {}
  BY <1>1 DEF DetectionProtos, Declares, ReadAsDefault, InMillimetres, LeftOut
<1> HIDE DEF declared
<1>6. \A a \in conversion :
        /\ a.from \in Fields(t)
        /\ a.to \in Fields(t) => a.from = a.to
        /\ a.from \in declared.repeated => a.how \in AsManyAsSent
        /\ a.to \in (declared.optional \cup declared.oneof) \ ReadAsDefault(t)
             => a.how \in AsManyAsSent
        /\ a.from \in InMillimetres(t) => Unit(a.how) = "metres"
  BY <1>2, <1>4, <1>5, AssignedParts DEF AsManyAsSent, Unit
<1>7. \A f \in Fields(t) \ LeftOut(t) : \E a \in conversion : a.from = f
  BY <1>2, <1>4, <1>5, AssignedParts
<1>8. "nowhere" \notin Fields(t) \cup InMillimetres(t)
  BY <1>4, <1>5
<1> QED BY <1>3, <1>6, <1>7, <1>8 DEF Faithful, conversion, declared

LEMMA SSL_GeometryCameraCalibrationFaithful == Faithful("SSL_GeometryCameraCalibration")
<1> DEFINE t == "SSL_GeometryCameraCalibration"
           conversion == Conversion[t]
           declared == Proto[t]
<1>1. conversion = GeometryConversions[t] /\ declared = CameraProtos[t]
  BY ConversionIncludes, ProtoIncludes DEF Includes, GeometryConversions, CameraProtos
<1>2. conversion
        = {Assigned("camera_id", "camera_id", "copy"),
           Assigned("focal_length", "focal_length", "copy"),
           Assigned("distortion", "distortion", "copy"),
           Assigned("principal_point.x", "principal_point_x", "copy"),
           Assigned("principal_point.y", "principal_point_y", "copy"),
           Assigned("pose.orientation.x", "q0", "copy"),
           Assigned("pose.orientation.y", "q1", "copy"),
           Assigned("pose.orientation.z", "q2", "copy"),
           Assigned("pose.orientation.w", "q3", "copy"),
           Assigned("pose.position.x", "tx", "to_metres"),
           Assigned("pose.position.y", "ty", "to_metres"),
           Assigned("pose.position.z", "tz", "to_metres"),
           Assigned("derived_camera_world_t.x", "derived_camera_world_tx", "to_metres"),
           Assigned("derived_camera_world_t.y", "derived_camera_world_ty", "to_metres"),
           Assigned("derived_camera_world_t.z", "derived_camera_world_tz", "to_metres")}
  BY <1>1 DEF GeometryConversions, Copy, Assignments, Renamed, Assigned
<1> HIDE DEF conversion
<1>3. \A a, b \in conversion : a.to = b.to \/ a.from = b.from => a = b
  BY <1>2, AssignedParts
<1>4. /\ Fields(t)
           = {"camera_id", "focal_length", "principal_point_x", "principal_point_y",
              "distortion", "q0", "q1", "q2", "q3", "tx", "ty", "tz",
              "derived_camera_world_tx", "derived_camera_world_ty",
              "derived_camera_world_tz", "pixel_image_width", "pixel_image_height"}
      /\ declared.optional \cup declared.oneof
           = {"derived_camera_world_tx", "derived_camera_world_ty",
              "derived_camera_world_tz", "pixel_image_width", "pixel_image_height"}
      /\ declared.repeated = {}
  BY <1>1 DEF CameraProtos, Declares, Fields
<1>5. /\ ReadAsDefault(t)
           = {"derived_camera_world_tx", "derived_camera_world_ty",
              "derived_camera_world_tz", "pixel_image_width", "pixel_image_height"}
      /\ InMillimetres(t) = {}
      /\ LeftOut(t) = {"pixel_image_width", "pixel_image_height"}
  BY <1>1 DEF CameraProtos, Declares, ReadAsDefault, InMillimetres, LeftOut
<1> HIDE DEF declared
<1>6. \A a \in conversion :
        /\ a.from \in Fields(t)
        /\ a.to \in Fields(t) => a.from = a.to
        /\ a.from \in declared.repeated => a.how \in AsManyAsSent
        /\ a.to \in (declared.optional \cup declared.oneof) \ ReadAsDefault(t)
             => a.how \in AsManyAsSent
        /\ a.from \in InMillimetres(t) => Unit(a.how) = "metres"
  BY <1>2, <1>4, <1>5, AssignedParts DEF AsManyAsSent, Unit
<1>7. \A f \in Fields(t) \ LeftOut(t) : \E a \in conversion : a.from = f
  BY <1>2, <1>4, <1>5, AssignedParts
<1>8. "nowhere" \notin Fields(t) \cup InMillimetres(t)
  BY <1>4, <1>5
<1> QED BY <1>3, <1>6, <1>7, <1>8 DEF Faithful, conversion, declared

LEMMA SSL_GeometryDataFaithful == Faithful("SSL_GeometryData")
<1> DEFINE t == "SSL_GeometryData"
           conversion == Conversion[t]
           declared == Proto[t]
<1>1. conversion = GeometryConversions[t] /\ declared = CameraProtos[t]
  BY ConversionIncludes, ProtoIncludes DEF Includes, GeometryConversions, CameraProtos
<1>2. conversion
        = {Assigned("field", "field", "copy"),
           Assigned("calibration", "calib", "each")}
  BY <1>1 DEF GeometryConversions, Copy, Assignments, Renamed, Assigned
<1> HIDE DEF conversion
<1>3. \A a, b \in conversion : a.to = b.to \/ a.from = b.from => a = b
  BY <1>2, AssignedParts
<1>4. /\ Fields(t) = {"field", "models", "calib"}
      /\ declared.optional \cup declared.oneof = {"models"}
      /\ declared.repeated = {"calib"}
  BY <1>1 DEF CameraProtos, Declares, Fields
<1>5. /\ ReadAsDefault(t) = {}
      /\ InMillimetres(t) = {}
      /\ LeftOut(t) = {"models"}
  BY <1>1 DEF CameraProtos, Declares, ReadAsDefault, InMillimetres, LeftOut
<1> HIDE DEF declared
<1>6. \A a \in conversion :
        /\ a.from \in Fields(t)
        /\ a.to \in Fields(t) => a.from = a.to
        /\ a.from \in declared.repeated => a.how \in AsManyAsSent
        /\ a.to \in (declared.optional \cup declared.oneof) \ ReadAsDefault(t)
             => a.how \in AsManyAsSent
        /\ a.from \in InMillimetres(t) => Unit(a.how) = "metres"
  BY <1>2, <1>4, <1>5, AssignedParts DEF AsManyAsSent, Unit
<1>7. \A f \in Fields(t) \ LeftOut(t) : \E a \in conversion : a.from = f
  BY <1>2, <1>4, <1>5, AssignedParts
<1>8. "nowhere" \notin Fields(t) \cup InMillimetres(t)
  BY <1>4, <1>5
<1> QED BY <1>3, <1>6, <1>7, <1>8 DEF Faithful, conversion, declared

-----------------------------------------------------------------------------
(***************************************************************************)
(* Every overload.                                                         *)
(***************************************************************************)
\* No overload forgets a field, reads another's or reads it in the wrong way.
LEMMA OverloadsFaithful == \A t \in Messages : Faithful(t)
<1>1. Messages = DOMAIN CommonProtos \cup DOMAIN RefereeProtos \cup DOMAIN GameEventProtos
                   \cup DOMAIN EventProtos \cup DOMAIN FurtherEventProtos
                   \cup DOMAIN LastEventProtos \cup DOMAIN DetectionProtos
                   \cup DOMAIN FieldProtos \cup DOMAIN CameraProtos \cup DOMAIN WrapperProtos
  BY ProtoIncludes DEF Messages
<1>2. \A t \in DOMAIN CommonProtos \cup DOMAIN RefereeProtos \cup DOMAIN GameEventProtos :
        Faithful(t)
  BY StraightOverloads, GameEventFaithful, RefereeFaithful, DivisionFaithful, TeamFaithful
     DEF CommonProtos, RefereeProtos, GameEventProtos
<1>3. \A t \in DOMAIN EventProtos :
        Faithful(t)
  BY TeamEventsFaithful, StraightOverloads
     DEF EventProtos, TeamEvents
<1>4. \A t \in DOMAIN FurtherEventProtos :
        Faithful(t)
  BY TeamEventsFaithful, StraightOverloads
     DEF FurtherEventProtos, TeamEvents
<1>5. \A t \in DOMAIN LastEventProtos :
        Faithful(t)
  BY TeamEventsFaithful, StraightOverloads
     DEF LastEventProtos, TeamEvents
<1>6. \A t \in DOMAIN DetectionProtos \cup DOMAIN FieldProtos :
        Faithful(t)
  BY StraightOverloads, SSL_DetectionBallFaithful,
     SSL_DetectionRobotFaithful
     DEF DetectionProtos, FieldProtos
<1>7. \A t \in DOMAIN CameraProtos \cup DOMAIN WrapperProtos :
        Faithful(t)
  BY StraightOverloads, SSL_GeometryCameraCalibrationFaithful,
     SSL_GeometryDataFaithful
     DEF CameraProtos, WrapperProtos
<1> QED BY <1>1, <1>2, <1>3, <1>4, <1>5, <1>6, <1>7

=============================================================================
