--------------------------- MODULE MessageConversion ---------------------------
(***************************************************************************)
(* message_conversion.cpp: fromProto, overloaded for every message.  Each  *)
(* overload is a list of assignments; here it is the set of them, a record *)
(* each: the ROS field it writes, the protobuf field it reads and how.     *)
(*                                                                         *)
(* A protobuf message is a type and, for each of its fields, the number of *)
(* values it holds; a ROS field becomes the sequence of the values put     *)
(* into it, each known by where it came from (its field and its place in   *)
(* it) and by its unit.  A field that holds a message is one value: what   *)
(* is in it is the business of that message's own overload, which the      *)
(* compiler chooses by the type.                                           *)
(***************************************************************************)
EXTENDS LeagueProtobufs, TimeStamps, Sequences

CONSTANTS MaxRepeated,  \* bound: values in a repeated field
          Instants      \* bound: the times, in microseconds, of the timed messages

ASSUME ConversionAssumption == MaxRepeated \in Nat \ {0} /\ Instants \subseteq Nat

-----------------------------------------------------------------------------
(***************************************************************************)
(* The ways of an assignment.                                              *)
(***************************************************************************)
Assignments(how, fields) == {[to |-> f, from |-> f, how |-> how] : f \in fields}

\* ros_msg.f = proto_msg.f(): an unset field reads as its default.
Copy(fields) == Assignments("copy", fields)

\* CopyOptional, CopyOptionalStruct, CopyOptionalEnum: an array of one or none.
CopyOptionalUnchecked(fields) == Copy(fields)  \* mutant: no test of has_...

CopyOptional(fields) == Assignments("if_set", fields)

\* std::copy or std::transform of a repeated field, behind what is there.
Transform(fields) == Assignments("each", fields)

\* ros_msg.f = proto_msg.f() * mmTom.
ToMetresUnscaled(fields) == Copy(fields)  \* mutant: no * mmTom

ToMetres(fields) == Assignments("to_metres", fields)

\* The same, where the ROS field has another name than the protobuf one.
Renamed(how, pairs) == {[to |-> p[2], from |-> p[1], how |-> how] : p \in pairs}

\* Time stamps (their values: StampOf).
ToTime(fields) == Assignments("to_time", fields)

-----------------------------------------------------------------------------
(***************************************************************************)
(* The overloads, in the order of the file.                                *)
(***************************************************************************)
VectorConversions == [Vector2 |-> Copy({"x", "y"}), Vector3 |-> Copy({"x", "y", "z"})]

RefereeConversion ==
  [Referee |->
     CopyOptional({"source_identifier", "match_type", "stage_time_left",
                   "blue_team_on_positive_half", "next_command",
                   "current_action_time_remaining", "status_message"})
     \cup Copy({"stage", "command", "command_counter", "yellow", "blue"})
     \cup Renamed("to_time", {<<"packet_timestamp", "timestamp">>})
     \cup ToTime({"command_timestamp"})
     \cup Assignments("to_metres_if_set", {"designated_position"})
     \cup Transform({"game_events", "game_event_proposals"})]

TeamInfoConversion ==
  [TeamInfo |->
     Copy({"name", "score", "red_cards", "yellow_cards", "timeouts", "timeout_time",
           "goalkeeper"})
     \cup Transform({"yellow_card_times"})
     \cup CopyOptional({"foul_counter", "ball_placement_failures", "can_place_ball",
                        "max_allowed_bots", "bot_substitution_intent",
                        "ball_placement_failures_reached", "bot_substitution_allowed",
                        "bot_substitutions_left", "bot_substitution_time_left"})]

ConvertedEvents ==
  {"ball_left_field_touch_line", "ball_left_field_goal_line", "aimless_kick",
   "attacker_too_close_to_defense_area", "defender_in_defense_area", "boundary_crossing",
   "keeper_held_ball", "bot_dribbled_ball_too_far", "bot_pushed_bot",
   "bot_held_ball_deliberately", "bot_tipped_over", "bot_dropped_parts",
   "attacker_touched_ball_in_defense_area", "bot_kicked_ball_too_fast", "bot_crash_unique",
   "bot_crash_drawn", "defender_too_close_to_kick_point", "bot_too_fast_in_stop",
   "bot_interfered_placement", "possible_goal", "goal", "invalid_goal",
   "attacker_double_touched_ball", "placement_succeeded", "penalty_kick_failed",
   "no_progress_in_game", "placement_failed", "multiple_cards", "multiple_fouls",
   "bot_substitution", "excessive_bot_substitution", "too_many_robots", "challenge_flag",
   "challenge_flag_handled", "emergency_stop", "unsporting_behavior_minor",
   "unsporting_behavior_major"}

GameEventForgetting ==  \* mutant: one kind of event is left out
  [GameEvent |-> Copy({"id", "type", "created_timestamp"}) \cup Transform({"origin"})
                   \cup CopyOptional(ConvertedEvents \ {"boundary_crossing"})]

GameEventMixingGoals ==  \* mutant: invalid_goal copied from its neighbour
  [GameEvent |-> Copy({"id", "type", "created_timestamp"}) \cup Transform({"origin"})
                   \cup CopyOptional(ConvertedEvents \ {"invalid_goal"})
                   \cup Renamed("if_set", {<<"goal", "invalid_goal">>})]

GameEventConversion ==
  [GameEvent |-> Copy({"id", "type", "created_timestamp"}) \cup Transform({"origin"})
                   \cup CopyOptional(ConvertedEvents)]

SmallConversions ==
  [GameEventProposalGroup |->
     CopyOptional({"id"}) \cup Transform({"game_events"}) \cup Copy({"accepted"}),
   Division |-> Renamed("copy", {<<"value", "division">>}),
   RobotId  |-> CopyOptional({"team", "id"}),
   Team     |-> Renamed("copy", {<<"value", "color">>})]

\* by_team is required; CopyOptional takes the rest.
OfTeam(optional) == Copy({"by_team"}) \cup CopyOptional(optional)

\* AimlessKick to BotSubstitution.
EventConversions ==
  [AimlessKick |-> OfTeam({"by_bot", "location", "kick_location"}),
   AttackerDoubleTouchedBall |-> OfTeam({"by_bot", "location"}),
   AttackerTooCloseToDefenseArea |->
     OfTeam({"by_bot", "location", "distance", "ball_location"}),
   AttackerTouchedBallInDefenseArea |-> OfTeam({"by_bot", "location", "distance"}),
   AttackerTouchedOpponentInDefenseArea |-> OfTeam({"by_bot", "victim", "location"}),
   BallLeftField |-> OfTeam({"by_bot", "location"}),
   BotCrashDrawn |-> CopyOptional({"bot_yellow", "bot_blue", "location", "crash_speed",
                                   "speed_diff", "crash_angle"}),
   BotCrashUnique |-> OfTeam({"violator", "victim", "location", "crash_speed", "speed_diff",
                              "crash_angle"}),
   BotDribbledBallTooFar |-> OfTeam({"by_bot", "start", "end"}),
   BotHeldBallDeliberately |-> OfTeam({"by_bot", "location", "duration"}),
   BotInterferedPlacement |-> OfTeam({"by_bot", "location"}),
   BotKickedBallTooFast |-> OfTeam({"by_bot", "location", "initial_ball_speed", "chipped"}),
   BotPushedBot |-> OfTeam({"violator", "victim", "location", "pushed_distance"}),
   BotSubstitution |-> OfTeam({})]

\* BotTippedOver to MultiplePlacementFailures.
FurtherEventConversions ==
  [BotTippedOver |-> OfTeam({"by_bot", "location", "ball_location"}),
   BotTooFastInStop |-> OfTeam({"by_bot", "location", "speed"}),
   BoundaryCrossing |-> OfTeam({"location"}),
   ChallengeFlag |-> OfTeam({}),
   ChippedGoal |-> OfTeam({"by_bot", "location", "kick_location", "max_ball_height"}),
   DefenderInDefenseArea |-> OfTeam({"by_bot", "location", "distance"}),
   DefenderInDefenseAreaPartially |->
     OfTeam({"by_bot", "location", "distance", "ball_location"}),
   DefenderTooCloseToKickPoint |-> OfTeam({"by_bot", "location", "distance"}),
   EmergencyStop |-> OfTeam({}),
   Goal |-> OfTeam({"kicking_team", "kicking_bot", "location", "kick_location",
                    "max_ball_height", "num_robots_by_team", "last_touch_by_team", "message"}),
   IndirectGoal |-> OfTeam({"by_bot", "location", "kick_location"}),
   KeeperHeldBall |-> OfTeam({"location", "duration"}),
   KickTimeout |-> OfTeam({"location", "time"}),
   MultipleCards |-> OfTeam({}),
   MultipleFouls |-> OfTeam({}),
   MultiplePlacementFailures |-> OfTeam({})]

\* NoProgressInGame to ExcessiveBotSubstitution.
LastEventConversions ==
  [NoProgressInGame |-> CopyOptional({"location", "time"}),
   PenaltyKickFailed |-> OfTeam({"location"}),
   PlacementFailed |-> OfTeam({"remaining_distance"}),
   PlacementSucceeded |-> OfTeam({"time_taken", "precision", "distance"}),
   Prepared |-> CopyOptional({"time_taken"}),
   TooManyRobots |-> OfTeam({"num_robots_allowed", "num_robots_on_field", "ball_location"}),
   UnsportingBehaviorMajor |-> Copy({"by_team", "reason"}),
   UnsportingBehaviorMinor |-> Copy({"by_team", "reason"}),
   BotDroppedParts |-> OfTeam({"by_bot", "location", "ball_location"}),
   ChallengeFlagHandled |-> Copy({"by_team", "accepted"}),
   ExcessiveBotSubstitution |-> OfTeam({})]

DetectionConversions ==
  [SSL_DetectionBall |->
     Copy({"confidence", "area"})
     \cup Renamed("to_metres", {<<"x", "pos.x">>, <<"y", "pos.y">>, <<"z", "pos.z">>})
     \cup Renamed("copy", {<<"pixel_x", "pixel.x">>, <<"pixel_y", "pixel.y">>}),
   SSL_DetectionRobot |->
     Copy({"confidence", "robot_id", "height"})
     \cup Renamed("to_metres", {<<"x", "pose.position.x">>, <<"y", "pose.position.y">>})
     \cup Renamed("to_quaternion", {<<"orientation", "pose.orientation">>})
     \cup Renamed("copy", {<<"pixel_x", "pixel.x">>, <<"pixel_y", "pixel.y">>}),
   SSL_DetectionFrame |->
     Copy({"frame_number", "camera_id"})
     \cup ToTime({"t_capture", "t_sent", "t_capture_camera"})
     \cup Transform({"balls", "robots_yellow", "robots_blue"})]

FieldConversions ==
  [SSL_FieldLineSegment |->
     Copy({"name"}) \cup ToMetres({"p1.x", "p1.y", "p2.x", "p2.y", "thickness"}),
   SSL_FieldCircularArc |->
     Copy({"name", "a1", "a2"})
     \cup ToMetres({"center.x", "center.y", "radius", "thickness"}),
   SSL_GeometryFieldSize |->
     ToMetres({"field_length", "field_width", "goal_width", "goal_depth", "boundary_width",
               "penalty_area_depth", "penalty_area_width", "center_circle_radius",
               "line_thickness", "goal_center_to_penalty_mark", "goal_height",
               "ball_radius", "max_robot_radius"})
     \cup Transform({"field_lines", "field_arcs"})]

GeometryConversions ==
  [SSL_GeometryCameraCalibration |->
     Copy({"camera_id", "focal_length", "distortion"})
     \cup Renamed("copy", {<<"principal_point_x", "principal_point.x">>,
                           <<"principal_point_y", "principal_point.y">>,
                           <<"q0", "pose.orientation.x">>, <<"q1", "pose.orientation.y">>,
                           <<"q2", "pose.orientation.z">>, <<"q3", "pose.orientation.w">>})
     \cup Renamed("to_metres", {<<"tx", "pose.position.x">>, <<"ty", "pose.position.y">>,
                                <<"tz", "pose.position.z">>,
                                <<"derived_camera_world_tx", "derived_camera_world_t.x">>,
                                <<"derived_camera_world_ty", "derived_camera_world_t.y">>,
                                <<"derived_camera_world_tz", "derived_camera_world_t.z">>}),
   SSL_GeometryData |-> Copy({"field"}) \cup Renamed("each", {<<"calib", "calibration">>}),
   SSL_WrapperPacket |-> CopyOptional({"detection", "geometry"})]

Conversion ==
  VectorConversions ++ RefereeConversion ++ TeamInfoConversion ++ GameEventConversion
    ++ SmallConversions ++ EventConversions ++ FurtherEventConversions
    ++ LastEventConversions ++ DetectionConversions ++ FieldConversions
    ++ GeometryConversions

-----------------------------------------------------------------------------
(***************************************************************************)
(* What an assignment puts into its ROS field.                             *)
(***************************************************************************)
Units == {"metres", "quaternion", "time", "as_sent"}

Unit(how) ==
  CASE how \in {"to_metres", "to_metres_if_set"} -> "metres"
    [] how = "to_quaternion" -> "quaternion"
    [] how = "to_time" -> "time"
    [] OTHER -> "as_sent"

Default == [from |-> "nowhere", place |-> 0, unit |-> "none"]

PutResized(assignment, sent) ==  \* mutant: resized first, and then appended to
  LET value(i) == [from |-> assignment.from, place |-> i, unit |-> Unit(assignment.how)]
      count == sent[assignment.from]
  IN  CASE assignment.how = "each" ->
             [i \in 1 .. 2 * count |-> IF i <= count THEN Default ELSE value(i - count)]
        [] assignment.how \in {"if_set", "to_metres_if_set"} -> [i \in 1 .. count |-> value(i)]
        [] OTHER -> <<IF count = 0 THEN Default ELSE value(1)>>

Put(assignment, sent) ==
  LET value(i) == [from |-> assignment.from, place |-> i, unit |-> Unit(assignment.how)]
      count == sent[assignment.from]
  IN  IF assignment.how \in {"if_set", "to_metres_if_set", "each"}
        THEN [i \in 1 .. count |-> value(i)]
        ELSE <<IF count = 0 THEN Default ELSE value(1)>>

\* The ROS message: no two assignments of an overload write the same field.
Converted(t, sent) ==
  [g \in {a.to : a \in Conversion[t]} |->
     Put(CHOOSE a \in Conversion[t] : a.to = g, sent)]

\* The time stamps of the two messages that have one: that of the referee's packet,
\* and that of the frame's capture.
NoStamp == [sec |-> 0, nanosec |-> 0]

StampOf(t, instant) ==
  IF t = "Referee" THEN FromMicroseconds(instant)
  ELSE IF t = "SSL_DetectionFrame" THEN FromSeconds(instant * NsPerUs)
  ELSE NoStamp

Timed == {"Referee", "SSL_DetectionFrame"}

\* A message with its required fields set, and at most one of its oneof.
Filled(t, optional, repeated, event) ==
  [f \in Proto[t].required |-> 1] ++ optional ++ repeated
    ++ [f \in Proto[t].oneof |-> IF f = event THEN 1 ELSE 0]

\* The messages that the protobuf library accepts: no required field is missing.
Acceptable(t) ==
  {Filled(t, optional, repeated, event) :
     optional \in [Proto[t].optional -> 0 .. 1],
     repeated \in [Proto[t].repeated -> 0 .. MaxRepeated],
     event \in Proto[t].oneof \cup {"none"}}

-----------------------------------------------------------------------------
VARIABLES type,    \* the message an overload is called with: its type,
          fields,  \* the number of values in each of its fields,
          at,      \* and the instant it tells of, in microseconds
          ros,     \* what the last call has returned
          stamp,   \* and the time in it
          phase    \* idle, called, returned

vars == <<type, fields, at, ros, stamp, phase>>

Init ==
  /\ type = "SSL_WrapperPacket"
  /\ fields = [f \in Fields("SSL_WrapperPacket") |-> 0]
  /\ at = 0
  /\ ros = <<>>
  /\ stamp = NoStamp
  /\ phase = "idle"

\* fromProto is called: by a node with the packet it has parsed, by an overload with
\* a message within its own.
Call ==
  /\ phase = "idle"
  /\ \E t \in Messages :
       /\ type' = t
       /\ fields' \in Acceptable(t)
       /\ at' \in IF t \in Timed THEN Instants ELSE {0}
  /\ phase' = "called"
  /\ UNCHANGED <<ros, stamp>>

FromProto ==
  /\ phase = "called"
  /\ ros' = Converted(type, fields)
  /\ stamp' = StampOf(type, at)
  /\ phase' = "returned"
  /\ UNCHANGED <<type, fields, at>>

Next == Call \/ FromProto

Spec == Init /\ [][Next]_vars

-----------------------------------------------------------------------------
(***************************************************************************)
(* Properties.                                                             *)
(***************************************************************************)
Returned == phase = "returned"

\* What a ROS field may hold: the values of one protobuf field, at most as many as were
\* sent, each with its unit.
ValuesOf(f) ==
  [from : {f}, place : 1 .. fields[f], unit : Units]

\* A builtin_interfaces::Time: int32 sec, and the nanoseconds of a second.
Times ==
  [sec : -(TwoTo32 \div 2) .. (TwoTo32 \div 2) - 1, nanosec : 0 .. NsPerSec - 1]

\* Every ROS field holds one default, or as many values as were sent of one field, in
\* a known unit; the time is one that a builtin_interfaces::Time can hold.
TypeOK ==
  /\ type \in Messages
  /\ fields \in [Fields(type) -> 0 .. MaxRepeated]
  /\ at \in Instants \cup {0}
  /\ phase \in {"idle", "called", "returned"}
  /\ \A g \in DOMAIN ros :
       \/ ros[g] = <<Default>>
       \/ \E f \in Fields(type) : ros[g] \in [1 .. fields[f] -> ValuesOf(f)]
  /\ stamp \in Times

\* The field f has arrived: some ROS field holds its values, all of them, in their
\* order, and nothing else.
Arrives(f) ==
  \E g \in DOMAIN ros :
    /\ Len(ros[g]) = fields[f]
    /\ \A i \in 1 .. fields[f] : ros[g][i].from = f /\ ros[g][i].place = i

\* The protobuf fields that the ROS message does not declare: the recursion that ROS
\* does not allow, the models and the shapes of the field, the image sizes of cameras.
Undeclared(t) ==
  CASE t = "MultipleFouls" -> {"caused_game_events"}
    [] t \in {"SSL_FieldLineSegment", "SSL_FieldCircularArc"} -> {"type"}
    [] t = "SSL_GeometryCameraCalibration" -> {"pixel_image_width", "pixel_image_height"}
    [] t = "SSL_GeometryData" -> {"models"}
    [] OTHER -> {}

\* The fields that the ROS message declares too, but its overload does not fill: ten
\* kinds of events that the league marks as deprecated, and two others.  They are what
\* MirrorsProtobufs is about.
Unfilled(t) ==
  CASE t = "GameEvent" -> DeprecatedEvents
    [] t = "PenaltyKickFailed" -> {"reason"}
    [] t = "PlacementFailed" -> {"nearest_own_bot_distance"}
    [] OTHER -> {}

LeftOut(t) == Undeclared(t) \cup Unfilled(t)

\* Every other field of every message arrives, whatever else is set beside it: of
\* some three hundred assignments none is missing but those twelve.
EverySetFieldArrives ==
  Returned =>
    \A f \in Fields(type) \ LeftOut(type) : fields[f] > 0 => Arrives(f)

\* A ROS field takes its values from the field of its own name if there is one, and
\* no protobuf field ends up in two places: an event is never told as another one, a
\* yellow robot never as a blue one.
NoFieldTakesAnothers ==
  \A g \in DOMAIN ros : \A i \in DOMAIN ros[g] :
    ros[g][i] # Default =>
      /\ g \in Fields(type) => ros[g][i].from = g
      /\ \A h \in DOMAIN ros \ {g} : \A j \in DOMAIN ros[h] : ros[h][j].from # ros[g][i].from

\* The optional fields that are plain fields in the ROS message.
ReadAsDefault(t) ==
  CASE t = "GameEvent" -> {"id", "type", "created_timestamp"}
    [] t = "GameEventProposalGroup" -> {"accepted"}
    [] t \in {"SSL_DetectionBall", "SSL_DetectionRobot", "SSL_DetectionFrame",
              "SSL_GeometryFieldSize", "SSL_GeometryCameraCalibration"} -> Proto[t].optional
    [] OTHER -> {}

\* "These fields will either hold one or zero elements" (README.md:57): outside the
\* messages of ssl-vision, and but for four fields, an optional field that is not
\* set can be told from one that is set to zero.
AbsenceIsVisible ==
  Returned =>
    \A f \in (Proto[type].optional \cup Proto[type].oneof) \ ReadAsDefault(type) :
      f \in DOMAIN ros => Len(ros[f]) = fields[f]

\* What the league sends in millimetres arrives in metres, in every message the same.
LengthsInMetres ==
  \A g \in DOMAIN ros : \A i \in DOMAIN ros[g] :
    ros[g][i].from \in InMillimetres(type) => ros[g][i].unit = "metres"

\* The times of the referee and of the cameras are on one scale: the first exact, the
\* second to half the distance of two doubles; nanosec is positive.
StampsKeepTime ==
  LET ns == at * NsPerUs
  IN  Returned /\ type \in Timed /\ Representable(ns + NsPerDouble) =>
        IF type = "Referee"
          THEN Nanoseconds(stamp) = ns
          ELSE 2 * (Nanoseconds(stamp) - ns) \in -NsPerDouble .. NsPerDouble

\* What the ROS messages declare; those not listed here declare each protobuf field, if
\* under another name, but the ones that are Undeclared.
GameEventMsg ==
  {"id", "type", "origin", "created_timestamp"} \cup CurrentEvents \cup DeprecatedEvents
PenaltyKickFailedMsg == {"by_team", "location", "reason"}
PlacementFailedMsg == {"by_team", "remaining_distance", "nearest_own_bot_distance"}

Declared(t) ==
  CASE t = "GameEvent" -> GameEventMsg
    [] t = "PenaltyKickFailed" -> PenaltyKickFailedMsg
    [] t = "PlacementFailed" -> PlacementFailedMsg
    [] OTHER -> Fields(t) \ Undeclared(t)

\* "This package defines ROS messages which closely mirror the league protobufs."
\* (README.md:53): a field that both declare arrives when it is set.
MirrorsProtobufs ==
  Returned =>
    \A f \in Declared(type) \cap Fields(type) : fields[f] > 0 => Arrives(f)
=============================================================================
