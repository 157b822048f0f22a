---------------------------- MODULE LeagueProtobufs ----------------------------
(***************************************************************************)
(* What the league's .proto files declare, as far as the bridge reads it:  *)
(* of each message its required, optional and repeated fields, and the     *)
(* fields of its oneof, at most one of which is set.  A point that the     *)
(* bridge takes apart (p1, p2, center) is declared by its coordinates.     *)
(* An enum that is converted on its own has the one field "value".         *)
(***************************************************************************)
\* Two tables of messages as one; TLC's @@, defined here so that proofs can use it.
f ++ g ==
  [x \in DOMAIN f \cup DOMAIN g |-> IF x \in DOMAIN f THEN f[x] ELSE g[x]]

Declares(required, optional, repeated) ==
  [required |-> required, optional |-> optional, repeated |-> repeated, oneof |-> {}]

Vector2Proto == Declares({"x", "y"}, {}, {})
Vector3Proto == Declares({"x", "y", "z"}, {}, {})

CommonProtos ==
  [Vector2  |-> Vector2Proto,
   Vector3  |-> Vector3Proto,
   Team     |-> Declares({"value"}, {}, {}),
   Division |-> Declares({"value"}, {}, {}),
   RobotId  |-> Declares({}, {"id", "team"}, {})]

RefereeProtos ==
  [Referee |-> Declares({"packet_timestamp", "stage", "command", "command_counter",
                         "command_timestamp", "yellow", "blue"},
                        {"source_identifier", "match_type", "stage_time_left",
                         "designated_position", "blue_team_on_positive_half", "next_command",
                         "current_action_time_remaining", "status_message"},
                        {"game_events", "game_event_proposals"}),
   TeamInfo |-> Declares({"name", "score", "red_cards", "yellow_cards", "timeouts",
                          "timeout_time", "goalkeeper"},
                         {"foul_counter", "ball_placement_failures", "can_place_ball",
                          "max_allowed_bots", "bot_substitution_intent",
                          "ball_placement_failures_reached", "bot_substitution_allowed",
                          "bot_substitutions_left", "bot_substitution_time_left"},
                         {"yellow_card_times"}),
   GameEventProposalGroup |-> Declares({}, {"id", "accepted"}, {"game_events"})]

CurrentEvents ==
  {"ball_left_field_touch_line", "ball_left_field_goal_line", "aimless_kick",
   "attacker_too_close_to_defense_area", "defender_in_defense_area", "boundary_crossing",
   "keeper_held_ball", "bot_dribbled_ball_too_far", "bot_pushed_bot",
   "bot_held_ball_deliberately", "bot_tipped_over", "bot_dropped_parts",
   "attacker_touched_ball_in_defense_area", "bot_kicked_ball_too_fast", "bot_crash_unique",
   "bot_crash_drawn", "defender_too_close_to_kick_point", "bot_too_fast_in_stop",
   "bot_interfered_placement", "possible_goal", "goal", "invalid_goal",
   "attacker_double_touched_ball", "placement_succeeded", "penalty_kick_failed",
   "no_progress_in_game", "placement_failed", "multiple_cards", "multiple_fouls",
   "bot_substitution", "excessive_bot_substitution", "too_many_robots", "challenge_flag",
   "challenge_flag_handled", "emergency_stop", "unsporting_behavior_minor",
   "unsporting_behavior_major"}

DeprecatedEvents ==
  {"prepared", "indirect_goal", "chipped_goal", "kick_timeout",
   "attacker_touched_opponent_in_defense_area",
   "attacker_touched_opponent_in_defense_area_skipped", "bot_crash_unique_skipped",
   "bot_pushed_bot_skipped", "defender_in_defense_area_partially",
   "multiple_placement_failures"}

GameEventProtos ==
  [GameEvent |-> [required |-> {}, optional |-> {"id", "type", "created_timestamp"},
                  repeated |-> {"origin"}, oneof |-> CurrentEvents \cup DeprecatedEvents]]

\* Most events name a team; the rest of what they tell is optional.
ByTeam(optional) == Declares({"by_team"}, optional, {})

\* BallLeftField to AttackerTouchedBallInDefenseArea.
EventProtos ==
  [BallLeftField |-> ByTeam({"by_bot", "location"}),
   AimlessKick |-> ByTeam({"by_bot", "location", "kick_location"}),
   Goal |-> ByTeam({"kicking_team", "kicking_bot", "location", "kick_location",
                    "max_ball_height", "num_robots_by_team", "last_touch_by_team", "message"}),
   IndirectGoal |-> ByTeam({"by_bot", "location", "kick_location"}),
   ChippedGoal |-> ByTeam({"by_bot", "location", "kick_location", "max_ball_height"}),
   BotTooFastInStop |-> ByTeam({"by_bot", "location", "speed"}),
   DefenderTooCloseToKickPoint |-> ByTeam({"by_bot", "location", "distance"}),
   BotCrashDrawn |-> Declares({}, {"bot_yellow", "bot_blue", "location", "crash_speed",
                                   "speed_diff", "crash_angle"}, {}),
   BotCrashUnique |-> ByTeam({"violator", "victim", "location", "crash_speed", "speed_diff",
                              "crash_angle"}),
   BotPushedBot |-> ByTeam({"violator", "victim", "location", "pushed_distance"}),
   BotTippedOver |-> ByTeam({"by_bot", "location", "ball_location"}),
   BotDroppedParts |-> ByTeam({"by_bot", "location", "ball_location"}),
   DefenderInDefenseArea |-> ByTeam({"by_bot", "location", "distance"}),
   DefenderInDefenseAreaPartially |->
     ByTeam({"by_bot", "location", "distance", "ball_location"}),
   AttackerTouchedBallInDefenseArea |-> ByTeam({"by_bot", "location", "distance"})]

\* BotKickedBallTooFast to PlacementFailed.
FurtherEventProtos ==
  [BotKickedBallTooFast |-> ByTeam({"by_bot", "location", "initial_ball_speed", "chipped"}),
   BotDribbledBallTooFar |-> ByTeam({"by_bot", "start", "end"}),
   AttackerTouchedOpponentInDefenseArea |-> ByTeam({"by_bot", "victim", "location"}),
   AttackerDoubleTouchedBall |-> ByTeam({"by_bot", "location"}),
   AttackerTooCloseToDefenseArea |->
     ByTeam({"by_bot", "location", "distance", "ball_location"}),
   BotHeldBallDeliberately |-> ByTeam({"by_bot", "location", "duration"}),
   BotInterferedPlacement |-> ByTeam({"by_bot", "location"}),
   MultipleCards |-> ByTeam({}),
   MultipleFouls |-> Declares({"by_team"}, {}, {"caused_game_events"}),
   MultiplePlacementFailures |-> ByTeam({}),
   KickTimeout |-> ByTeam({"location", "time"}),
   NoProgressInGame |-> Declares({}, {"location", "time"}, {}),
   PlacementFailed |-> ByTeam({"remaining_distance", "nearest_own_bot_distance"})]

\* UnsportingBehaviorMinor to PenaltyKickFailed.
LastEventProtos ==
  [UnsportingBehaviorMinor |-> Declares({"by_team", "reason"}, {}, {}),
   UnsportingBehaviorMajor |-> Declares({"by_team", "reason"}, {}, {}),
   KeeperHeldBall |-> ByTeam({"location", "duration"}),
   PlacementSucceeded |-> ByTeam({"time_taken", "precision", "distance"}),
   Prepared |-> Declares({}, {"time_taken"}, {}),
   BotSubstitution |-> ByTeam({}),
   ExcessiveBotSubstitution |-> ByTeam({}),
   ChallengeFlag |-> ByTeam({}),
   ChallengeFlagHandled |-> Declares({"by_team", "accepted"}, {}, {}),
   EmergencyStop |-> ByTeam({}),
   TooManyRobots |-> ByTeam({"num_robots_allowed", "num_robots_on_field", "ball_location"}),
   BoundaryCrossing |-> ByTeam({"location"}),
   PenaltyKickFailed |-> ByTeam({"location", "reason"})]

DetectionProtos ==
  [SSL_DetectionBall |-> Declares({"confidence", "x", "y", "pixel_x", "pixel_y"},
                                  {"area", "z"}, {}),
   SSL_DetectionRobot |-> Declares({"confidence", "x", "y", "pixel_x", "pixel_y"},
                                   {"robot_id", "orientation", "height"}, {}),
   SSL_DetectionFrame |-> Declares({"frame_number", "t_capture", "t_sent", "camera_id"},
                                   {"t_capture_camera"},
                                   {"balls", "robots_yellow", "robots_blue"})]

FieldProtos ==
  [SSL_FieldLineSegment |->
     Declares({"name", "p1.x", "p1.y", "p2.x", "p2.y", "thickness"}, {"type"}, {}),
   SSL_FieldCircularArc |->
     Declares({"name", "center.x", "center.y", "radius", "a1", "a2", "thickness"},
              {"type"}, {}),
   SSL_GeometryFieldSize |->
     Declares({"field_length", "field_width", "goal_width", "goal_depth", "boundary_width"},
              {"penalty_area_depth", "penalty_area_width", "center_circle_radius",
               "line_thickness", "goal_center_to_penalty_mark", "goal_height",
               "ball_radius", "max_robot_radius"},
              {"field_lines", "field_arcs"})]

CameraProtos ==
  [SSL_GeometryCameraCalibration |->
     Declares({"camera_id", "focal_length", "principal_point_x", "principal_point_y",
               "distortion", "q0", "q1", "q2", "q3", "tx", "ty", "tz"},
              {"derived_camera_world_tx", "derived_camera_world_ty",
               "derived_camera_world_tz", "pixel_image_width", "pixel_image_height"}, {}),
   SSL_GeometryData |-> Declares({"field"}, {"models"}, {"calib"})]

WrapperProtos == [SSL_WrapperPacket |-> Declares({}, {"detection", "geometry"}, {})]

Proto ==
  CommonProtos ++ RefereeProtos ++ GameEventProtos ++ EventProtos ++ FurtherEventProtos
    ++ LastEventProtos ++ DetectionProtos ++ FieldProtos ++ CameraProtos ++ WrapperProtos

Messages == DOMAIN Proto

Fields(t) ==
  Proto[t].required \cup Proto[t].optional \cup Proto[t].repeated
    \cup Proto[t].oneof

\* The lengths that the .proto files, in their comments, give in millimetres.
InMillimetres(t) ==
  CASE t = "SSL_DetectionBall" -> {"x", "y", "z"}
    [] t = "SSL_DetectionRobot" -> {"x", "y"}
    [] t = "SSL_FieldLineSegment" -> {"p1.x", "p1.y", "p2.x", "p2.y"}
    [] t = "SSL_FieldCircularArc" -> {"center.x", "center.y"}
    [] t = "SSL_GeometryFieldSize" -> Fields(t) \ {"field_lines", "field_arcs"}
    [] t = "Referee" -> {"designated_position"}
    [] OTHER -> {}
=============================================================================
