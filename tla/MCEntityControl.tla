-------------------------- MODULE MCEntityControl --------------------------
(***************************************************************************)
(* Instances of EntityControl: one entity of every type, fans with several *)
(* numbers of speeds, lights of both platforms.                            *)
(***************************************************************************)
EXTENDS EntityControl

\* "wide" marks the entities that are only converted, from every state.
Simple(t, platform) ==
  [type |-> t, platform |-> platform, count |-> IF t = "select" THEN 3 ELSE 0,
   wide |-> FALSE]
FanOf(n, f) ==
  [type |-> "fan", platform |-> "esp32", count |-> n, osc |-> f, dir |-> f,
   wide |-> FALSE]
LightOf(platform, m, effects) ==
  [type |-> "light", platform |-> platform, modes |-> {SchemaColorMode(m)},
   mode |-> m, count |-> effects, wide |-> FALSE]

SimpleTypes == {"sensor", "switch", "binary", "button", "number", "text",
                "event", "position", "lock", "alarm", "select"}
Plains == {Simple(t, "esp32") : t \in SimpleTypes}
          \cup {Simple(t, "82xx") : t \in {"switch", "position", "lock"}}
RgbLights ==
  {LightOf("esp32", 39, 0), LightOf("esp32", 35, 0), LightOf("82xx", 35, 0)}
Wide(S) == {[c EXCEPT !.wide = TRUE] : c \in S}
MCConfigs ==
  Plains \cup RgbLights \cup {FanOf(1, TRUE), FanOf(3, TRUE), FanOf(0, FALSE)}
  \cup Wide({Simple("position", "esp32")} \cup RgbLights
            \cup {FanOf(n, TRUE) : n \in 1..51})

MCCommands(c) == IF c.wide THEN 0 ELSE 2
MCTouches(c) == IF c.wide THEN 0 ELSE 1

MCColours == {<<0, 0>>, <<0, 255>>, <<100, 255>>, <<170, 128>>}

\* An 82xx light reports neither a colour temperature nor a white channel,
\* and an "rgb" light has none.
FewStarts(c) ==
  CASE c.type \in {"sensor", "number", "text", "event"} ->
         [value : Floats]
    [] c.type \in {"switch", "binary"} -> [on : BOOLEAN]
    [] c.type = "button" -> [presses : {0}]
    [] c.type = "position" -> [pos : {0, 51, 100, 200}]
    [] c.type = "lock" ->
         [lock : {"LOCKED", "UNLOCKED", "JAMMED"}]
    [] c.type = "alarm" -> [state : 0..5]
    [] c.type = "select" -> [option : 0..(c.count - 1)]
    [] c.type = "fan" ->
         [on : BOOLEAN, speed : 0..c.count, osc : {FALSE}, rev : {c.dir}]
    [] c.type = "light" ->
         [on : {TRUE}, val : {200}, hs : MCColours, effect : {0},
          mode : {c.mode}, ct : IF c.mode = 39 THEN {0, 300} ELSE {0},
          white : IF c.mode = 39 THEN {77} ELSE {0}]

\* Every speed, position and hue.
AllStarts(c) ==
  CASE c.type = "position" -> [pos : 0..200]
    [] c.type = "fan" ->
         [on : BOOLEAN, speed : 0..c.count, osc : {FALSE}, rev : {TRUE}]
    [] c.type = "light" ->
         [on : {TRUE}, val : {128, 255}, hs : (0..255) \X {128, 255},
          effect : {0}, mode : {c.mode}, ct : {0},
          white : IF c.mode = 39 THEN {77} ELSE {0}]

MCStarts(c) == IF c.wide THEN AllStarts(c) ELSE FewStarts(c)

MCLights(c) ==
  LET rgb == {<<255, 0, 0>>, <<9, 200, 40>>}
  IN IF c.mode = 39
       THEN [on : {TRUE}, val : {128}, rgb : rgb, ct : {0, 300}, white : {0, 5}]
       ELSE IF c.count = 0
         THEN [on : BOOLEAN, val : {128, 255}, rgb : rgb]
         ELSE [on : {TRUE}, val : {255}, rgb : rgb, effect : 0..c.count]
MCPositions == {-5, 37, 130}
=============================================================================
