--------------------------- MODULE EntityControl ---------------------------
(***************************************************************************)
(* One entity of a leaf, end to end: the ESPHome entity, the payload its   *)
(* state callback sends, the copy the bridge keeps, what the two           *)
(* dashboards show (MQTT discovery and the Home Assistant integration),    *)
(* the command a user gives there, the payload the bridge makes of it, and *)
(* what the leaf does with that payload.                                   *)
(*                                                                         *)
(* Payloads are sequences of bytes, so byte value[i] of the code is v[i+1] *)
(* here.  A float or a text is one opaque element that stands for its      *)
(* bytes.  A command is a function from the attributes it names to the     *)
(* values asked for; "json" tells a JSON object from a plain text.  The    *)
(* radio delivers payloads in order and without loss: StateDelivery and    *)
(* CommandDelivery are about that part.                                    *)
(***************************************************************************)
EXTENDS Integers, Sequences, FiniteSets, TLC

CONSTANTS
  Configs,     \* the entities considered: type, platform and options
  Starts(_),   \* the states an entity may be found in
  Floats,      \* numbers a user or a sensor may give
  Positions,   \* positions a user may type, out of range ones included
  Percents,    \* fan speeds a user may ask for, in percent
  Lights(_),   \* what a user may ask of a light: values of its attributes
  Partial,     \* whether a light command may leave attributes out
  MaxCommands(_), \* bound on the commands given to an entity
  MaxTouches(_)   \* bound on the changes made at the device itself

VARIABLES
  cfg,    \* the entity's schema record
  ent,    \* the ESPHome entity: a function from attributes to values
  up,     \* the state payloads on their way to the bridge
  cache,  \* current_value, the bridge's copy of the last payload
  shown,  \* what each dashboard shows: a function of attributes
  down,   \* the command payloads on their way to the leaf
  want,   \* what the user may count on: attributes and their values
  used    \* commands and touches so far

vars == <<cfg, ent, up, cache, shown, down, want, used>>

Paths == {"mqtt", "api"}
Bit(b) == IF b THEN 1 ELSE 0
Clamp(lo, hi, x) == IF x < lo THEN lo ELSE IF x > hi THEN hi ELSE x
\* lround of a / b for a non-negative fraction
Round(a, b) == (2 * a + b) \div (2 * b)
Abs(x) == IF x < 0 THEN -x ELSE x
Largest(S) == CHOOSE x \in S : \A y \in S : y <= x
Smallest(S) == CHOOSE x \in S : \A y \in S : x <= y
Nothing == [a \in {} |-> 0]

Junk == -1      \* a text strtof makes nothing of
NumberLen == 250

(* ----------------------------- colours -------------------------------- *)

\* Mutant: the falling and the rising channel are exchanged.
HsvToRgbSwapped(h, s, v) ==
  LET c == v * s * 255
      x == v * s * (255 - Abs(((6 * h) % 510) - 255))
      m == v * 65025 - c
      rgb == IF (6 * h) \div 255 = 1 THEN <<c, x, 0>> ELSE <<x, c, 0>>
  IN [i \in 1..3 |-> Round(rgb[i] + m, 65025)]

\* The hue in the code is a float of degrees; h * 6 / 255 is the sector of
\* the colour wheel and its fraction, kept here over the denominator 255.
HsvToRgb(h, s, v) ==
  LET c == v * s * 255
      x == v * s * (255 - Abs(((6 * h) % 510) - 255))
      m == v * 65025 - c
      sector == (6 * h) \div 255
      rgb == CASE sector = 0 -> <<c, x, 0>>
               [] sector = 1 -> <<x, c, 0>>
               [] sector = 2 -> <<0, c, x>>
               [] sector = 3 -> <<0, x, c>>
               [] sector = 4 -> <<x, 0, c>>
               [] OTHER -> <<c, 0, x>>
  IN [i \in 1..3 |-> Round(rgb[i] + m, 65025)]

RgbToHs(rgb) ==
  LET top == Largest({rgb[1], rgb[2], rgb[3]})
      delta == top - Smallest({rgb[1], rgb[2], rgb[3]})
      turn == CASE delta = 0 -> 0
                [] delta # 0 /\ top = rgb[1] -> rgb[2] - rgb[3]
                [] delta # 0 /\ top # rgb[1] /\ top = rgb[2] ->
                     rgb[3] - rgb[1] + 2 * delta
                [] OTHER -> rgb[1] - rgb[2] + 4 * delta
      hue == IF turn < 0 THEN turn + 6 * delta ELSE turn
  IN <<IF delta = 0 THEN 0 ELSE Round(255 * hue, 6 * delta),
       IF top = 0 THEN 0 ELSE Round(255 * delta, top)>>

(* --------------------- the leaf: state to payload ---------------------- *)

\* The colour mode the leaf lists in its schema for a light of mode m.
SchemaColorMode(m) ==
  CASE m = 1 -> "onoff" [] m = 3 -> "brightness" [] m = 7 -> "white"
    [] m \in {11, 19} -> "color_temp" [] m = 35 -> "rgb"
    [] m \in {39, 47} -> "rgbw" [] m = 51 -> "rgbww"

EncodeFloat(f, len) == [i \in 1..len |-> IF i = 1 THEN f ELSE 0]

\* Positions of covers and valves are counted in half percents, so that the
\* rounding of a motor stopped between two percents shows.
ReportPosition(e) == <<Clamp(0, 255, Round(Clamp(0, 200, e.pos), 2))>>

ReportLock(e) == <<IF e.lock = "LOCKED" THEN 1
                   ELSE IF e.lock = "JAMMED" THEN 2 ELSE 0>>

ReportAlarm(e) == <<e.state>>
ReportSelect(e) == <<e.option>>
ReportText(e) == <<e.value>>

ReportFan(e) == <<Bit(e.on), Clamp(0, 255, e.speed), Bit(e.osc), Bit(e.rev)>>

ReportLight(e) ==
  <<Bit(e.on), e.val, e.hs[1], e.hs[2], Clamp(0, 255, e.effect), e.mode,
    e.ct % 256, e.ct \div 256, e.white>>

ReportLight82xx(e) ==
  <<Bit(e.on), e.val, e.hs[1], e.hs[2], Clamp(0, 255, e.effect)>>

Report(c, e) ==
  CASE c.type \in {"sensor", "number"} -> EncodeFloat(e.value, 4)
    [] c.type \in {"switch", "binary"} -> <<Bit(e.on)>>
    [] c.type = "button" -> <<1>>
    [] c.type \in {"text", "event"} -> ReportText(e)
    [] c.type = "position" -> ReportPosition(e)
    [] c.type = "lock" -> ReportLock(e)
    [] c.type = "alarm" -> ReportAlarm(e)
    [] c.type = "select" -> ReportSelect(e)
    [] c.type = "fan" -> ReportFan(e)
    [] c.type = "light" -> ReportLight(e)

\* The 82xx port has its own copy, in which only the light is different.
Report82xx(c, e) ==
  IF c.type = "light" THEN ReportLight82xx(e) ELSE Report(c, e)

ReportOf(c, e) ==
  IF c.platform = "82xx" THEN Report82xx(c, e) ELSE Report(c, e)

(* ------------------- the leaf: payload to entity ----------------------- *)

CommandPosition(e, v) ==
  [e EXCEPT !.pos =
     IF Len(v) < 2 THEN 2 * v[1]
     ELSE (CASE v[1] = 1 -> 200 [] v[1] = 2 -> 0 [] v[1] = 3 -> @
             [] OTHER -> 2 * v[2])]

CommandFan(e, v) ==
  [e EXCEPT !.on = v[1] # 0,
            !.speed = IF Len(v) >= 2 THEN v[2] ELSE @,
            !.osc = IF Len(v) >= 3 THEN v[3] # 0 ELSE @,
            !.rev = IF Len(v) >= 4 THEN v[4] # 0 ELSE @]

\* An effect index the light does not have is refused by the light.
CommandLight(c, e, v) ==
  [e EXCEPT !.on = v[1] # 0,
            !.val = IF Len(v) > 1 THEN v[2] ELSE @,
            !.hs = IF Len(v) > 3 THEN <<v[3], v[4]>> ELSE @,
            !.effect = IF Len(v) > 4 /\ v[5] <= c.count THEN v[5] ELSE @,
            !.ct = IF Len(v) > 7 THEN v[7] + 256 * v[8] ELSE @,
            !.white = IF Len(v) > 8 THEN v[9] ELSE @]

Perform(c, e, v) ==
  CASE c.type = "switch" -> [e EXCEPT !.on = v[1] # 0]
    [] c.type = "button" -> [e EXCEPT !.presses = @ + 1]
    [] c.type = "number" -> IF Len(v) < 4 THEN e ELSE [e EXCEPT !.value = v[1]]
    [] c.type = "text" -> [e EXCEPT !.value = v[1]]
    [] c.type = "position" -> CommandPosition(e, v)
    [] c.type = "lock" ->
         [e EXCEPT !.lock = IF v[1] = 1 THEN "LOCKED" ELSE "UNLOCKED"]
    [] c.type = "alarm" ->
         [e EXCEPT !.state = IF v[1] \in 1..5 THEN v[1] ELSE 0]
    [] c.type = "select" -> [e EXCEPT !.option = v[1]]
    [] c.type = "fan" -> CommandFan(e, v)
    [] c.type = "light" -> CommandLight(c, e, v)

\* The copy of the 82xx port is laid out differently and does the same.
Perform82xx(c, e, v) == Perform(c, e, v)

PerformOf(c, e, v) ==
  IF c.platform = "82xx" THEN Perform82xx(c, e, v) ELSE Perform(c, e, v)

(* ----------------- the bridge: payload to dashboards ------------------- *)

\* "%g" keeps six significant digits (the instances stay below 10^7).
SixDigits(f) == IF f < 1000000 THEN f ELSE 10 * Round(f, 10)

Coloured == {"rgb", "rgbw", "rgbww"}
Dimmable == Coloured \cup {"brightness", "white", "color_temp"}

ColorModeMqtt(m) ==
  CASE m = 1 -> "onoff" [] m = 3 -> "brightness" [] m = 7 -> "white"
    [] m = 11 -> "color_temp" [] m \in {19, 35} -> "rgb" [] m = 39 -> "rgbw"
    [] m = 47 -> "rgbww" [] OTHER -> "brightness"

ColorModeApi(m) ==
  CASE m = 1 -> "onoff" [] m = 3 -> "brightness" [] m = 7 -> "white"
    [] m \in {11, 19} -> "color_temp" [] m = 35 -> "rgb"
    [] m \in {39, 47} -> "rgbw" [] m = 51 -> "rgbww" [] OTHER -> "brightness"

When(b, a, x) == IF b THEN a :> x ELSE Nothing

ShowLight(c, v, mqtt) ==
  [on |-> v[1] # 0,
   mode |-> IF Len(v) > 5 THEN IF mqtt THEN ColorModeMqtt(v[6]) ELSE ColorModeApi(v[6])
            ELSE IF Len(v) > 3 /\ c.modes \cap Coloured # {} THEN "rgb"
            ELSE IF Len(v) > 1 /\ "color_temp" \in c.modes THEN "color_temp"
            ELSE "brightness"]
  @@ When(Len(v) > 1 /\ c.modes \cap Dimmable # {}, "val", v[2])
  @@ When(Len(v) > 3 /\ c.modes \cap Coloured # {},
          "rgb", HsvToRgb(v[3], v[4], v[2]))
  @@ When(Len(v) > 7 /\ v[7] + 256 * v[8] > 0, "ct", v[7] + 256 * v[8])
  @@ When(Len(v) > 8 /\ v[9] > 0, "white", v[9])
  @@ When(c.count > 0 /\ Len(v) > 4,
          "effect", IF v[5] \in 1..c.count THEN v[5] ELSE 0)

ShowLightMqtt(c, v) == ShowLight(c, v, TRUE)
ShowLightApi(c, v) == ShowLight(c, v, FALSE)

ShowFanMqtt(c, v) ==
  "on" :> (v[1] # 0)
  @@ When(c.count > 0, "speed", (Clamp(0, c.count, v[2]) * 100) \div c.count)
  @@ When(c.osc, "osc", v[3] # 0)
  @@ When(c.dir, "rev", v[4] # 0)

\* The bridge sends the level; the integration makes a percentage of it.
ShowFanApi(c, v) ==
  "on" :> (v[1] # 0)
  @@ When(c.count > 0, "speed", (v[2] * 100) \div c.count)
  @@ "osc" :> (v[3] # 0) @@ "rev" :> (v[4] # 0)

\* What both dashboards show of the types with one attribute.
ShowPlain(c, v) ==
  CASE c.type \in {"switch", "binary"} -> "on" :> (v[1] # 0)
    [] c.type = "button" -> "pressed" :> TRUE
    [] c.type \in {"text", "event"} -> "value" :> v[1]
    [] c.type = "position" -> "pos" :> v[1]
    [] c.type = "lock" ->
         "lock" :> (IF v[1] = 1 THEN "LOCKED"
                    ELSE IF v[1] = 2 THEN "JAMMED" ELSE "UNLOCKED")
    [] c.type = "alarm" -> "state" :> (IF v[1] \in 1..9 THEN v[1] ELSE 0)
    [] c.type = "select" -> "option" :> v[1]

ShowMqtt(c, v) ==
  CASE c.type \in {"sensor", "number"} -> "value" :> SixDigits(v[1])
    [] c.type = "fan" -> ShowFanMqtt(c, v)
    [] c.type = "light" -> ShowLightMqtt(c, v)
    [] OTHER -> ShowPlain(c, v)

ShowApi(c, v) ==
  CASE c.type \in {"sensor", "number"} -> "value" :> v[1]
    [] c.type = "fan" -> ShowFanApi(c, v)
    [] c.type = "light" -> ShowLightApi(c, v)
    [] OTHER -> ShowPlain(c, v)

(* ------------------ the bridge: command to payload --------------------- *)

DecodePosition(set) ==
  IF "verb" \in DOMAIN set
    THEN CASE set.verb = "OPEN" -> <<1, 100>>
           [] set.verb = "CLOSE" -> <<2, 0>>
           [] set.verb = "STOP" -> <<3, 0>>
    ELSE <<0, Clamp(0, 100, set.pos)>>

\* A text that is not one of the options is read as a number by atoi.
DecodeSelect(c, set) == <<IF set.option < c.count THEN set.option ELSE 0>>

\* A JSON object may carry a code after the command byte.
DecodeAlarm(cmd) == IF cmd.json THEN <<cmd.set.state, cmd.set.code>>
                    ELSE <<cmd.set.state>>

\* Mutant: the level is rounded down.
SpeedLevelFloor(c, pct) == (Clamp(0, 100, pct) * c.count) \div 100

SpeedLevel(c, pct) ==
  IF c.count = 0 THEN 0
  ELSE Clamp(0, c.count, (Clamp(0, 100, pct) * c.count + 50) \div 100)

\* Mutant: a command that names several attributes loses the last state too.
DecodeFanBlank(c, cmd, cur) ==
  LET set == cmd.set
      base == IF Len(cur) >= 4 /\ ~cmd.json THEN cur ELSE <<0, 0, 0, 0>>
      Given(a) == a \in DOMAIN set
      level == SpeedLevel(c, set.speed)
      blind == Len(cur) < 4 /\ Given("speed")
  IN <<IF Given("on") THEN Bit(set.on)
       ELSE IF blind THEN Bit(level > 0) ELSE base[1],
       IF Given("speed") THEN level ELSE base[2],
       IF Given("osc") THEN Bit(set.osc) ELSE base[3],
       IF Given("rev") THEN Bit(set.rev) ELSE base[4]>>

\* The attributes a fan command does not name are taken from the last state
\* the bridge has seen, and are zero when it has seen none.
DecodeFan(c, cmd, cur) ==
  LET set == cmd.set
      base == IF Len(cur) >= 4 THEN cur ELSE <<0, 0, 0, 0>>
      Given(a) == a \in DOMAIN set
      level == IF cmd.json THEN ((set.speed * c.count + 50) \div 100) % 256
               ELSE SpeedLevel(c, set.speed)
      blind == ~cmd.json /\ Len(cur) < 4 /\ Given("speed")
  IN <<IF Given("on") THEN Bit(set.on)
       ELSE IF blind THEN Bit(level > 0) ELSE base[1],
       IF Given("speed") THEN level ELSE base[2],
       IF Given("osc") THEN Bit(set.osc) ELSE base[3],
       IF Given("rev") THEN Bit(set.rev) ELSE base[4]>>

\* Effects are known by their place in the list, 1 being the first; 0 is
\* the text "None".  Attributes that are not named are zero.
DecodeLight(c, set, lenient) ==
  LET Given(a) == a \in DOMAIN set
      named == Given("effect") /\ set.effect \in 1..c.count
      ok == \/ DOMAIN set \ {"effect"} # {}
            \/ Given("effect") /\ (named \/ set.effect = 0 \/ lenient)
      hs == IF Given("rgb") THEN RgbToHs(set.rgb) ELSE <<0, 0>>
      top == IF Given("rgb") THEN Largest({set.rgb[i] : i \in 1..3}) ELSE 0
      val == IF Given("val") THEN Clamp(0, 255, set.val) ELSE 0
      ct == IF Given("ct") THEN Clamp(0, 65535, set.ct) ELSE 0
  IN IF ~ok THEN <<>>
     ELSE <<IF Given("on") THEN Bit(set.on) ELSE 1,
            IF val = 0 THEN top ELSE val, hs[1], hs[2],
            IF named THEN set.effect - 1 ELSE 0, 0,
            ct % 256, ct \div 256,
            IF Given("white") THEN Clamp(0, 255, set.white) ELSE 0>>

\* The empty payload stands for a command that is refused.
Decode(c, cmd, cur, lenient) ==
  CASE c.type = "switch" -> <<Bit(cmd.set.on)>>
    [] c.type = "button" -> <<1>>
    [] c.type = "number" -> IF cmd.set.value = Junk THEN <<>>
                            ELSE EncodeFloat(cmd.set.value, NumberLen)
    [] c.type = "text" -> <<cmd.set.value>>
    [] c.type = "position" -> DecodePosition(cmd.set)
    [] c.type = "lock" -> <<Bit(cmd.set.lock = "LOCKED")>>
    [] c.type = "select" -> DecodeSelect(c, cmd.set)
    [] c.type = "alarm" -> DecodeAlarm(cmd)
    [] c.type = "fan" -> DecodeFan(c, cmd, cur)
    [] c.type = "light" -> DecodeLight(c, cmd.set, lenient)
    [] OTHER -> <<>>

\* The copy the API uses differs in one point: an effect the light does not
\* have does not make an otherwise empty command acceptable.
DecodeApi(c, cmd, cur) == Decode(c, cmd, cur, FALSE)
DecodeMqtt(c, cmd, cur) == Decode(c, cmd, cur, TRUE)

DecodeOn(path, c, cmd, cur) ==
  IF path = "mqtt" THEN DecodeMqtt(c, cmd, cur) ELSE DecodeApi(c, cmd, cur)

(* ------------------------------ the user ------------------------------- *)

Plain(a, S) == {[json |-> FALSE, set |-> a :> x] : x \in S}

Commands(c) ==
  CASE c.type = "switch" -> Plain("on", BOOLEAN)
    [] c.type = "button" -> Plain("presses", {1})
    [] c.type = "number" -> Plain("value", Floats \cup {Junk})
    [] c.type = "text" -> Plain("value", Floats)
    [] c.type = "position" -> Plain("verb", {"OPEN", "CLOSE", "STOP"})
                              \cup Plain("pos", Positions)
    [] c.type = "lock" -> Plain("lock", {"LOCKED", "UNLOCKED"})
    [] c.type = "select" -> Plain("option", 0..(c.count - 1))
    [] c.type = "alarm" -> Plain("state", 0..5) \cup
         {[json |-> TRUE, set |-> [state |-> s, code |-> 9]] : s \in 0..5}
    [] c.type = "fan" ->
         Plain("on", BOOLEAN) \cup Plain("osc", BOOLEAN)
         \cup Plain("rev", BOOLEAN)
         \cup (IF c.count > 0 THEN Plain("speed", Percents) ELSE {})
         \cup {[json |-> TRUE, set |-> [on |-> TRUE, speed |-> p]] :
                 p \in IF c.count > 0 THEN Percents \cap 0..100 ELSE {}}
    [] c.type = "light" ->
         UNION {{[json |-> TRUE, set |-> [a \in A |-> l[a]]] :
                   A \in {A \in SUBSET DOMAIN l :
                           "on" \in A /\ (Partial \/ A = DOMAIN l)}} :
                l \in Lights(c)}
    [] OTHER -> {}

\* The attribute of the entity that a word of a command is about.
About(a) == CASE a = "rgb" -> "hs" [] a = "verb" -> "pos" [] OTHER -> a

\* Colours that differ by the rounding of eight-bit channels only; the hue
\* is a circle on which 255 and 0 are the same.
NearHs(x, y) == /\ Abs(x[1] - y[1]) \notin 3..252
                /\ Abs(x[2] - y[2]) <= 2

\* Whether word a with value x, asked for or shown, is true of entity e.
Fits(c, e, a, x) ==
  CASE a = "verb" -> /\ x = "OPEN" => e.pos = 200
                     /\ x = "CLOSE" => e.pos = 0
    [] a = "pos" -> Abs(e.pos - 2 * Clamp(0, 100, x)) <= 1
    [] a = "speed" -> Abs(e.speed * 100 - Clamp(0, 100, x) * c.count) <= 50
    [] a = "rgb" -> NearHs(e.hs, RgbToHs(x))
    [] a = "mode" -> x = SchemaColorMode(e.mode)
    [] a = "value" -> x \in {e.value, SixDigits(e.value)}
    [] a \in {"code", "pressed"} -> TRUE
    [] OTHER -> e[a] = x

(* ------------------------------- actions ------------------------------- *)

Quiet == up = <<>> /\ down = <<>>
NoWish == [asked |-> Nothing, kept |-> Nothing]

Init ==
  /\ cfg \in Configs
  /\ ent \in Starts(cfg)
  /\ up = <<ReportOf(cfg, ent)>>
  /\ cache = <<>>
  /\ shown = [p \in Paths |-> Nothing]
  /\ down = <<>>
  /\ want = NoWish
  /\ used = [commands |-> 0, touches |-> 0]

\* The user gives a command on one of the dashboards.  When nothing is on
\* its way the user may count on the attributes it does not name as well.
Command(path) ==
  /\ used.commands < MaxCommands(cfg)
  /\ \E cmd \in Commands(cfg) :
       LET v == DecodeOn(path, cfg, cmd, cache)
           ask == IF cfg.type = "button"
                    THEN "presses" :> (ent.presses + Len(down) + 1)
                    ELSE cmd.set
           rest == DOMAIN ent \ {About(a) : a \in DOMAIN ask}
       IN IF v = <<>> THEN UNCHANGED <<down, want>>
          ELSE /\ down' = Append(down, v)
               /\ want' = [asked |-> ask,
                           kept |-> IF Quiet THEN [a \in rest |-> ent[a]]
                                    ELSE Nothing]
  /\ used' = [used EXCEPT !.commands = @ + 1]
  /\ UNCHANGED <<cfg, ent, up, cache, shown>>

\* The leaf applies a command; the entity's callback reports the new state.
ApplyCommand ==
  /\ down # <<>>
  /\ ent' = PerformOf(cfg, ent, Head(down))
  /\ down' = Tail(down)
  /\ up' = Append(up, ReportOf(cfg, ent'))
  /\ UNCHANGED <<cfg, cache, shown, want, used>>

\* Something at the device itself changes the entity.
Touch ==
  /\ used.touches < MaxTouches(cfg)
  /\ ent' \in Starts(cfg) \ {ent}
  /\ up' = Append(up, ReportOf(cfg, ent'))
  /\ want' = IF down = <<>> \/ cfg.type = "button" THEN NoWish
             ELSE [want EXCEPT !.kept = Nothing]
  /\ used' = [used EXCEPT !.touches = @ + 1]
  /\ UNCHANGED <<cfg, cache, shown, down>>

\* The bridge takes a state: its copy and both dashboards follow.
State ==
  /\ up # <<>>
  /\ cache' = Head(up)
  /\ up' = Tail(up)
  /\ shown' = [mqtt |-> ShowMqtt(cfg, Head(up)), api |-> ShowApi(cfg, Head(up))]
  /\ UNCHANGED <<cfg, ent, down, want, used>>

Next == (\E path \in Paths : Command(path)) \/ ApplyCommand \/ Touch \/ State

Spec == Init /\ [][Next]_vars

(* ------------------------------ properties ----------------------------- *)

\* Every payload is made of bytes (a float is one opaque element), and the
\* entity is never driven to a speed, option or effect it does not have.
TypeOK ==
  /\ cfg.type \notin {"sensor", "number", "text", "event"} =>
       \A v \in {cache} \cup {up[i] : i \in 1..Len(up)}
                \cup {down[i] : i \in 1..Len(down)} :
         \A i \in 1..Len(v) : v[i] \in 0..255
  /\ "speed" \in DOMAIN ent => ent.speed \in 0..cfg.count
  /\ "option" \in DOMAIN ent => ent.option \in 0..(cfg.count - 1)
  /\ "effect" \in DOMAIN ent => ent.effect \in 0..cfg.count
  /\ "pos" \in DOMAIN ent => ent.pos \in 0..200

\* Once the leaf has applied every command, the entity is as the last one
\* asked (whatever path decoded it, and however stale the bridge's copy
\* was), and an attribute no command named is as it was when the command
\* was given with nothing else on its way.  decode_command_payload_ fills
\* in the attributes a command leaves out, process_command_target_ sets all.
AskedHolds ==
  down = <<>> =>
    /\ \A a \in DOMAIN want.asked : Fits(cfg, ent, a, want.asked[a])
    /\ \A a \in DOMAIN want.kept : ent[a] = want.kept[a]

\* When no state is on its way, all that either dashboard shows is true of
\* the entity: the names, percentages and colours that do_publish_state_
\* and state_value_json make of the payload say what the entity is.
ShownTrue ==
  up = <<>> => \A p \in Paths : \A a \in DOMAIN shown[p] :
                 Fits(cfg, ent, a, shown[p][a])

\* The commands that ask for what a dashboard shows already.
Restated(c, s) ==
  CASE c.type \in {"switch", "select", "position"} ->
         {[json |-> FALSE, set |-> s]}
    [] c.type = "lock" ->
         {[json |-> FALSE, set |-> s] : x \in {s.lock} \ {"JAMMED"}}
    [] c.type = "alarm" -> {[json |-> FALSE, set |-> s]}
    [] c.type = "fan" -> {[json |-> FALSE, set |-> a :> s[a]] : a \in DOMAIN s}
    [] c.type = "light" ->
         {[json |-> TRUE, set |-> [a \in DOMAIN s \ {"mode"} |-> s[a]]]}
    [] OTHER -> {}

\* Asking for what is shown changes nothing: state encoding, display,
\* command decoding and application are inverse to each other, so a scene
\* that restores a recorded state restores that state.
RestatingKeeps ==
  Quiet => \A p \in Paths : \A cmd \in Restated(cfg, shown[p]) :
    LET e == PerformOf(cfg, ent, DecodeOn(p, cfg, cmd, cache))
    IN \A a \in DOMAIN ent :
         CASE a = "pos" -> Abs(e.pos - ent.pos) <= 1
           [] a = "hs" -> NearHs(e.hs, ent.hs)
           [] OTHER -> e[a] = ent[a]
=============================================================================
