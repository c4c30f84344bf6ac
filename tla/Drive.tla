-------------------------------- MODULE Drive --------------------------------
(***************************************************************************)
(* The motors from drive_set and drive_stop (app/drive.c) down to the pins *)
(* and timer registers that drivers/tb6612fng.c and drivers/pwm.c write,   *)
(* step by step: for each wheel the two pins that select the mode of the   *)
(* bridge, then the duty cycle and the output of its PWM channel and timer *)
(* A0, which both channels share and which runs only while one is enabled. *)
(* A call of pwm_set_duty_cycle is one step: of the registers that it      *)
(* writes, only one write changes what the wheel does.                     *)
(* common/assert_handler.c takes the pins away from the timer.             *)
(***************************************************************************)
EXTENDS Integers, Sequences

CONSTANTS Directions, Speeds   \* what the callers ask for

Wheels == {"LEFT", "RIGHT"}

(* The enums of drive.h, in the order the parity of a direction relies on. *)
drive_dir_e == << "FORWARD", "REVERSE", "ROTATE_LEFT", "ROTATE_RIGHT", "ARCTURN_SHARP_LEFT",
                  "ARCTURN_SHARP_RIGHT", "ARCTURN_MID_LEFT", "ARCTURN_MID_RIGHT",
                  "ARCTURN_WIDE_LEFT", "ARCTURN_WIDE_RIGHT" >>
drive_speed_e == {"SLOW", "MEDIUM", "FAST", "MAX"}

ASSUME DirectionsAssumption == Directions \subseteq 1 .. Len(drive_dir_e)
ASSUME SpeedsAssumption == Speeds \subseteq drive_speed_e

VARIABLES todo,              \* the writes left of the call under way
          asked,             \* signed percentage the last call asks of each wheel
          cc1, cc2,          \* mode pins of each wheel's bridge
          ccr, cctl,         \* duty cycle and output mode of each PWM channel
          enabled,           \* pwm_cfgs[].enabled
          timer, pwm_enabled, \* timer A0 counts, and what pwm.c takes it to do
          gpio               \* the assert handler has disconnected the PWM pins

pins == <<cc1, cc2, gpio>>
pwm == <<ccr, cctl, enabled, timer, pwm_enabled>>
vars == <<todo, asked, pins, pwm>>

-----------------------------------------------------------------------------
(* drive.c: percentages for the left and the right wheel *)
Pair(left, right) == [LEFT |-> left, RIGHT |-> right]

drive_primary_speeds ==
    [FORWARD            |-> [SLOW |-> Pair(25, 25),   MEDIUM |-> Pair(45, 45),
                             FAST |-> Pair(55, 55),   MAX |-> Pair(100, 100)],
     ROTATE_LEFT        |-> [SLOW |-> Pair(-25, 25),  MEDIUM |-> Pair(-50, 50),
                             FAST |-> Pair(-60, 60),  MAX |-> Pair(-100, 100)],
     ARCTURN_SHARP_LEFT |-> [SLOW |-> Pair(-10, 25),  MEDIUM |-> Pair(-10, 50),
                             FAST |-> Pair(-25, 75),  MAX |-> Pair(-20, 100)],
     ARCTURN_MID_LEFT   |-> [SLOW |-> Pair(15, 30),   MEDIUM |-> Pair(25, 50),
                             FAST |-> Pair(35, 70),   MAX |-> Pair(50, 100)],
     ARCTURN_WIDE_LEFT  |-> [SLOW |-> Pair(20, 25),   MEDIUM |-> Pair(40, 50),
                             FAST |-> Pair(60, 70),   MAX |-> Pair(85, 100)]]

drive_inverse_speeds(s) ==
    IF s.LEFT = s.RIGHT THEN Pair(-s.LEFT, -s.RIGHT) ELSE Pair(s.RIGHT, s.LEFT)

(* Directions come in pairs, the even C value being the primary one. *)
SpeedsOf(dir, speed) ==
    IF dir % 2 = 1 THEN drive_primary_speeds[drive_dir_e[dir]][speed]
    ELSE drive_inverse_speeds(drive_primary_speeds[drive_dir_e[dir - 1]][speed])

ABS(x) == IF x >= 0 THEN x ELSE -x

(* Mutant: a wheel that is stopped is set to forward. *)
SetPins_not_strict(w, v) == << [op |-> "cc1", wheel |-> w, value |-> IF v >= 0 THEN 1 ELSE 0],
                               [op |-> "cc2", wheel |-> w, value |-> IF v < 0 THEN 1 ELSE 0] >>

(* tb6612fng_set_mode by the sign of a speed, tb6612fng_set_pwm by its size. *)
SetPins(w, v) == << [op |-> "cc1", wheel |-> w, value |-> IF v > 0 THEN 1 ELSE 0],
                    [op |-> "cc2", wheel |-> w, value |-> IF v < 0 THEN 1 ELSE 0] >>
SetPwm(w, v) == << [op |-> "pwm", wheel |-> w, value |-> ABS(v)] >>

(* Mutant: the right duty cycle is written to the left channel. *)
Writes_left_twice(s) == SetPins("LEFT", s.LEFT) \o SetPins("RIGHT", s.RIGHT)
                          \o SetPwm("LEFT", s.LEFT) \o SetPwm("LEFT", s.RIGHT)

(* What a call writes, in order: both modes first, then both duty cycles. *)
Writes(s) == SetPins("LEFT", s.LEFT) \o SetPins("RIGHT", s.RIGHT)
               \o SetPwm("LEFT", s.LEFT) \o SetPwm("RIGHT", s.RIGHT)

(* drive_set asks for two speeds, neither of them 0; drive_stop for none. *)
Call(s) ==
    /\ todo = << >> /\ ~gpio
    /\ todo' = Writes(s)
    /\ asked' = s
    /\ UNCHANGED <<pins, pwm>>

drive_set(dir, speed) == Call(SpeedsOf(dir, speed))

drive_stop == Call(Pair(0, 0))

-----------------------------------------------------------------------------
(* The next write of the call *)
NextWrite(op) == todo # << >> /\ Head(todo).op = op /\ todo' = Tail(todo) /\ UNCHANGED asked

tb6612fng_set_mode ==
    \/ /\ NextWrite("cc1")
       /\ cc1' = [cc1 EXCEPT ![Head(todo).wheel] = Head(todo).value]
       /\ UNCHANGED <<cc2, gpio, pwm>>
    \/ /\ NextWrite("cc2")
       /\ cc2' = [cc2 EXCEPT ![Head(todo).wheel] = Head(todo).value]
       /\ UNCHANGED <<cc1, gpio, pwm>>

pwm_scale_duty_cycle(percent) == IF percent = 1 THEN percent ELSE (percent * 3) \div 4

pwm_set_duty_cycle ==
    /\ NextWrite("pwm")
    /\ LET w == Head(todo).wheel
           enable == Head(todo).value > 0
       IN  /\ ccr' = IF enable THEN [ccr EXCEPT ![w] = pwm_scale_duty_cycle(Head(todo).value)]
                     ELSE ccr
           /\ IF enabled[w] = enable
              THEN UNCHANGED <<cctl, enabled, timer, pwm_enabled>>
              ELSE /\ cctl' = [cctl EXCEPT ![w] = IF enable THEN "RESET_SET" ELSE "OFF"]
                   /\ enabled' = [enabled EXCEPT ![w] = enable]
                   /\ pwm_enabled' = \E v \in Wheels : enabled'[v]
                   /\ timer' = IF pwm_enabled' # pwm_enabled THEN pwm_enabled' ELSE timer
    /\ UNCHANGED pins

(* assert_stop_motors: only the application asserts, between two calls.    *)
assert_stop_motors ==
    /\ todo = << >> /\ ~gpio
    /\ gpio' = TRUE
    /\ cc1' = [w \in Wheels |-> 0]
    /\ cc2' = [w \in Wheels |-> 0]
    /\ asked' = Pair(0, 0)
    /\ UNCHANGED <<todo, pwm>>

Halted == gpio /\ UNCHANGED vars

Init ==
    /\ todo = << >>
    /\ asked = Pair(0, 0)
    /\ cc1 = [w \in Wheels |-> 0] /\ cc2 = [w \in Wheels |-> 0]
    /\ ccr = [w \in Wheels |-> 0] /\ cctl = [w \in Wheels |-> "OFF"]
    /\ enabled = [w \in Wheels |-> FALSE]
    /\ timer = FALSE /\ pwm_enabled = FALSE
    /\ gpio = FALSE

Next ==
    \/ \E dir \in Directions, speed \in Speeds : drive_set(dir, speed)
    \/ drive_stop
    \/ tb6612fng_set_mode
    \/ pwm_set_duty_cycle
    \/ assert_stop_motors
    \/ Halted

Spec == Init /\ [][Next]_vars

-----------------------------------------------------------------------------
(* The direction a wheel is driven in, and how strongly. *)
Sign(w) == cc1[w] - cc2[w]
Power(w) == IF gpio \/ ~timer \/ cctl[w] = "OFF" THEN 0 ELSE ccr[w]
Turning(w) == Sign(w) * Power(w)

Sgn(x) == IF x > 0 THEN 1 ELSE IF x < 0 THEN -1 ELSE 0

(* Between two calls both wheels turn the way, and as fast, as the last    *)
(* call asked them to, whatever the channels, the shared timer and the     *)
(* driver's copies of their states were before.                            *)
ObeysLastCall ==
    todo = << >> =>
        \A w \in Wheels : /\ Sgn(Turning(w)) = Sgn(asked[w])
                          /\ Power(w) = (IF ABS(asked[w]) = 1 THEN 1 ELSE (ABS(asked[w]) * 3) \div 4)

(* A call never makes a wheel turn against both what it did before and     *)
(* what is asked of it: no write on the way drives a wheel backwards that  *)
(* goes forward all along, or powers a wheel that is being stopped.        *)
NoKickOnTheWay ==
    [][\A w \in Wheels :
        Sgn(Turning(w)') # Sgn(Turning(w)) => Sgn(Turning(w)') \in {0, Sgn(asked'[w])}]_vars

=============================================================================
