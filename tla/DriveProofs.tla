---------------------------- MODULE DriveProofs ----------------------------
(***************************************************************************)
(* Proofs about Drive for any set of directions and speeds: what the two   *)
(* PWM channels, the timer they share and the pins were before a call does *)
(* not matter for what the wheels do after it, and on the way no wheel is  *)
(* kicked.                                                                 *)
(***************************************************************************)
EXTENDS Drive, SequenceTheorems, TLAPS

Speed == [Wheels -> Int]

(* A write, as SetPins and SetPwm make it. *)
WriteType == [op : {"cc1", "cc2", "pwm"}, wheel : Wheels, value : Int]

-----------------------------------------------------------------------------
(* What the callers can ask for *)
LEMMA PrimarySpeeds ==
    ASSUME NEW dir \in {"FORWARD", "ROTATE_LEFT", "ARCTURN_SHARP_LEFT", "ARCTURN_MID_LEFT",
                        "ARCTURN_WIDE_LEFT"},
           NEW speed \in drive_speed_e
    PROVE  drive_primary_speeds[dir][speed] \in Speed
BY DEF drive_primary_speeds, drive_speed_e, Pair, Wheels, Speed

LEMMA SpeedsAreSpeeds ==
    ASSUME NEW dir \in Directions, NEW speed \in Speeds
    PROVE  SpeedsOf(dir, speed) \in Speed
<1>1. dir \in 1 .. 10 /\ speed \in drive_speed_e
  BY DirectionsAssumption, SpeedsAssumption DEF drive_dir_e
<1>2. ASSUME NEW d \in {1, 3, 5, 7, 9}
      PROVE  drive_primary_speeds[drive_dir_e[d]][speed] \in Speed
  BY <1>1, PrimarySpeeds DEF drive_dir_e
<1>3. CASE dir % 2 = 1
  <2>1. dir \in {1, 3, 5, 7, 9}
    BY <1>1, <1>3
  <2>2. QED
    BY <1>2, <1>3, <2>1 DEF SpeedsOf
<1>4. CASE dir % 2 # 1
  <2>1. dir - 1 \in {1, 3, 5, 7, 9}
    BY <1>1, <1>4
  <2>2. \A s \in Speed : drive_inverse_speeds(s) \in Speed
    BY DEF drive_inverse_speeds, Pair, Speed, Wheels
  <2>3. QED
    BY <1>2, <1>4, <2>1, <2>2 DEF SpeedsOf
<1>5. QED
  BY <1>3, <1>4

-----------------------------------------------------------------------------
(* The writes of a call *)
ForwardPin(v) == IF v > 0 THEN 1 ELSE 0
BackwardPin(v) == IF v < 0 THEN 1 ELSE 0

(* The place of a wheel's first pin and of its duty cycle among the writes. *)
PinsAt(w) == IF w = "LEFT" THEN 1 ELSE 3
PwmAt(w) == IF w = "LEFT" THEN 5 ELSE 6

LEMMA SecondPart ==
    ASSUME NEW S, NEW s \in Seq(S), NEW t \in Seq(S), NEW i \in 1 .. Len(t)
    PROVE  (s \o t)[Len(s) + i] = t[i]
<1>1. Len(s) \in Nat /\ Len(t) \in Nat
  BY LenProperties
<1>2. \A j \in 1 .. Len(s) + Len(t) :
          (s \o t)[j] = IF j <= Len(s) THEN s[j] ELSE t[j - Len(s)]
  BY ConcatProperties
<1>3. /\ Len(s) + i \in 1 .. Len(s) + Len(t)
      /\ ~(Len(s) + i <= Len(s)) /\ Len(s) + i - Len(s) = i
  BY <1>1
<1>4. QED
  BY <1>2, <1>3

LEMMA OneMore ==
    ASSUME NEW S, NEW s \in Seq(S), NEW t \in Seq(S)
    PROVE  Len(t) = 1 =>
               /\ s \o t \in Seq(S) /\ Len(s \o t) = Len(s) + 1
               /\ \A i \in 1 .. Len(s) : (s \o t)[i] = s[i]
               /\ (s \o t)[Len(s) + 1] = t[1]
<1>1. s \o t \in Seq(S) /\ Len(s \o t) = Len(s) + Len(t)
  BY ConcatProperties
<1>2. Len(s) \in Nat /\ Len(t) \in Nat
  BY LenProperties
<1>3. ASSUME NEW i \in 1 .. Len(s)
      PROVE  (s \o t)[i] = s[i]
  <2>1. i \in 1 .. Len(s) + Len(t) /\ i <= Len(s)
    BY <1>2
  <2>2. \A j \in 1 .. Len(s) + Len(t) :
            (s \o t)[j] = IF j <= Len(s) THEN s[j] ELSE t[j - Len(s)]
    BY ConcatProperties
  <2>3. QED
    BY <2>1, <2>2
<1>4. 1 \in 1 .. Len(t) => (s \o t)[Len(s) + 1] = t[1]
  BY SecondPart
<1>5. Len(t) = 1 => 1 \in 1 .. Len(t)
  OBVIOUS
<1>6. QED
  BY <1>1, <1>3, <1>4, <1>5

LEMMA WritesOfCall ==
    ASSUME NEW s \in Speed
    PROVE  /\ Writes(s) \in Seq(WriteType) /\ Len(Writes(s)) = 6
           /\ \A w \in Wheels :
                 /\ Writes(s)[PinsAt(w)] = [op |-> "cc1", wheel |-> w, value |-> ForwardPin(s[w])]
                 /\ Writes(s)[PinsAt(w) + 1] =
                        [op |-> "cc2", wheel |-> w, value |-> BackwardPin(s[w])]
                 /\ Writes(s)[PwmAt(w)] = [op |-> "pwm", wheel |-> w, value |-> ABS(s[w])]
<1> DEFINE a == SetPins("LEFT", s.LEFT)
           b == SetPins("RIGHT", s.RIGHT)
           c == SetPwm("LEFT", s.LEFT)
           d == SetPwm("RIGHT", s.RIGHT)
<1>1. s.LEFT = s["LEFT"] /\ s.RIGHT = s["RIGHT"] /\ s.LEFT \in Int /\ s.RIGHT \in Int
  BY DEF Speed, Wheels
<1>2. /\ a \in Seq(WriteType) /\ Len(a) = 2
      /\ a[1] = [op |-> "cc1", wheel |-> "LEFT", value |-> ForwardPin(s["LEFT"])]
      /\ a[2] = [op |-> "cc2", wheel |-> "LEFT", value |-> BackwardPin(s["LEFT"])]
  BY <1>1 DEF SetPins, ForwardPin, BackwardPin, WriteType, Wheels
<1>3. /\ b \in Seq(WriteType) /\ Len(b) = 2
      /\ b[1] = [op |-> "cc1", wheel |-> "RIGHT", value |-> ForwardPin(s["RIGHT"])]
      /\ b[2] = [op |-> "cc2", wheel |-> "RIGHT", value |-> BackwardPin(s["RIGHT"])]
  BY <1>1 DEF SetPins, ForwardPin, BackwardPin, WriteType, Wheels
<1>4. /\ c \in Seq(WriteType) /\ Len(c) = 1
      /\ c[1] = [op |-> "pwm", wheel |-> "LEFT", value |-> ABS(s["LEFT"])]
  BY <1>1 DEF SetPwm, ABS, WriteType, Wheels
<1>5. /\ d \in Seq(WriteType) /\ Len(d) = 1
      /\ d[1] = [op |-> "pwm", wheel |-> "RIGHT", value |-> ABS(s["RIGHT"])]
  BY <1>1 DEF SetPwm, ABS, WriteType, Wheels
<1> HIDE DEF a, b, c, d
<1>6. /\ a \o b \in Seq(WriteType) /\ Len(a \o b) = 4
      /\ (a \o b)[1] = a[1] /\ (a \o b)[2] = a[2]
      /\ (a \o b)[3] = b[1] /\ (a \o b)[4] = b[2]
  <2>1. /\ a \in Seq(WriteType) /\ Len(a) = 2 /\ b \in Seq(WriteType) /\ Len(b) = 2
        /\ 1 \in 1 .. Len(b) /\ 2 \in 1 .. Len(b)
    BY <1>2, <1>3
  <2>2. /\ a \o b \in Seq(WriteType) /\ Len(a \o b) = 4
        /\ (a \o b)[1] = a[1] /\ (a \o b)[2] = a[2]
    BY <2>1, ConcatProperties
  <2>3. (a \o b)[Len(a) + 1] = b[1]
    BY <2>1, SecondPart
  <2>4. (a \o b)[Len(a) + 2] = b[2]
    BY <2>1, SecondPart
  <2>5. Len(a) + 1 = 3 /\ Len(a) + 2 = 4
    BY <2>1
  <2>6. QED
    BY <2>2, <2>3, <2>4, <2>5
<1> DEFINE ab == a \o b
<1> HIDE DEF ab
<1>7. /\ ab \o c \in Seq(WriteType) /\ Len(ab \o c) = 5
      /\ \A i \in 1 .. 4 : (ab \o c)[i] = ab[i]
      /\ (ab \o c)[5] = c[1]
  <2>1. ab \in Seq(WriteType) /\ Len(ab) = 4 /\ Len(ab) + 1 = 5
    BY <1>6 DEF ab
  <2>2. /\ ab \o c \in Seq(WriteType) /\ Len(ab \o c) = Len(ab) + 1
        /\ \A i \in 1 .. Len(ab) : (ab \o c)[i] = ab[i]
        /\ (ab \o c)[Len(ab) + 1] = c[1]
    BY <1>4, <2>1, OneMore
  <2>3. QED
    BY <2>1, <2>2
<1> DEFINE abc == ab \o c
<1> HIDE DEF abc
<1>8. /\ abc \o d \in Seq(WriteType) /\ Len(abc \o d) = 6
      /\ \A i \in 1 .. 5 : (abc \o d)[i] = abc[i]
      /\ (abc \o d)[6] = d[1]
  <2>1. abc \in Seq(WriteType) /\ Len(abc) = 5 /\ Len(abc) + 1 = 6
    BY <1>7 DEF abc
  <2>2. /\ abc \o d \in Seq(WriteType) /\ Len(abc \o d) = Len(abc) + 1
        /\ \A i \in 1 .. Len(abc) : (abc \o d)[i] = abc[i]
        /\ (abc \o d)[Len(abc) + 1] = d[1]
    BY <1>5, <2>1, OneMore
  <2>3. QED
    BY <2>1, <2>2
<1>9. Writes(s) = abc \o d
  BY DEF Writes, abc, ab, a, b, c, d
<1>10. /\ Writes(s)[1] = a[1] /\ Writes(s)[2] = a[2]
       /\ Writes(s)[3] = b[1] /\ Writes(s)[4] = b[2]
       /\ Writes(s)[5] = c[1] /\ Writes(s)[6] = d[1]
  BY <1>6, <1>7, <1>8, <1>9 DEF abc, ab
<1>11. QED
  BY <1>2, <1>3, <1>4, <1>5, <1>8, <1>9, <1>10 DEF PinsAt, PwmAt, Wheels

(* What is left of a call from its i-th write on. *)
Rest(s, i) == SubSeq(Writes(s), i, 6)

LEMMA RestOfCall ==
    ASSUME NEW s \in Speed
    PROVE  /\ Rest(s, 1) = Writes(s)
           /\ Rest(s, 7) = << >>
           /\ \A i \in 1 .. 6 : /\ Rest(s, i) # << >>
                                /\ Head(Rest(s, i)) = Writes(s)[i]
                                /\ Tail(Rest(s, i)) = Rest(s, i + 1)
<1>1. Writes(s) \in Seq(WriteType) /\ Len(Writes(s)) = 6
  BY WritesOfCall
<1>2. Rest(s, 1) = Writes(s) /\ Rest(s, 7) = << >>
  BY <1>1, SubSeqFull, SubSeqEmpty DEF Rest
<1>3. ASSUME NEW i \in 1 .. 6
      PROVE  /\ Rest(s, i) # << >>
             /\ Head(Rest(s, i)) = Writes(s)[i]
             /\ Tail(Rest(s, i)) = Rest(s, i + 1)
  <2>1. Head(Rest(s, i)) = Writes(s)[i] /\ Tail(Rest(s, i)) = Rest(s, i + 1)
    BY <1>1, HeadTailOfSubSeq DEF Rest
  <2>2. ASSUME NEW j \in i .. 6
        PROVE  Writes(s)[j] \in WriteType
    <3>1. j \in 1 .. Len(Writes(s))
      BY <1>1
    <3>2. QED
      BY <1>1, <3>1, ElementOfSeq
  <2>3. Len(Rest(s, i)) = 6 - i + 1
    BY <2>2, SubSeqProperties DEF Rest
  <2>4. Rest(s, i) # << >>
    <3>1. 6 - i + 1 # 0
      OBVIOUS
    <3>2. Len(Rest(s, i)) # 0
      BY <2>3, <3>1
    <3>3. QED
      BY <3>2, EmptySeq
  <2>5. QED
    BY <2>1, <2>4
<1>4. QED
  BY <1>2, <1>3

-----------------------------------------------------------------------------
(* The invariant *)
TypeInv ==
    /\ asked \in Speed
    /\ cc1 \in [Wheels -> {0, 1}] /\ cc2 \in [Wheels -> {0, 1}]
    /\ ccr \in [Wheels -> Nat] /\ cctl \in [Wheels -> {"OFF", "RESET_SET"}]
    /\ enabled \in [Wheels -> BOOLEAN]

(* The registers of the channels and the timer agree with the driver's     *)
(* copies of them at every write, whatever the order of the calls.         *)
ChannelsInv ==
    /\ \A w \in Wheels : cctl[w] = "RESET_SET" <=> enabled[w]
    /\ pwm_enabled <=> \E w \in Wheels : enabled[w]
    /\ timer <=> pwm_enabled

(* The wheels whose pins, and those whose channel, a call has set when its *)
(* i-th write comes next; the pins of the others are not both set.         *)
Progress(i) ==
    \A w \in Wheels :
        /\ cc1[w] + cc2[w] < 2 \/ i = PinsAt(w) + 1
        /\ i > PinsAt(w) => cc1[w] = ForwardPin(asked[w])
        /\ i > PinsAt(w) + 1 => cc2[w] = BackwardPin(asked[w])
        /\ i > PwmAt(w) =>
               /\ enabled[w] <=> asked[w] # 0
               /\ enabled[w] => ccr[w] = pwm_scale_duty_cycle(ABS(asked[w]))

CallInv == ~gpio => \E i \in 1 .. 7 : todo = Rest(asked, i) /\ Progress(i)

StoppedInv == gpio => todo = << >> /\ \A w \in Wheels : asked[w] = 0

DriveInv == TypeInv /\ ChannelsInv /\ CallInv /\ StoppedInv

(* The next write of a call, and what it has set already. *)
LEMMA NextOfCall ==
    ASSUME NEW s \in Speed, NEW i \in 1 .. 7, Rest(s, i) # << >>
    PROVE  /\ i \in 1 .. 6
           /\ Tail(Rest(s, i)) = Rest(s, i + 1)
           /\ \E w \in Wheels :
                 \/ /\ i = PinsAt(w)
                    /\ Head(Rest(s, i)) = [op |-> "cc1", wheel |-> w, value |-> ForwardPin(s[w])]
                 \/ /\ i = PinsAt(w) + 1
                    /\ Head(Rest(s, i)) = [op |-> "cc2", wheel |-> w, value |-> BackwardPin(s[w])]
                 \/ /\ i = PwmAt(w)
                    /\ Head(Rest(s, i)) = [op |-> "pwm", wheel |-> w, value |-> ABS(s[w])]
<1>1. i \in 1 .. 6
  <2>1. i # 7
    BY RestOfCall
  <2>2. QED
    BY <2>1
<1>2. Head(Rest(s, i)) = Writes(s)[i] /\ Tail(Rest(s, i)) = Rest(s, i + 1)
  BY <1>1, RestOfCall
<1>3. \E w \in Wheels : i = PinsAt(w) \/ i = PinsAt(w) + 1 \/ i = PwmAt(w)
  <2>1. i = 1 \/ i = 2 \/ i = 3 \/ i = 4 \/ i = 5 \/ i = 6
    BY <1>1
  <2>2. "LEFT" \in Wheels /\ "RIGHT" \in Wheels
    BY DEF Wheels
  <2>3. /\ PinsAt("LEFT") = 1 /\ PwmAt("LEFT") = 5
        /\ PinsAt("RIGHT") = 3 /\ PwmAt("RIGHT") = 6
    BY DEF PinsAt, PwmAt
  <2>4. QED
    BY <2>1, <2>2, <2>3
<1>4. PICK w \in Wheels : i = PinsAt(w) \/ i = PinsAt(w) + 1 \/ i = PwmAt(w)
  BY <1>3
<1>5. /\ Writes(s)[PinsAt(w)] = [op |-> "cc1", wheel |-> w, value |-> ForwardPin(s[w])]
      /\ Writes(s)[PinsAt(w) + 1] = [op |-> "cc2", wheel |-> w, value |-> BackwardPin(s[w])]
      /\ Writes(s)[PwmAt(w)] = [op |-> "pwm", wheel |-> w, value |-> ABS(s[w])]
  BY WritesOfCall
<1>6. QED
  BY <1>1, <1>2, <1>4, <1>5

LEMMA WriteOfCall ==
    ASSUME DriveInv, NEW op, NextWrite(op)
    PROVE  /\ ~gpio
           /\ \E i \in 1 .. 6, w \in Wheels :
                 /\ Progress(i) /\ todo' = Rest(asked, i + 1)
                 /\ Head(todo).wheel = w
                 /\ \/ op = "cc1" /\ i = PinsAt(w) /\ Head(todo).value = ForwardPin(asked[w])
                    \/ op = "cc2" /\ i = PinsAt(w) + 1 /\ Head(todo).value = BackwardPin(asked[w])
                    \/ op = "pwm" /\ i = PwmAt(w) /\ Head(todo).value = ABS(asked[w])
<1>1. asked \in Speed /\ todo # << >> /\ todo' = Tail(todo) /\ Head(todo).op = op
  BY DEF DriveInv, TypeInv, NextWrite
<1>2. ~gpio
  BY <1>1 DEF DriveInv, StoppedInv
<1>3. PICK i \in 1 .. 7 : todo = Rest(asked, i) /\ Progress(i)
  BY <1>2 DEF DriveInv, CallInv
<1>4. i \in 1 .. 6 /\ Tail(todo) = Rest(asked, i + 1)
  BY <1>1, <1>3, NextOfCall
<1>5. PICK w \in Wheels :
          \/ /\ i = PinsAt(w)
             /\ Head(todo) = [op |-> "cc1", wheel |-> w, value |-> ForwardPin(asked[w])]
          \/ /\ i = PinsAt(w) + 1
             /\ Head(todo) = [op |-> "cc2", wheel |-> w, value |-> BackwardPin(asked[w])]
          \/ /\ i = PwmAt(w)
             /\ Head(todo) = [op |-> "pwm", wheel |-> w, value |-> ABS(asked[w])]
  BY <1>1, <1>3, NextOfCall
<1>6. /\ Head(todo).wheel = w
      /\ \/ op = "cc1" /\ i = PinsAt(w) /\ Head(todo).value = ForwardPin(asked[w])
         \/ op = "cc2" /\ i = PinsAt(w) + 1 /\ Head(todo).value = BackwardPin(asked[w])
         \/ op = "pwm" /\ i = PwmAt(w) /\ Head(todo).value = ABS(asked[w])
  BY <1>1, <1>5
<1>7. QED
  BY <1>1, <1>2, <1>3, <1>4, <1>6

-----------------------------------------------------------------------------
(* No write gives a wheel a new direction other than the one asked for. *)
NoKick == \A w \in Wheels :
    Sgn(Turning(w)') # Sgn(Turning(w)) => Sgn(Turning(w)') \in {0, Sgn(asked'[w])}

LEMMA SignOfTurning ==
    ASSUME NEW s \in {-1, 0, 1}, NEW p \in Nat
    PROVE  /\ Sgn(s * p) \in {0, s}
           /\ p > 0 => Sgn(s * p) = s
           /\ p = 0 => Sgn(s * p) = 0
<1>1. CASE s = -1
  BY <1>1 DEF Sgn
<1>2. CASE s = 0
  BY <1>2 DEF Sgn
<1>3. CASE s = 1
  BY <1>3 DEF Sgn
<1>4. QED
  BY <1>1, <1>2, <1>3

LEMMA ScaledDutyCycle ==
    ASSUME NEW v \in Int
    PROVE  /\ pwm_scale_duty_cycle(ABS(v)) \in Nat
           /\ pwm_scale_duty_cycle(ABS(v)) > 0 <=> v # 0
           /\ ABS(v) > 0 <=> v # 0
           /\ ForwardPin(v) - BackwardPin(v) = Sgn(v)
           /\ Sgn(v) \in {-1, 0, 1} /\ (Sgn(v) = 0 <=> v = 0)
BY DEF pwm_scale_duty_cycle, ABS, ForwardPin, BackwardPin, Sgn

LEMMA TurningOfState ==
    ASSUME TypeInv, NEW w \in Wheels
    PROVE  /\ Sign(w) \in {-1, 0, 1} /\ Power(w) \in Nat
           /\ Sgn(Turning(w)) \in {0, Sign(w)}
<1>1. cc1[w] \in {0, 1} /\ cc2[w] \in {0, 1} /\ ccr[w] \in Nat
  BY DEF TypeInv
<1>2. Sign(w) \in {-1, 0, 1} /\ Power(w) \in Nat
  BY <1>1 DEF Sign, Power
<1>3. QED
  BY <1>2, SignOfTurning DEF Turning

TurnsByPins == \A w \in Wheels : Sgn(Turning(w)) \in {0, Sign(w)}

TurnsAsSet ==
    \A w \in Wheels : cc1[w] = ForwardPin(asked[w]) /\ cc2[w] = BackwardPin(asked[w])
                         => Sgn(Turning(w)) \in {0, Sgn(asked[w])}

(* The pins of a wheel that a call has set turn it the way it asks for. *)
LEMMA TurningOfTypedState == TypeInv => TurnsByPins /\ TurnsAsSet
<1> SUFFICES ASSUME TypeInv
             PROVE  TurnsByPins /\ TurnsAsSet
  OBVIOUS
<1>1. TurnsByPins
  BY TurningOfState DEF TurnsByPins
<1>2. ASSUME NEW w \in Wheels,
             cc1[w] = ForwardPin(asked[w]), cc2[w] = BackwardPin(asked[w])
      PROVE  Sgn(Turning(w)) \in {0, Sgn(asked[w])}
  <2>1. asked[w] \in Int
    BY DEF TypeInv, Speed
  <2>2. Sign(w) = Sgn(asked[w])
    BY <1>2, <2>1, ScaledDutyCycle DEF Sign
  <2>3. QED
    BY <2>2, TurningOfState
<1>3. QED
  BY <1>1, <1>2 DEF TurnsAsSet

LEMMA Initially == Init => DriveInv
<1> SUFFICES ASSUME Init
             PROVE  DriveInv
  OBVIOUS
<1>1. \A w \in Wheels : asked[w] = 0
  BY DEF Init, Pair, Wheels
<1>2. TypeInv
  BY DEF Init, TypeInv, Speed, Pair, Wheels
<1>3. ChannelsInv
  BY DEF Init, ChannelsInv, Wheels
<1>4. Progress(7)
  BY <1>1 DEF Init, Progress, PinsAt, PwmAt, ForwardPin, BackwardPin
<1>5. todo = Rest(asked, 7)
  BY <1>2, RestOfCall DEF Init, TypeInv
<1>6. CallInv
  BY <1>4, <1>5 DEF CallInv
<1>7. QED
  BY <1>2, <1>3, <1>6 DEF DriveInv, StoppedInv, Init

LEMMA CallStep ==
    ASSUME DriveInv, NEW s \in Speed, Call(s)
    PROVE  DriveInv' /\ NoKick
<1>1. /\ todo = << >> /\ ~gpio /\ todo' = Writes(s) /\ asked' = s
      /\ cc1' = cc1 /\ cc2' = cc2 /\ gpio' = gpio
      /\ ccr' = ccr /\ cctl' = cctl /\ enabled' = enabled
      /\ timer' = timer /\ pwm_enabled' = pwm_enabled
  BY DEF Call, pins, pwm
<1>2. TypeInv' /\ ChannelsInv'
  BY <1>1 DEF DriveInv, TypeInv, ChannelsInv
<1>3. PICK i \in 1 .. 7 : todo = Rest(asked, i) /\ Progress(i)
  BY <1>1 DEF DriveInv, CallInv
<1>4. i = 7
  <2>1. ~(i \in 1 .. 6)
    BY <1>1, <1>3, RestOfCall DEF DriveInv, TypeInv
  <2>2. QED
    BY <2>1
<1>5. \A w \in Wheels : cc1[w] + cc2[w] < 2
  BY <1>3, <1>4 DEF Progress, PinsAt
<1>6. Progress(1)'
  BY <1>1, <1>5 DEF Progress, PinsAt, PwmAt
<1>7. todo' = Rest(asked', 1)
  BY <1>1, RestOfCall
<1>8. CallInv'
  BY <1>6, <1>7 DEF CallInv
<1>9. NoKick
  BY <1>1 DEF NoKick, Turning, Sign, Power
<1>10. QED
  BY <1>1, <1>2, <1>8, <1>9 DEF DriveInv, StoppedInv

LEMMA ForwardPinStep ==
    ASSUME DriveInv, NextWrite("cc1"),
           cc1' = [cc1 EXCEPT ![Head(todo).wheel] = Head(todo).value],
           UNCHANGED <<cc2, gpio, pwm>>
    PROVE  DriveInv' /\ NoKick
<1>1. ~gpio
  BY WriteOfCall
<1>2. PICK i \in 1 .. 6, w \in Wheels :
          /\ Progress(i) /\ todo' = Rest(asked, i + 1) /\ i = PinsAt(w)
          /\ Head(todo).wheel = w /\ Head(todo).value = ForwardPin(asked[w])
  BY WriteOfCall
<1>3. /\ asked' = asked /\ cc2' = cc2 /\ gpio' = gpio
      /\ ccr' = ccr /\ cctl' = cctl /\ enabled' = enabled
      /\ timer' = timer /\ pwm_enabled' = pwm_enabled
  BY DEF NextWrite, pwm
<1>4. cc1' = [cc1 EXCEPT ![w] = ForwardPin(asked[w])]
  BY <1>2
<1>5. TypeInv' /\ ChannelsInv'
  BY <1>3, <1>4 DEF DriveInv, TypeInv, ChannelsInv, ForwardPin
<1>6. Progress(i + 1)'
  BY <1>2, <1>3, <1>4 DEF Progress, PinsAt, PwmAt, Wheels, DriveInv, TypeInv
<1>7. CallInv'
  BY <1>2, <1>3, <1>6 DEF CallInv
<1>8. NoKick
  <2> SUFFICES ASSUME NEW v \in Wheels, Sgn(Turning(v)') # Sgn(Turning(v))
               PROVE  Sgn(Turning(v)') \in {0, Sgn(asked'[v])}
    BY DEF NoKick
  <2>1. v = w
    BY <1>3, <1>4 DEF DriveInv, TypeInv, Turning, Sign, Power
  <2>2. Sgn(Turning(w)') \in {0, Sign(w)'}
    <3>1. TurnsByPins'
      BY <1>5, TurningOfTypedState, PTL
    <3>2. QED
      BY <3>1 DEF TurnsByPins
  <2>3. /\ Sign(w)' = ForwardPin(asked[w]) - cc2[w]
        /\ cc1[w] \in {0, 1} /\ cc2[w] \in {0, 1} /\ asked[w] \in Int
    BY <1>3, <1>4 DEF DriveInv, TypeInv, Sign, Speed
  <2>4. CASE asked[w] > 0
    <3>1. Sign(w)' \in {0, 1} /\ Sgn(asked'[w]) = 1
      BY <1>3, <2>3, <2>4 DEF ForwardPin, Sgn
    <3>2. QED
      BY <2>1, <2>2, <3>1
  <2>5. CASE ~(asked[w] > 0) /\ cc2[w] = 0
    BY <2>1, <2>2, <2>3, <2>5 DEF ForwardPin
  <2>6. CASE ~(asked[w] > 0) /\ cc2[w] = 1
    <3>1. cc1[w] = 0
      BY <1>2, <2>3, <2>6 DEF Progress, PinsAt
    <3>2. Turning(w)' = Turning(w)
      BY <1>3, <1>4, <2>3, <2>6, <3>1 DEF DriveInv, TypeInv, Turning, Sign, Power, ForwardPin
    <3>3. QED
      BY <2>1, <3>2
  <2>7. QED
    BY <2>3, <2>4, <2>5, <2>6
<1>9. QED
  BY <1>1, <1>3, <1>5, <1>7, <1>8 DEF DriveInv, StoppedInv

LEMMA BackwardPinStep ==
    ASSUME DriveInv, NextWrite("cc2"),
           cc2' = [cc2 EXCEPT ![Head(todo).wheel] = Head(todo).value],
           UNCHANGED <<cc1, gpio, pwm>>
    PROVE  DriveInv' /\ NoKick
<1>1. ~gpio
  BY WriteOfCall
<1>2. PICK i \in 1 .. 6, w \in Wheels :
          /\ Progress(i) /\ todo' = Rest(asked, i + 1) /\ i = PinsAt(w) + 1
          /\ Head(todo).wheel = w /\ Head(todo).value = BackwardPin(asked[w])
  BY WriteOfCall
<1>3. /\ asked' = asked /\ cc1' = cc1 /\ gpio' = gpio
      /\ ccr' = ccr /\ cctl' = cctl /\ enabled' = enabled
      /\ timer' = timer /\ pwm_enabled' = pwm_enabled
  BY DEF NextWrite, pwm
<1>4. cc2' = [cc2 EXCEPT ![w] = BackwardPin(asked[w])]
  BY <1>2
<1>5. TypeInv' /\ ChannelsInv'
  BY <1>3, <1>4 DEF DriveInv, TypeInv, ChannelsInv, BackwardPin
<1>6. cc1[w] = ForwardPin(asked[w])
  BY <1>2 DEF Progress, PinsAt
<1>7. ForwardPin(asked[w]) + BackwardPin(asked[w]) < 2
  BY DEF DriveInv, TypeInv, Speed, ForwardPin, BackwardPin
<1>8. Progress(i + 1)'
  BY <1>2, <1>3, <1>4, <1>6, <1>7 DEF Progress, PinsAt, PwmAt, Wheels, DriveInv, TypeInv
<1>9. CallInv'
  BY <1>2, <1>3, <1>8 DEF CallInv
<1>10. NoKick
  <2> SUFFICES ASSUME NEW v \in Wheels, Sgn(Turning(v)') # Sgn(Turning(v))
               PROVE  Sgn(Turning(v)') \in {0, Sgn(asked'[v])}
    BY DEF NoKick
  <2>1. v = w
    BY <1>3, <1>4 DEF DriveInv, TypeInv, Turning, Sign, Power
  <2>2. TurnsAsSet'
    BY <1>5, TurningOfTypedState, PTL
  <2>3. cc1'[w] = ForwardPin(asked'[w]) /\ cc2'[w] = BackwardPin(asked'[w])
    BY <1>3, <1>4, <1>6 DEF DriveInv, TypeInv
  <2>4. QED
    BY <2>1, <2>2, <2>3 DEF TurnsAsSet
<1>11. QED
  BY <1>1, <1>3, <1>5, <1>9, <1>10 DEF DriveInv, StoppedInv

LEMMA DutyCycleStep ==
    ASSUME DriveInv, pwm_set_duty_cycle
    PROVE  DriveInv' /\ NoKick
<1>1. ~gpio /\ NextWrite("pwm")
  BY WriteOfCall DEF pwm_set_duty_cycle
<1>2. PICK i \in 1 .. 6, w \in Wheels :
          /\ Progress(i) /\ todo' = Rest(asked, i + 1) /\ i = PwmAt(w)
          /\ Head(todo).wheel = w /\ Head(todo).value = ABS(asked[w])
  BY <1>1, WriteOfCall
<1>3. asked' = asked /\ cc1' = cc1 /\ cc2' = cc2 /\ gpio' = gpio
  BY <1>1 DEF NextWrite, pwm_set_duty_cycle, pins
<1>4. /\ asked[w] \in Int
      /\ ABS(asked[w]) > 0 <=> asked[w] # 0
      /\ pwm_scale_duty_cycle(ABS(asked[w])) \in Nat
  BY ScaledDutyCycle DEF DriveInv, TypeInv, Speed
<1>5. ccr' = IF asked[w] # 0 THEN [ccr EXCEPT ![w] = pwm_scale_duty_cycle(ABS(asked[w]))] ELSE ccr
  BY <1>2, <1>4 DEF pwm_set_duty_cycle
<1>6. IF enabled[w] <=> asked[w] # 0
      THEN /\ cctl' = cctl /\ enabled' = enabled
           /\ timer' = timer /\ pwm_enabled' = pwm_enabled
      ELSE /\ cctl' = [cctl EXCEPT ![w] = IF asked[w] # 0 THEN "RESET_SET" ELSE "OFF"]
           /\ enabled' = [enabled EXCEPT ![w] = asked[w] # 0]
           /\ pwm_enabled' = \E v \in Wheels : enabled'[v]
           /\ timer' = IF pwm_enabled' # pwm_enabled THEN pwm_enabled' ELSE timer
  <2>1. IF enabled[w] = (Head(todo).value > 0)
        THEN /\ cctl' = cctl /\ enabled' = enabled
             /\ timer' = timer /\ pwm_enabled' = pwm_enabled
        ELSE /\ cctl' = [cctl EXCEPT ![w] = IF Head(todo).value > 0 THEN "RESET_SET" ELSE "OFF"]
             /\ enabled' = [enabled EXCEPT ![w] = Head(todo).value > 0]
             /\ pwm_enabled' = \E v \in Wheels : enabled'[v]
             /\ timer' = IF pwm_enabled' # pwm_enabled THEN pwm_enabled' ELSE timer
    BY <1>2 DEF pwm_set_duty_cycle
  <2>2. (Head(todo).value > 0) = (asked[w] # 0)
    BY <1>2, <1>4
  <2>3. enabled[w] \in BOOLEAN
    BY DEF DriveInv, TypeInv
  <2>4. (enabled[w] = (asked[w] # 0)) <=> (enabled[w] <=> asked[w] # 0)
    BY <2>3
  <2>5. QED
    BY <2>1, <2>2, <2>4
<1>7. TypeInv'
  BY <1>3, <1>4, <1>5, <1>6 DEF DriveInv, TypeInv
<1>8. ChannelsInv'
  BY <1>6 DEF DriveInv, TypeInv, ChannelsInv
<1>9. \A v \in Wheels :
          /\ v # w => (enabled'[v] <=> enabled[v]) /\ ccr'[v] = ccr[v]
          /\ enabled'[w] <=> asked[w] # 0
          /\ enabled'[w] => ccr'[w] = pwm_scale_duty_cycle(ABS(asked[w]))
  BY <1>5, <1>6 DEF DriveInv, TypeInv
<1>10. Progress(i + 1)'
  BY <1>2, <1>3, <1>9 DEF Progress, PinsAt, PwmAt, Wheels
<1>11. CallInv'
  BY <1>2, <1>3, <1>10 DEF CallInv
<1>12. NoKick
  <2>1. TurnsAsSet'
    BY <1>7, TurningOfTypedState, PTL
  <2>2. \A v \in Wheels : cc1'[v] = ForwardPin(asked'[v]) /\ cc2'[v] = BackwardPin(asked'[v])
    BY <1>2, <1>3 DEF Progress, PinsAt, PwmAt
  <2>3. QED
    BY <2>1, <2>2 DEF TurnsAsSet, NoKick
<1>13. QED
  BY <1>1, <1>3, <1>7, <1>8, <1>11, <1>12 DEF DriveInv, StoppedInv

LEMMA AssertStep ==
    ASSUME DriveInv, assert_stop_motors
    PROVE  DriveInv' /\ NoKick
<1>1. /\ gpio' /\ todo' = << >> /\ asked' = Pair(0, 0)
      /\ cc1' = [w \in Wheels |-> 0] /\ cc2' = [w \in Wheels |-> 0]
      /\ ccr' = ccr /\ cctl' = cctl /\ enabled' = enabled
      /\ timer' = timer /\ pwm_enabled' = pwm_enabled
  BY DEF assert_stop_motors, pwm
<1>2. TypeInv'
  BY <1>1 DEF DriveInv, TypeInv, Speed, Pair, Wheels
<1>3. ChannelsInv'
  BY <1>1 DEF DriveInv, ChannelsInv
<1>4. StoppedInv'
  BY <1>1 DEF StoppedInv, Pair, Wheels
<1>5. \A w \in Wheels : Sgn(Turning(w)') = 0
  BY <1>1 DEF Turning, Sign, Power, Sgn
<1>6. QED
  BY <1>1, <1>2, <1>3, <1>4, <1>5 DEF DriveInv, CallInv, NoKick

LEMMA Step == DriveInv /\ [Next]_vars => DriveInv' /\ NoKick
<1> SUFFICES ASSUME DriveInv, [Next]_vars
             PROVE  DriveInv' /\ NoKick
  OBVIOUS
<1>1. ASSUME NEW dir \in Directions, NEW speed \in Speeds, drive_set(dir, speed)
      PROVE  DriveInv' /\ NoKick
  BY <1>1, SpeedsAreSpeeds, CallStep DEF drive_set
<1>2. CASE drive_stop
  <2>1. Pair(0, 0) \in Speed
    BY DEF Pair, Speed, Wheels
  <2>2. QED
    BY <1>2, <2>1, CallStep DEF drive_stop
<1>3. CASE tb6612fng_set_mode
  BY <1>3, ForwardPinStep, BackwardPinStep DEF tb6612fng_set_mode
<1>4. CASE pwm_set_duty_cycle
  BY <1>4, DutyCycleStep
<1>5. CASE assert_stop_motors
  BY <1>5, AssertStep
<1>6. CASE UNCHANGED vars
  BY <1>6 DEF vars, pins, pwm, DriveInv, TypeInv, ChannelsInv, CallInv, Progress, StoppedInv,
              NoKick, Turning, Sign, Power
<1>7. CASE Halted
  BY <1>6, <1>7 DEF Halted
<1>8. QED
  BY <1>1, <1>2, <1>3, <1>4, <1>5, <1>6, <1>7 DEF Next

(* The registers of the two channels and the timer they share agree with   *)
(* pwm.c's copies of them, and a call under way has set exactly what its   *)
(* writes so far have set, in every reachable state.                       *)
THEOREM DriveInvariant == Spec => []DriveInv
BY Initially, Step, PTL DEF Spec

LEMMA SetObeys == DriveInv => ObeysLastCall
<1> SUFFICES ASSUME DriveInv, todo = << >>, NEW w \in Wheels
             PROVE  /\ Sgn(Turning(w)) = Sgn(asked[w])
                    /\ Power(w) = (IF ABS(asked[w]) = 1 THEN 1 ELSE (ABS(asked[w]) * 3) \div 4)
  BY DEF ObeysLastCall
<1>1. CASE gpio
  <2>1. asked[w] = 0
    BY <1>1 DEF DriveInv, StoppedInv
  <2>2. Power(w) = 0 /\ Sign(w) \in Int
    BY <1>1, TurningOfState DEF Power, DriveInv
  <2>3. Sgn(Turning(w)) = 0
    BY <2>2 DEF Turning, Sgn
  <2>4. QED
    BY <2>1, <2>2, <2>3 DEF ABS, Sgn
<1>2. CASE ~gpio
  <2>1. PICK i \in 1 .. 7 : todo = Rest(asked, i) /\ Progress(i)
    BY <1>2 DEF DriveInv, CallInv
  <2>2. i = 7
    <3>1. ~(i \in 1 .. 6)
      BY <2>1, RestOfCall DEF DriveInv, TypeInv
    <3>2. QED
      BY <3>1
  <2>3. /\ cc1[w] = ForwardPin(asked[w]) /\ cc2[w] = BackwardPin(asked[w])
        /\ enabled[w] <=> asked[w] # 0
        /\ enabled[w] => ccr[w] = pwm_scale_duty_cycle(ABS(asked[w]))
    BY <2>1, <2>2 DEF Progress, PinsAt, PwmAt
  <2>4. /\ asked[w] \in Int
        /\ pwm_scale_duty_cycle(ABS(asked[w])) \in Nat
        /\ pwm_scale_duty_cycle(ABS(asked[w])) > 0 <=> asked[w] # 0
    BY ScaledDutyCycle DEF DriveInv, TypeInv, Speed
  <2>5. Sign(w) = Sgn(asked[w]) /\ Sgn(asked[w]) \in {-1, 0, 1}
    BY <2>3, <2>4, ScaledDutyCycle DEF Sign
  <2>6. Power(w) = IF asked[w] # 0 THEN pwm_scale_duty_cycle(ABS(asked[w])) ELSE 0
    BY <1>2, <2>3 DEF Power, DriveInv, TypeInv, ChannelsInv
  <2>7. CASE asked[w] # 0
    BY <2>4, <2>5, <2>6, <2>7, SignOfTurning DEF Turning, pwm_scale_duty_cycle
  <2>8. CASE asked[w] = 0
    BY <2>5, <2>6, <2>8, SignOfTurning DEF Turning, ABS, Sgn
  <2>9. QED
    BY <2>7, <2>8
<1>3. QED
  BY <1>1, <1>2

(* Between two calls both wheels turn as the last call asks, whatever the  *)
(* calls before it left in pwm.c's channels and in the timer they share    *)
(* (drive_set, tb6612fng_set_mode, pwm_set_duty_cycle).                    *)
THEOREM WheelsObeyLastCall == Spec => []ObeysLastCall
BY DriveInvariant, SetObeys, PTL

(* On the way from one call to the next no wheel gets a direction that     *)
(* neither the old nor the new call gives it: modes are written before     *)
(* duty cycles, and each mode through two pins.                            *)
THEOREM WheelsAreNotKicked == Spec => NoKickOnTheWay
<1>1. DriveInv /\ [Next]_vars => [NoKick]_vars
  BY Step
<1>2. QED
  BY <1>1, DriveInvariant, PTL DEF Spec, NoKickOnTheWay, NoKick

=============================================================================
