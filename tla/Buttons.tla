-------------------------------- MODULE Buttons --------------------------------
(****************************************************************************)
(* Local buttons: the gesture recognizer (src/src/core/button_logic.c) and  *)
(* the task that runs it every 10 ms (src/src/button_service.c).            *)
(*                                                                          *)
(* As in PowerLogic, timestamps are ages that saturate at AgeCap, and a     *)
(* definition named Mut... is a plausible bug.                              *)
(****************************************************************************)
EXTENDS Integers

CONSTANTS
    ButtonIds,      \* the enabled buttons
    Debounce,       \* input.debounce_ms
    DoublePress,    \* double_press_ms
    LongPress,      \* long_press_ms
    MaxClicks,      \* UINT8_MAX, where the click counter saturates
    MaxScan,        \* bound: the longest pass of button_task
    AgeCap          \* bound: where ages saturate

(* Validated by config_validation.c 261; two clicks must be countable.      *)
ASSUME ButtonsAssumption ==
    /\ AgeCap \in Nat
    /\ Debounce \in 1 .. AgeCap /\ DoublePress \in 1 .. AgeCap
    /\ LongPress \in Debounce + 1 .. AgeCap
    /\ MaxClicks \in Nat \ {0, 1}
    /\ MaxScan \in Nat \ {0}

VARIABLES
    buttons,    \* s_runtime: one bc250_button_logic_t per button
    gesture,    \* what the last update of each button returned
    waiting,    \* history: debounced presses no gesture was reported for yet
    answered    \* history: the presses the last update reported a gesture for

buttonVars == <<buttons, gesture, waiting, answered>>

Age == 0 .. AgeCap
Gestures == {"none", "short", "double", "long"}
Button == [raw : BOOLEAN, stable : BOOLEAN, longSent : BOOLEAN, clicks : 0 .. MaxClicks,
           rawAge : Age, pressAge : Age, releaseAge : Age]
Many == MaxClicks + 1   \* where the histories saturate

ButtonsOK ==
    /\ buttons \in [ButtonIds -> Button]
    /\ gesture \in [ButtonIds -> Gestures]
    /\ waiting \in [ButtonIds -> 0 .. Many] /\ answered \in [ButtonIds -> 0 .. Many]

-------------------------------------------------------------------------------
(* bc250_button_logic_update, in the order of the code.                     *)

Older(a, dt) == IF a + dt < AgeCap THEN a + dt ELSE AgeCap
Aged(b, dt) == [b EXCEPT !.rawAge = Older(@, dt), !.pressAge = Older(@, dt),
                         !.releaseAge = Older(@, dt)]

Read(b, raw) == IF raw = b.raw THEN b ELSE [b EXCEPT !.raw = raw, !.rawAge = 0]

MutCount(clicks) == (clicks + 1) % (MaxClicks + 1)
Count(clicks) == IF clicks < MaxClicks THEN clicks + 1 ELSE clicks

(* The end of a long press is no click.                                     *)
Pressed(b) == [b EXCEPT !.stable = TRUE, !.pressAge = 0, !.longSent = FALSE]
Released(b) ==
    IF b.longSent THEN [b EXCEPT !.stable = FALSE]
    ELSE [b EXCEPT !.stable = FALSE, !.clicks = Count(@), !.releaseAge = 0]
Debounced(b) ==
    IF b.stable = b.raw \/ b.rawAge < Debounce THEN b
    ELSE IF b.raw THEN Pressed(b) ELSE Released(b)

IsLong(b) == b.stable /\ ~b.longSent /\ b.pressAge >= LongPress
WindowOver(b) == ~b.stable /\ b.clicks > 0 /\ b.releaseAge >= DoublePress

Recognized(b) ==
    IF IsLong(b) THEN "long"
    ELSE IF ~WindowOver(b) THEN "none"
    ELSE IF b.clicks >= 2 THEN "double" ELSE "short"

Reported(b) ==
    IF IsLong(b) THEN [b EXCEPT !.longSent = TRUE, !.clicks = 0]
    ELSE IF WindowOver(b) THEN [b EXCEPT !.clicks = 0]
    ELSE b

Settled(b, dt, raw) == Debounced(Read(Aged(b, dt), raw))

-------------------------------------------------------------------------------
(* What a press is, counted where it begins and not where it ends.          *)
Presses(id, b) ==
    IF ~buttons[id].stable /\ b.stable /\ waiting[id] < Many THEN waiting[id] + 1
    ELSE waiting[id]

(* A pass of button_task: all buttons with one reading of the clock.        *)
Scan(dt, level) ==
    LET b == [id \in ButtonIds |-> Settled(buttons[id], dt, level[id])]
    IN  /\ buttons' = [id \in ButtonIds |-> Reported(b[id])]
        /\ gesture' = [id \in ButtonIds |-> Recognized(b[id])]
        /\ answered' = [id \in ButtonIds |->
               IF Recognized(b[id]) = "none" THEN 0 ELSE Presses(id, b[id])]
        /\ waiting' = [id \in ButtonIds |->
               IF Recognized(b[id]) = "none" THEN Presses(id, b[id]) ELSE 0]

(* A button may be held while the controller boots.                         *)
ButtonsInit ==
    /\ buttons \in [ButtonIds -> {[raw |-> held, stable |-> held, longSent |-> FALSE,
           clicks |-> 0, rawAge |-> 0, pressAge |-> 0, releaseAge |-> 0] : held \in BOOLEAN}]
    /\ gesture = [id \in ButtonIds |-> "none"]
    /\ waiting = [id \in ButtonIds |-> IF buttons[id].stable THEN 1 ELSE 0]
    /\ answered = [id \in ButtonIds |-> 0]

ButtonTask == \E dt \in 1 .. MaxScan, level \in [ButtonIds -> BOOLEAN] : Scan(dt, level)

ButtonsSpec == ButtonsInit /\ [][ButtonTask]_buttonVars

-------------------------------------------------------------------------------
(* Properties                                                               *)

(* A gesture tells what was pressed: short stands for one press and double  *)
(* for several, both over; long for the press under way that has lasted     *)
(* long enough, with what came before it.  No press is reported twice, and  *)
(* none is forgotten: when a pass is over a press waits for its gesture     *)
(* only while it may still become long, or be followed by another, however  *)
(* the contact bounces and however late the pass is.                        *)
GesturesTellPresses ==
    \A id \in ButtonIds :
        LET b == buttons[id]
        IN  /\ gesture[id] = "short"  => ~b.stable /\ answered[id] = 1
            /\ gesture[id] = "double" => ~b.stable /\ answered[id] >= 2
            /\ gesture[id] = "long"   =>
                   b.stable /\ b.pressAge >= LongPress /\ answered[id] >= 1
            /\ waiting[id] > 0 =>
                   IF b.stable THEN b.pressAge < LongPress ELSE b.releaseAge < DoublePress

===============================================================================
