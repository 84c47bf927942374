----------------------------- MODULE FrameClock -----------------------------
(***************************************************************************)
(* The clock of MegamanGame::run.  Every frame is GAME_FRAME milliseconds  *)
(* of game time, whatever it took: the loop sleeps when it is early and    *)
(* runs frames without sleeping when it is late.  lag is the time by which *)
(* the clock is ahead of start when a frame begins.                        *)
(***************************************************************************)
EXTENDS Integers

CONSTANTS
  GameFrame,      \* MegamanGame::GAME_FRAME, 16 ms
  WorkTimes,      \* what the systems and the drawing of one frame may take
  MaxOversleep,   \* SDL_Delay sleeps at least as long as it is asked to
  MaxLag          \* bound: how late the loop may get

ASSUME ClockAssumption ==
  /\ GameFrame \in Nat \ {0} /\ WorkTimes \subseteq Nat
  /\ MaxOversleep \in Nat /\ MaxLag \in Nat

VARIABLES lag, work      \* work: what the last frame took
clockVars == <<lag, work>>

ClockInit == lag = 0 /\ work = 0

SlipAsleep(spent) == FALSE
Asleep(spent) == spent < GameFrame

SlipLate(spent) == spent
Late(spent) == spent - GameFrame

(* if (end - start < GAME_FRAME) SDL_Delay(GAME_FRAME - (end - start));    *)
(* start += GAME_FRAME.                                                    *)
ClockFrame ==
  /\ work' \in WorkTimes
  /\ LET spent == lag + work'
     IN IF Asleep(spent) THEN lag' \in 0..MaxOversleep
                         ELSE lag' = Late(spent) /\ lag' <= MaxLag

(* end - start is unsigned: start never gets ahead of the clock.           *)
NeverEarly == lag \in Nat

(* A frame no longer than GAME_FRAME never makes the loop later than it was*)
(* or than the sleep alone could, and a shorter one brings it nearer.      *)
LagTick ==
  /\ work' <= GameFrame => lag' <= lag \/ lag' <= MaxOversleep
  /\ work' < GameFrame => lag' < lag \/ lag' <= MaxOversleep
LagShrinks == [][LagTick]_clockVars
=============================================================================
