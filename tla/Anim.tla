-------------------------------- MODULE Anim --------------------------------
(***************************************************************************)
(* tickAnim (Megaman.cpp), the animation tick every animated entity gets   *)
(* once per frame, as an operator on an animation record                   *)
(*   [prev, frame, timer, finished]                                        *)
(* where finished is RenderFrame::finishedThisTick.  A clip is a record    *)
(*   [count, step, loop]  (frameCount, framesPerStep, loop).               *)
(* The sprite column is the clip's first column plus frame.                *)
(***************************************************************************)
EXTENDS Naturals

Fresh(state) == [prev |-> state, frame |-> 0, timer |-> 0, finished |-> FALSE]

(* A change of state starts the clip again.  SlipEntered is a plausible    *)
(* mistake in the definition that follows; nothing uses it.                *)
SlipEntered(anim, state) ==
  IF state # anim.prev THEN [Fresh(state) EXCEPT !.prev = anim.prev]
                       ELSE [anim EXCEPT !.finished = FALSE]
Entered(anim, state) ==
  IF state # anim.prev THEN Fresh(state) ELSE [anim EXCEPT !.finished = FALSE]

(* The next frame, when the timer has run: a looping clip wraps, a one-shot*)
(* stays on its last frame and reports that it finished.                   *)
Advance(a, clip) ==
  IF a.frame + 1 < clip.count
    THEN [a EXCEPT !.timer = 0, !.frame = a.frame + 1]
  ELSE IF clip.loop THEN [a EXCEPT !.timer = 0, !.frame = 0]
  ELSE [a EXCEPT !.timer = 0, !.frame = clip.count - 1, !.finished = TRUE]

TickAnim(anim, state, clip) ==
  LET a == Entered(anim, state)
  IN IF clip.count <= 1 THEN a
     ELSE IF a.timer + 1 >= clip.step THEN Advance(a, clip)
     ELSE [a EXCEPT !.timer = a.timer + 1]
=============================================================================
