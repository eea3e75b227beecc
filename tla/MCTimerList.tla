---------------------------- MODULE MCTimerList -----------------------------
(* Two hard timers and two soft ones.  The application starts and stops    *)
(* hard1 and soft1 and changes soft1; timeout functions start and stop     *)
(* hard2, which is periodic, and soft2.                                    *)
EXTENDS TimerList

CONSTANTS hard1, hard2, soft1, soft2

MCInitTime == [t \in Timer |-> IF t \in FuncTimer THEN 1 ELSE MaxTime]
=============================================================================
