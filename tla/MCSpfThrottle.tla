--------------------------- MODULE MCSpfThrottle ---------------------------
(* SpfThrottle with times of a few milliseconds.  The settings have a delay *)
(* below, at and above the hold time, no hold time, a maximum below the     *)
(* hold time and one that is no multiple of it.                             *)
EXTENDS SpfThrottle

T(d, h, m) == [delay |-> d, hold |-> h, max |-> m]

Settings == {T(1, 2, 5), T(3, 2, 4), T(0, 1, 3), T(1, 0, 4), T(2, 5, 3), T(0, 0, 0)}
=============================================================================
