----------------------------- MODULE MCMainLoop -----------------------------
(***************************************************************************)
(* MainLoop for TLC: ints of five bits, two milliseconds and four          *)
(* microseconds in a second.  9 seconds are more than wtimeout and usleep  *)
(* can be told, 5 more than an int but not more than a useconds_t.  With   *)
(* -G a sample sleeps for up to half a second.                             *)
(***************************************************************************)
EXTENDS MainLoop

\* -40 and 34 do not fit an int; -40 would be 24 - 32 = -8 if it were cut, 34
\* would be 2.
MCNumbers == {-40, -1, 0, 1, 2, 5, 9, 34}
=============================================================================
