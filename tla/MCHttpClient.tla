----------------------------- MODULE MCHttpClient -----------------------------
(* Instances of HttpClient for TLC: two callers, which are two tasks, a task *)
(* and a thread, or two threads.                                             *)
EXTENDS HttpClient

CONSTANTS c1, c2

TwoCallers == {c1, c2}
AllModes == {{}, {c2}, TwoCallers}
ZeroOrOne == {0, 1}
===============================================================================
