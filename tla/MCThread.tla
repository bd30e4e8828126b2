------------------------------- MODULE MCThread -------------------------------
(* Small instances of Thread for TLC: with MaxStarts = 2 a second start()   *)
(* meets the leftovers of the first, joined or detached.                    *)
EXTENDS Thread

AllKinds == {"run", "poll", "token"}
TokenOnly == {"token"}
=============================================================================
