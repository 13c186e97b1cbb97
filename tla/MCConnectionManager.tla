------------------------ MODULE MCConnectionManager ------------------------
(***************************************************************************)
(* Small instances of ConnectionManager.  The limits are scaled down: two  *)
(* or three attempts instead of 11, and a limit of one failure instead of  *)
(* five, so that two calls can exceed it, alone or together.               *)
(***************************************************************************)
EXTENDS ConnectionManager

CONSTANTS r1, r2

TwoRequests == {r1, r2}

Found    == {"found"}
Anything == {"found", "throws", "bad_address"}

WithConsul == {TRUE}
NoAddress  == {FALSE}
Either     == BOOLEAN
=============================================================================
