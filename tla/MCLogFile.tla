----------------------------- MODULE MCLogFile -----------------------------
(***************************************************************************)
(* The TLC instance of LogFile.  Two lines and a bit are kept of more than *)
(* three: a rotation cuts in the middle of a line, and the lines left let  *)
(* the log grow past a follower's offset again, and rotate again.          *)
(***************************************************************************)
EXTENDS LogFile
============================================================================
