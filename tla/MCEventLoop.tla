---------------------------- MODULE MCEventLoop ----------------------------
(* A small instance of EventLoop: the sessions are numbers.                 *)
EXTENDS EventLoop
=============================================================================
