------------------------------ MODULE MCDaemon ------------------------------
(* Daemon with a server of two threads, so that a signal can hit the thread  *)
(* of run, a service or main, and a second signal another of them.           *)
EXTENDS Daemon
=============================================================================
