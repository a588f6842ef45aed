---------------------------- MODULE MCDispatcher ----------------------------
(* Dispatcher for TLC, with the worker's numbers in fifths of a second. *)
EXTENDS Dispatcher

\* 1s, 5s, 30s, 5m, 30m
Schedule == <<5, 25, 150, 1500, 9000>>
=============================================================================
