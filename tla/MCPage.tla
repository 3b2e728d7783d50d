------------------------------ MODULE MCPage ------------------------------
(* Constants of NotificationView for TLC: those of the engine.         *)
EXTENDS MCEngine, NotificationView
=============================================================================
