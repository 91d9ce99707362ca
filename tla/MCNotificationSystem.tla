------------------------ MODULE MCNotificationSystem ------------------------
(* Small instances of NotificationSystem for TLC. *)
EXTENDS NotificationSystem

\* What the stack sets in the environment of the tests (isTest).
MCBatchSize == 1
MCTimeout == 30
=============================================================================
