------------------------------ MODULE MCAutoClose ------------------------------
(* Instances of AutoClose for TLC. *)
EXTENDS AutoClose, TLC

\* Left out: reply and outbox, which no step reads and no property of this module
\* mentions.
View == <<conv, messages, req, now, created, up, timer, hook, closing, cb, faults, crashes, overtaken>>

=============================================================================
