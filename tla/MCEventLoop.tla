----------------------------- MODULE MCEventLoop -----------------------------
(* Constants of EventLoop for TLC. *)
EXTENDS EventLoop

Reads     == {{READABLE}}
ReadWrite == {{READABLE}, {WRITABLE}, {READABLE, WRITABLE}}
=============================================================================
