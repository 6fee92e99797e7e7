---------------------------- MODULE MCAsyncWriter ----------------------------
(* Small instances of AsyncWriter for TLC. *)
EXTENDS AsyncWriter

AllWrites == Runs \X (1 .. MaxWrites)
=============================================================================
