------------------------------ MODULE MCLogLock ------------------------------
(* Small instances of LogLock. *)
EXTENDS LogLock

OnlyPoll == {"poll"}
OnlySubmit == {"submit"}
=============================================================================
