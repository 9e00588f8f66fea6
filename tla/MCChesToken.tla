------------------------------ MODULE MCChesToken ------------------------------
(* ChesToken for TLC: two mails at a time, and lifetimes that are unknown (0), *)
(* shorter than the buffer, and longer than it.                                *)
EXTENDS ChesToken
=============================================================================
