----------------------------- MODULE MCChatAgent -----------------------------
(***************************************************************************)
(* ChatAgent for TLC: amounts below, at and above the limit of 2.          *)
(***************************************************************************)
EXTENDS ChatAgent
=============================================================================
