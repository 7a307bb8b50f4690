------------------------------ MODULE MCTokens -------------------------------
(* Tokens with one grant and one line at a time.                           *)
EXTENDS Tokens
=============================================================================
