-------------------------- MODULE MCLedController --------------------------
(* The instance of LedController that TLC checks.                          *)
EXTENDS LedController

MCRegs == {"color", "mode"}

\* The blink of 3 is one whose on_ms + off_ms does not fit 16 bits.
MCVals == {1, 2, 3}
MCInvalid == {<<"mode", 3>>}
=============================================================================
