---------------------------- MODULE MCTimeWindows ---------------------------
EXTENDS TimeWindows

MCOptions == [ReplayWindow |-> 3]
MCOTPOptions == [Digits |-> 0, Period |-> 2, Skew |-> 0]
=============================================================================
