---------------------------- MODULE MCTimerTask ----------------------------
EXTENDS TimerTask
MCDelays == {-1, 2}
=============================================================================
