--------------------------- MODULE MCServerLifecycle ---------------------------
EXTENDS ServerLifecycle

MCSteps == {-1, 1}
MCSettings == {-1, 0, 5, 6, 11}
================================================================================
