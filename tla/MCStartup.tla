------------------------------ MODULE MCStartup ------------------------------
EXTENDS Startup

\* A level below, at and above another one.
SomeLevels == 0..2
=============================================================================
