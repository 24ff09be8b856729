---------------------------- MODULE MCCommandRun ----------------------------
EXTENDS CommandRun
==============================================================================
