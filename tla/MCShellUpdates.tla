---------------------------- MODULE MCShellUpdates ----------------------------
EXTENDS ShellUpdates

CONSTANTS t1, t2
===============================================================================
