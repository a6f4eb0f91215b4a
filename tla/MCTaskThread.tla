---------------------------- MODULE MCTaskThread ----------------------------
EXTENDS TaskThread
=============================================================================
