---------------------------- MODULE MCScanControl ----------------------------
EXTENDS ScanControl, TLC
CONSTANTS n1, n2
==============================================================================
