-------------------------- MODULE MCMonitorSession --------------------------
EXTENDS MonitorSession
CONSTANTS q1, q2, q3, s1
=============================================================================
