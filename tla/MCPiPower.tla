------------------------------- MODULE MCPiPower -------------------------------
EXTENDS PiPower
===============================================================================
