------------------------------ MODULE MCAlerts ------------------------------
EXTENDS Alerts
MCFilter == [c \in Channels |-> IF c = "slack" THEN {"critical"} ELSE {"critical", "warning"}]
=============================================================================
