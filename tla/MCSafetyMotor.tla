---- MODULE MCSafetyMotor ----
EXTENDS SafetyMotor
====
