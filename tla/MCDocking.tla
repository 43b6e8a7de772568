------------------------------ MODULE MCDocking ------------------------------
EXTENDS Docking
=============================================================================
