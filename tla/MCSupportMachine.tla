--------------------------- MODULE MCSupportMachine ---------------------------
EXTENDS SupportMachine
===============================================================================
