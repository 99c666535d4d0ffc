-------------------------------- MODULE MCWindows --------------------------------
EXTENDS Windows
================================================================================
