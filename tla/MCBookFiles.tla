------------------------------ MODULE MCBookFiles ------------------------------
EXTENDS BookFiles
===============================================================================
