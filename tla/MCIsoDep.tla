------------------------------ MODULE MCIsoDep ------------------------------
EXTENDS IsoDep
=============================================================================
