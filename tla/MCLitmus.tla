------------------------------ MODULE MCLitmus ------------------------------
EXTENDS Litmus
=============================================================================
