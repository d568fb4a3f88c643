------------------------------ MODULE MCCanvas ------------------------------
EXTENDS Canvas

CONSTANTS i1, i2

MCImages == {i1, i2}
MCContent == SUBSET MCImages
MCBlank == {}
=============================================================================
