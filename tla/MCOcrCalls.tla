------------------------------ MODULE MCOcrCalls ------------------------------
EXTENDS OcrCalls
=============================================================================
