----------------------------- MODULE MCRecognizer -----------------------------
EXTENDS Recognizer
===============================================================================
