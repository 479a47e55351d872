---------------------------- MODULE MCReadingPlaces ----------------------------
EXTENDS ReadingPlaces
================================================================================
