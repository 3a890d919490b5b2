------------------------------ MODULE MCGenerator ------------------------------
EXTENDS Generator
================================================================================
