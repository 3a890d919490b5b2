--------------------------------- MODULE MCHttp ---------------------------------
EXTENDS Http
================================================================================
