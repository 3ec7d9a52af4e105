------------------------------ MODULE MCStartup ------------------------------
EXTENDS Startup

\* Thread local data or none, and a partition of one word.
MCLayouts == [tdata : {0, 1}, tbss : {0, 1}, data : {1}, bss : {1, 2}, part : {1}]
=============================================================================
