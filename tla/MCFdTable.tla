----------------------------- MODULE MCFdTable ------------------------------
EXTENDS FdTable

\* Read, or write without blocking; the private flag in an argument is masked off.
MCFlagArgs == {{}, {"RDWR", "NONBLOCK", "EXCL"}}
=============================================================================
