---------------------------- MODULE MCEventLoop ----------------------------
EXTENDS EventLoop

MCFd == 0 .. 3
=============================================================================
