----------------------------- MODULE MCMsgQueue -----------------------------
EXTENDS MsgQueue, TLC
=============================================================================
