---------------------------- MODULE MCLockPool -----------------------------
EXTENDS LockPool, TLC
=============================================================================
