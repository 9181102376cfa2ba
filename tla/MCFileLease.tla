---------------------------- MODULE MCFileLease ----------------------------
\* As many tokens and inodes as can be in use at once, and one more.
EXTENDS FileLease

CONSTANTS t1, t2, t3, t4, t5, i1, i2, i3, i4

EnoughTokens == {t1, t2, t3, t4, t5}
EnoughInodes == {i1, i2, i3, i4}
=============================================================================
