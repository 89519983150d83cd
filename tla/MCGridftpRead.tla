--------------------------- MODULE MCGridftpRead ----------------------------
EXTENDS GridftpRead
=============================================================================
