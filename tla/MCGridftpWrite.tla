--------------------------- MODULE MCGridftpWrite ---------------------------
EXTENDS GridftpWrite

\* All data, nothing, or a section made of whole blocks
MCLengths == {-1, 0, 2, 4}
=============================================================================
