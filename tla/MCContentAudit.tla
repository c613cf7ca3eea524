--------------------------- MODULE MCContentAudit ---------------------------
EXTENDS ContentAudit, MCScripts

=============================================================================
