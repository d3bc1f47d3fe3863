--------------------------- MODULE MCAuditPortal ---------------------------
EXTENDS AuditPortal

=============================================================================
