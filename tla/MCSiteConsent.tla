---- MODULE MCSiteConsent ----
EXTENDS SiteConsent, TLC

MCAllOps == {"getAddress", "getPermissions", "connect", "revoke", "disconnect", "switch",
             "lock", "unlock", "add", "reset", "fails"}
MCAddOps == {"connect", "switch", "add"}
MCResetOps == {"connect", "reset"}
====
