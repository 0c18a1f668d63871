--------------------------- MODULE MCWalletVault ---------------------------
(* Small instances of WalletVault for TLC. *)
EXTENDS WalletVault, TLC

CONSTANTS s1, k1, k2

\* Keys the user may paste: raw ones, or also one the phrase will derive.
MCRawImports == {k1}
MCAnyImports == {k1, <<s1, 1>>}

\* The operations each run offers.
MCAccountOps == {"create", "unlock", "lock", "addAccount", "importAccount", "switchAccount",
                 "removeAccount", "storeFails", "restart", "idle"}
MCResetOps == {"create", "lock", "importAccount", "renameAccount", "removeAccount", "reset",
               "record", "storeFails", "exportKey"}
MCStoreOps == {"create", "importAccount", "storeFails", "record", "reset"}
MCUnlockOps == {"create", "unlock", "lock", "importAccount"}
MCRaceOps == {"create", "unlock", "lock", "reset"}
MCExportOps == {"create", "importAccount", "switchAccount", "removeAccount", "exportKey"}
MCSymmetry == Permutations(Calls) \cup Permutations(Keys) \cup Permutations(Lists)
=============================================================================
