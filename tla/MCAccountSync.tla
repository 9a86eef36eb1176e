---- MODULE MCAccountSync ----
EXTENDS AccountSync, TLC

CONSTANTS w1, w2, w3

\* One npub.cash wallet, and Lightning addresses.
OneNpub == [w \in Wallets |-> IF w = w1 THEN "npubCashWallets" ELSE "blinkLnAddressWallets"]

\* Lightning addresses only: the wallets are interchangeable.
AllAlike == [w \in Wallets |-> "blinkLnAddressWallets"]

Symmetry == Permutations(Devices) \cup Permutations(Wallets) \cup Permutations(Requests)
====
