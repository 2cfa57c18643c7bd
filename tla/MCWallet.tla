----------------------------- MODULE MCWallet -----------------------------
EXTENDS Wallet, TLC
CONSTANTS small, big
MCWorth == (small :> 1300) @@ (big :> 3000)
=============================================================================
