---------------------------- MODULE MCBotVaultV4 ----------------------------
(* Model values for BotVaultV4: a controller, an agent, and reported PnL     *)
(* that falls back, repeats and exceeds what the vault can pay.              *)
EXTENDS BotVaultV4

MCPnlValues == {-1, 1, 3, 4}
=============================================================================
