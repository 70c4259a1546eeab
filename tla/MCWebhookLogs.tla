--------------------------- MODULE MCWebhookLogs ---------------------------
(* Small instances of WebhookLogs for TLC.                                 *)
EXTENDS WebhookLogs, TLC

CONSTANTS o1, o2

\* Two pages of one organization; the other has no message.
MCMaxMsgs == o1 :> 2 @@ o2 :> 0

\* Every message may be looked at.
MCOpenable == Msgs
=============================================================================
