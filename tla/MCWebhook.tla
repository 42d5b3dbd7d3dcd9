------------------------------ MODULE MCWebhook ------------------------------
(* A small pool: the channel can be full while both workers are busy.        *)
EXTENDS WebhookDispatcher

CONSTANTS e1, e2, e3, e4, w1, w2
==============================================================================
