-------------------------- MODULE MCWebhookDelivery --------------------------
(* Two invocations under one worker id, as when PV_WEBHOOK_WORKER_ID is set. *)
EXTENDS WebhookDelivery

CONSTANTS w1

MCWorkerOf == [i \in Invocations |-> w1]
=============================================================================
