----------------------------- MODULE SdioDevice -----------------------------
(***************************************************************************)
(* What the SDIO layer promises to a client that has attached to a card    *)
(* (sdio_attach, sdio_send_cmd and the other calls of sdiodi/card.c): a    *)
(* command begins only on a device that is attached and not being removed, *)
(* and the device is given back only when no command is in progress on it. *)
(***************************************************************************)
VARIABLES
  st,    \* the device: "none", "live" or "closing"
  busy   \* a command is in progress on it

vars == <<st, busy>>

Init == st = "none" /\ busy = FALSE

(* The card has been identified and the client attaches to it. *)
Attach == st = "none" /\ st' = "live" /\ UNCHANGED busy

Begin == st = "live" /\ ~busy /\ busy' = TRUE /\ UNCHANGED st
End   == busy /\ busy' = FALSE /\ UNCHANGED st

(* The card has been removed; a command may still be in progress. *)
Close == st = "live" /\ st' = "closing" /\ UNCHANGED busy

Free == st = "closing" /\ ~busy /\ st' = "none" /\ UNCHANGED busy

Next == Attach \/ Begin \/ End \/ Close \/ Free

Spec == Init /\ [][Next]_vars
=============================================================================
