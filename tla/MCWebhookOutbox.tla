--------------------------- MODULE MCWebhookOutbox ---------------------------
(* Two intents that are built alike, as for a completed job, and one that       *)
(* differs from them in the success flag only, as an ordinary failure's two do: *)
(* its receiver never takes it, and it comes first in every scan.               *)
EXTENDS WebhookOutbox

CONSTANTS e1, e2, e3
MCNotice == [e \in Events |-> "job"]
MCSuccess == [e \in Events |-> e = e3]
MCRank == [e \in Events |-> CASE e = e3 -> 1 [] e = e1 -> 2 [] OTHER -> 3]
==============================================================================
