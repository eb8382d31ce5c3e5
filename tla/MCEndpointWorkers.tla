------------------------- MODULE MCEndpointWorkers -------------------------
(* Instances of EndpointWorkers for TLC. *)
EXTENDS EndpointWorkers, TLC

CONSTANTS chat, asr, film, wan

(* A text, a Whisper and a GPU endpoint, and one without a worker. *)
MCKinds == (chat :> "text") @@ (asr :> "whisper") @@ (film :> "video")
           @@ (wan :> "pending")
==============================================================================
