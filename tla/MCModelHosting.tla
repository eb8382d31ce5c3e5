--------------------------- MODULE MCModelHosting ---------------------------
(* Instances of ModelHosting for TLC. *)
EXTENDS ModelHosting, TLC

CONSTANTS llama, qwen, sdxl, ollama, webui

(* Two text models on one image, one image model on another. *)
MCCatalog == <<llama, qwen, sdxl>>
MCImageOf == (llama :> ollama) @@ (qwen :> ollama) @@ (sdxl :> webui)
MCPrice == (llama :> 1) @@ (qwen :> 1) @@ (sdxl :> 3)

(* The image of the image model is larger than it is taken to be. *)
MCSize == (ollama :> 1) @@ (webui :> 2)
MCEstimate == (ollama :> 1) @@ (webui :> 1)

MCDemands == {(llama :> 1) @@ (qwen :> 0) @@ (sdxl :> 1),
              (llama :> 1) @@ (qwen :> 2) @@ (sdxl :> 0)}
==============================================================================
