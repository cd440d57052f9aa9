--------------------------- MODULE MCProvisioning ---------------------------
(***************************************************************************)
(* A directory, an artifact that is one file, and another directory, as in *)
(* build_specs.  The second commit of the first has a file less.           *)
(***************************************************************************)
EXTENDS Provisioning

MCSpecs == <<"embedding", "llm", "ocr">>

MCSnapshot ==
    [a \in Artifact |-> [c \in Commit |->
        CASE a = "embedding" -> IF c = 1 THEN {"config", "weights"} ELSE {"weights"}
          [] a = "llm" -> {"gguf"}
          [] a = "ocr" -> {"config"}]]

=============================================================================
