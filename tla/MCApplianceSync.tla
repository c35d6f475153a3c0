--------------------------- MODULE MCApplianceSync ---------------------------
(***************************************************************************)
(* Three appliances that lack little, one reading files, one asking SQL    *)
(* and not yet activated, one asking an HTTP service and without mailbox;  *)
(* and the settings a tenant goes through.                                 *)
(***************************************************************************)
EXTENDS ApplianceSync

Mailbox == {"mailbox", "mailbox_keys", "mailbox_receipt"}

Common ==
  {"config", "model_key", "embeddings", "embeddings_key", "sakbe_key",
   "adapter_path", "adapter", "chunks", "knowledge_receipt", "hostname",
   "token", "metrics", "connected", "public", "protected", "origin_receipt"}

MCAppliances ==
  {Common \cup Mailbox \cup {"license", "file_import", "tms_reachable"},
   Common \cup Mailbox \cup {"sql", "tms_keys", "mapping_path", "mapping"},
   Common \cup {"license", "http", "custom_contract", "tms_keys", "tms_receipt"}}

MCSettings ==
  {[pricing |-> "formula", template |-> "branded"],
   [pricing |-> "none", template |-> "by_name"]}
=============================================================================
