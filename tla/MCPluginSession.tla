--------------------------- MODULE MCPluginSession ---------------------------
(* A bounded instance of the plugin session; sizes are in the .cfg.           *)
EXTENDS PluginSession
=============================================================================
