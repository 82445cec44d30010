---------------------------- MODULE MCBuildRuns ----------------------------
(* The instance of BuildRuns: a two-node DAG and a single-Codex build. *)
EXTENDS BuildRuns
=============================================================================
