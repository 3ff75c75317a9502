------------------------- MODULE MCTaskOrchestrator -------------------------
(* The threads of each runtime; those of Codex are interchangeable.        *)
EXTENDS TaskOrchestrator, TLC

CONSTANTS Codex, Claude, Hermes

MCThread == Codex \cup Claude \cup Hermes
MCRuntimeOf ==
  [th \in Thread |-> CASE th \in Codex -> "codex"
                       [] th \in Claude -> "claude_code"
                       [] OTHER -> "hermes"]
MCSymmetry == Permutations(Worker) \cup Permutations(Codex)
=============================================================================
