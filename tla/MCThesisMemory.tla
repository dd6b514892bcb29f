---------------------------- MODULE MCThesisMemory ----------------------------
(***************************************************************************)
(* ThesisMemory on a small instance: a trading agent and a belief keeper   *)
(* on the same store.                                                      *)
(***************************************************************************)
EXTENDS ThesisMemory, TLC

CONSTANTS agent, keeper

MCReasoners == {agent, keeper}
MCTraders == {agent}

(***************************************************************************)
(* TLC follows behaviours in which at most one commit waits for its        *)
(* thread: an answer that is ready earlier meets the same memory later.    *)
(***************************************************************************)
OneCommit == Cardinality(commits) <= 1

Symmetry == Permutations(Events)
=============================================================================
