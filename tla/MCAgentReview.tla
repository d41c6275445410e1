--------------------------- MODULE MCAgentReview ---------------------------
(***************************************************************************)
(* AgentReview with a file of three lines and one of a single line.        *)
(***************************************************************************)
EXTENDS AgentReview

MCMaxLen == <<3, 1>>
=============================================================================
