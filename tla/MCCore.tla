------------------------------- MODULE MCCore -------------------------------
(***************************************************************************)
(* The edit algebra, the undo tree, and the places in a server's answers,  *)
(* for TLC.  A behaviour is of one of the three.  The tree's texts are     *)
(* model values and its transactions replace one text by another, so that  *)
(* applying one where it does not belong shows; the other parts have real  *)
(* changesets.                                                             *)
(***************************************************************************)
EXTENDS UndoTree, ComposeLoop

CONSTANTS Texts, AnswerTexts, NewTexts, MaxTyped

VARIABLES part, answered, head, spans, answer, typed

answerVars == <<answered, head, spans, answer, typed>>
coreVars == <<part, vars, composeVars, answerVars>>

\* A transaction fits the text it was built for only.
MCTxs == {t \in Texts \X Texts : t[1] # t[2]}
MCFits(tx, d) == tx[1] = d
MCApply(tx, d) == IF tx[1] = d THEN tx[2] ELSE tx[1]
MCInverse(tx, d) == <<tx[2], tx[1]>>
MCCursors(d) == {<<d, "start">>}

\* Wide characters before a place and before an end of a line, empty lines, every
\* end of a line.
MCAnswerTexts ==
  {<<>>, <<"w", "a">>, <<"w", "nl", "a">>, <<"a", "k">>, <<"a", "cr", "nl">>,
   <<"cr", "a">>}
MCNewTexts == {<<>>, <<"a">>}

An == INSTANCE LspAnswers WITH Texts <- AnswerTexts, text <- answered

\* Nothing composed with nothing.
NothingComposed ==
  /\ text = <<>> /\ a = Identity(0) /\ b = Identity(0)
  /\ ai = 1 /\ ao = 0 /\ bi = 1 /\ bo = 0 /\ out = <<>>

Unanswered == answered = <<>> /\ head = 0 /\ spans = <<>> /\ answer = An!Waiting /\ typed = 0

CoreInit ==
  \/ part = "undo" /\ Init /\ NothingComposed /\ Unanswered
  \/ /\ part \in {"compose", "answers"}
     /\ Init /\ doc = CHOOSE d \in Docs : TRUE
     /\ IF part = "compose" THEN ComposeInit /\ Unanswered ELSE NothingComposed /\ An!Init

CoreNext ==
  \/ part = "undo" /\ Next /\ UNCHANGED <<part, composeVars, answerVars>>
  \/ part = "compose" /\ Iteration /\ UNCHANGED <<part, vars, answerVars>>
  \/ part = "answers" /\ An!Next /\ UNCHANGED <<part, vars, composeVars>>

CoreSpec == CoreInit /\ [][CoreNext]_coreVars /\ WF_composeVars(Iteration)

-----------------------------------------------------------------------------
\* RedoRestoresUndo and ImplementsTimeline stand in UndoTree (undo, redo, undo_older,
\* undo_newer); CursorFollowsItsCharacter, InverseRestores and ComposeIsSequential in
\* ComposeLoop (map_pos, invert, compose).
\* Places in UTF-16 units become the characters meant (lsp_edit.rs, apply_lsp_edits).
ServerIsUnderstood == An!ServerIsUnderstood
=============================================================================
