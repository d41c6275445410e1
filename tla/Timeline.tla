------------------------------ MODULE Timeline ------------------------------
(***************************************************************************)
(* What an undo history promises, without its tree: the texts a document   *)
(* has had are kept in the order they came, the document always shows one  *)
(* of them, an edit adds one, going back shows an earlier one and going    *)
(* forward a later one.  No text is ever lost or altered.                  *)
(***************************************************************************)
EXTENDS Integers

CONSTANT Docs

VARIABLES states,  \* states[n] is the n-th text the document has had, from 0
          at,      \* the one shown
          text     \* the document

tlVars == <<states, at, text>>

TLInit ==
  /\ text \in Docs
  /\ states = [n \in {0} |-> text]
  /\ at = 0

\* A new text is recorded last and shown.
Record ==
  \E d \in Docs, n \in DOMAIN states :
    /\ DOMAIN states = 0..n
    /\ states' = [m \in 0..(n + 1) |-> IF m \in 0..n THEN states[m] ELSE d]
    /\ at' = n + 1
    /\ text' = d

\* Show an earlier text, or a later one.
Back == \E n \in DOMAIN states : n < at /\ at' = n /\ text' = states[n] /\ UNCHANGED states
Forward == \E n \in DOMAIN states : n > at /\ at' = n /\ text' = states[n] /\ UNCHANGED states

TLNext == Record \/ Back \/ Forward

TLSpec == TLInit /\ [][TLNext]_tlVars
=============================================================================
