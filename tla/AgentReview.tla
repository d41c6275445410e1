---------------------------- MODULE AgentReview ----------------------------
(***************************************************************************)
(* Proposals of the agent and their review, hunk by hunk: the StagingArea  *)
(* of crates/onda-agent/src/staging.rs and the review mode of              *)
(* crates/onda/src/main.rs.                                                *)
(*                                                                         *)
(* A file has one text, that of its buffer or, while it has none, that on  *)
(* disk.  Keys belong to the review while it is open, but the language     *)
(* server, plugins and other programs go on editing, and the agent goes on *)
(* proposing.                                                              *)
(***************************************************************************)
EXTENDS LineMerge

CONSTANTS Lines,      \* the lines there are, "" among them
          MaxLen,     \* bound on the lines of each file; a file is its place here
          MaxWrites,  \* bound on the proposals
          MaxEdits    \* bound on the edits made elsewhere

ReviewPaths == DOMAIN MaxLen
Texts(p) == UNION {[1..n -> Lines] : n \in 1..MaxLen[p]}

VARIABLES text,     \* the text of each file; one line, "", for a file that is missing
          missing,  \* the files with neither a buffer nor a place on disk
          staging,  \* StagingArea::files: the proposal for each file, or NoProposal
          review,   \* App::review, or NoReview; moved and rewritten are history
          writes, edits  \* the bounded counts

vars == <<text, missing, staging, review, writes, edits>>

NoProposal == [base |-> <<>>, proposed |-> <<>>]
NoReview == [path |-> 0]
Empty == <<"">>

Init ==
  /\ missing \in SUBSET ReviewPaths
  /\ text \in [ReviewPaths -> {Empty, <<"x">>}]
  /\ \A p \in missing : text[p] = Empty
  /\ staging = [p \in ReviewPaths |-> NoProposal]
  /\ review = NoReview
  /\ writes = 0
  /\ edits = 0

\* FileWriteRequest: the base is the text of now, whatever the agent was served.
AgentWrites(p, proposed) ==
  /\ writes < MaxWrites
  /\ writes' = writes + 1
  /\ staging' = [staging EXCEPT ![p] = [base |-> text[p], proposed |-> proposed]]
  /\ review' = IF review.path = p THEN [review EXCEPT !.rewritten = TRUE] ELSE review
  /\ UNCHANGED <<text, missing, edits>>

\* The user, the language server, a plugin or another program.
EditElsewhere(p, new) ==
  /\ edits < MaxEdits
  /\ edits' = edits + 1
  /\ p \notin missing
  /\ text' = [text EXCEPT ![p] = new]
  /\ review' = IF review.path = p THEN [review EXCEPT !.moved = TRUE] ELSE review
  /\ UNCHANGED <<missing, staging, writes>>

-----------------------------------------------------------------------------
\* build_review: the differences of the text of now to the proposal.
HunksOf(p, texts) == DiffHunks(texts[p], staging[p].proposed)

Reviewable(p, texts) == staging[p] # NoProposal /\ HunksOf(p, texts) # <<>>

BuildReview(p, texts, remaining) ==
  LET hunks == HunksOf(p, texts)
  IN  [path |-> p, base |-> texts[p], hunks |-> hunks,
       accept |-> [i \in DOMAIN hunks |-> TRUE], remaining |-> remaining,
       moved |-> FALSE, rewritten |-> FALSE]

\* agent_review_start: the first file in order, or nothing when it has no hunks.
Start ==
  LET staged == SetToSortSeq({p \in ReviewPaths : staging[p] # NoProposal}, <)
  IN  /\ review = NoReview
      /\ staged # <<>>
      /\ Reviewable(Head(staged), text)
      /\ review' = BuildReview(Head(staged), text, Tail(staged))
      /\ UNCHANGED <<text, missing, staging, writes, edits>>

\* a, r, A and R
Decide ==
  /\ review # NoReview
  /\ \E i \in DOMAIN review.hunks, b \in BOOLEAN :
       \/ review' = [review EXCEPT !.accept[i] = b]
       \/ review' = [review EXCEPT !.accept = [j \in DOMAIN review.hunks |-> b]]
  /\ UNCHANGED <<text, missing, staging, writes, edits>>

Cancel ==
  /\ review # NoReview
  /\ review' = NoReview
  /\ UNCHANGED <<text, missing, staging, writes, edits>>

\* review_advance: the next file with something to review; the others are done with.
Advance(texts, remaining) ==
  LET first == SelectInSeq(remaining, LAMBDA p : Reviewable(p, texts))
      passed == IF first = 0 THEN ToSet(remaining) ELSE ToSet(SubSeq(remaining, 1, first - 1))
  IN  /\ review' = IF first = 0 THEN NoReview
                   ELSE BuildReview(remaining[first], texts,
                                    SubSeq(remaining, first + 1, Len(remaining)))
      /\ staging' = [p \in ReviewPaths |-> IF p \in passed \cup {review.path} THEN NoProposal
                                     ELSE staging[p]]

Selected ==
  SelectSeq([i \in DOMAIN review.hunks |-> [n |-> i, hunk |-> review.hunks[i]]],
            LAMBDA h : review.accept[h.n])

\* A mutant: what was rejected is applied.
ReviewedAll == ApplyHunks(review.base, review.hunks)

\* apply_selected
Reviewed == ApplyHunks(review.base, [i \in DOMAIN Selected |-> Selected[i].hunk])

\* review_apply: the whole text is replaced if the reviewed one differs from the base;
\* a file that is missing cannot be opened, and its proposal is gone.
Apply ==
  /\ review # NoReview
  /\ text' = IF review.path \notin missing /\ Reviewed # review.base
             THEN [text EXCEPT ![review.path] = Reviewed] ELSE text
  /\ Advance(text', review.remaining)
  /\ UNCHANGED <<missing, writes, edits>>

Next ==
  \/ \E p \in ReviewPaths : \E t \in Texts(p) : AgentWrites(p, t) \/ EditElsewhere(p, t)
  \/ Start \/ Decide \/ Cancel \/ Apply

Spec == Init /\ [][Next]_vars

-----------------------------------------------------------------------------

\* Applying a review changes its file only, and, if nobody edited it meanwhile, so that
\* taking the rejected hunks back from the whole proposal gives the same text.
ReviewDecides ==
  [][Apply =>
       LET rejected == SelectSeq([i \in DOMAIN review.hunks |-> i], LAMBDA i : ~review.accept[i])
           back == [k \in DOMAIN rejected |-> TakeBack(review.base, review.hunks, rejected[k])]
       IN  /\ \A p \in ReviewPaths \ {review.path} : text'[p] = text[p]
           /\ review.path \notin missing /\ ~review.moved =>
                text'[review.path] = ApplyHunks(ApplyHunks(review.base, review.hunks), back)]_vars

\* A clean merge of a proposal with what has become of its base has both edits: the
\* agent's on top of the user's is the user's on top of the agent's.
MergeHasBothEdits ==
  \A p \in ReviewPaths :
    LET q == staging[p]
        agent == DiffHunks(q.base, q.proposed)
        user == DiffHunks(q.base, text[p])
        merge == ThreeWayMerge(q.base, q.proposed, text[p])
    IN  q # NoProposal /\ merge.kind = "clean" /\ ~Touch(agent, user) =>
          /\ merge.text = ApplyHunks(text[p], Rebased(agent, user))
          /\ merge.text = ApplyHunks(q.proposed, Rebased(user, agent))

\* "the agent's change is rebased over the user's via a line-level 3-way merge"
\* (staging.rs:6-8): accepting every hunk keeps what the user changed elsewhere.
AcceptedIsRebased ==
  [][(/\ Apply /\ review.path \notin missing /\ ~review.rewritten /\ ~review.moved
      /\ \A i \in DOMAIN review.accept : review.accept[i]) =>
       LET q == staging[review.path]
           merge == ThreeWayMerge(q.base, q.proposed, text[review.path])
       IN  merge.kind = "clean" => text'[review.path] = merge.text]_vars
=============================================================================
