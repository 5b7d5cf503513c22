-------------------------- MODULE MCSourceRequests --------------------------
(***************************************************************************)
(* Small instances of SourceRequests.  The first head is the manifest's    *)
(* publication; contents 1 and 2 have as many rows as each other, content  *)
(* 3 has a tie and another count, content 4 an invalid row.                *)
(***************************************************************************)
EXTENDS SourceRequests

MCHeads == << [revision |-> 1, status |-> "complete"], [revision |-> 2, status |-> "building"],
              [revision |-> 2, status |-> "complete"], [revision |-> 2, status |-> "twice"] >>

MCContents == << [count |-> 2, logical |-> 2, ties |-> FALSE, valid |-> TRUE],
                 [count |-> 2, logical |-> 2, ties |-> FALSE, valid |-> TRUE],
                 [count |-> 3, logical |-> 2, ties |-> TRUE, valid |-> TRUE],
                 [count |-> 2, logical |-> 2, ties |-> FALSE, valid |-> FALSE] >>

MCManifestCounts == << 2, 2 >>

\* One bounded range, and two adjacent ranges of which the last is unbounded.
MCRangeLists ==
    {<<[id |-> "a", lower |-> 1, upper |-> 2]>>,
     <<[id |-> "a", lower |-> 1, upper |-> 2], [id |-> "b", lower |-> 2, upper |-> 0]>>}
=============================================================================
