-------------------------------- MODULE Tags -------------------------------
(***************************************************************************)
(* The tags that the model suggests, matched with the bank of tags         *)
(* (bot/services/tags.py).  A suggestion is given by how much it resembles *)
(* the name and the aliases of each tag: scores[n][k] is the score of the  *)
(* k-th name of the n-th tag, 100 for the same name.  Empty suggestions    *)
(* and empty names, which the code skips, are left out.                    *)
(***************************************************************************)
EXTENDS Naturals, Sequences, SequencesExt, FiniteSetsExt

CONSTANT Threshold
ASSUME ThresholdAssumption == Threshold \in 1..100

\* The names of the n-th tag, one after the other: only a better one counts.
CompareNames(best, n, names) ==
  FoldLeft(LAMBDA b, score : IF score > b.score THEN [tag |-> n, score |-> score] ELSE b,
           best, names)

\* Mutant of Same: the search stops at the first tag that is good enough.
GoodEnough(best) == best.score >= Threshold
\* The search stops after a tag with a name that is the same.
Same(best) == best.score >= 100

Search(scores) ==
  FoldLeft(LAMBDA best, n : IF Same(best) THEN best ELSE CompareNames(best, n, scores[n]),
           [tag |-> 0, score |-> 0], [n \in DOMAIN scores |-> n])

\* The position of the tag that was found, or 0.
BestTag(scores) ==
  LET best == Search(scores) IN IF best.score >= Threshold THEN best.tag ELSE 0

\* A tag is taken once; a suggestion without a tag goes to the admin's queue.
Reconcile(suggested) ==
  FoldLeft(LAMBDA r, scores :
             LET tag == BestTag(scores) IN
             IF tag = 0 THEN [r EXCEPT !.unmatched = Append(@, scores)]
             ELSE IF Contains(r.matched, tag) THEN r
             ELSE [r EXCEPT !.matched = Append(@, tag)],
           [matched |-> <<>>, unmatched |-> <<>>], suggested)
=============================================================================
