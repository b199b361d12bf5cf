----------------------------- MODULE RateLimit -----------------------------
(* The sliding window of one user (bot/utils/ratelimit.py), over the times *)
(* of his requests, which do not decrease.                                 *)
EXTENDS Naturals, Sequences, SequencesExt, FiniteSetsExt

CONSTANTS MaxHits, WindowSeconds
ASSUME RateLimitAssumption == MaxHits \in Nat /\ WindowSeconds \in Nat \ {0}

\* The hits from the first one on that is not older than the window.
RecentFrom(hits, kept) == IF kept = {} THEN <<>> ELSE SubSeq(hits, Min(kept), Len(hits))
\* Mutant of Recent: a hit as old as the window is forgotten.
RecentStrictly(hits, now) == RecentFrom(hits, {i \in DOMAIN hits : hits[i] + WindowSeconds > now})
Recent(hits, now) == RecentFrom(hits, {i \in DOMAIN hits : hits[i] + WindowSeconds >= now})

\* One request: [hits |-> the deque, allowed |-> the answers so far].
Allow(state, now) ==
  LET hits == Recent(state.hits, now) IN
  IF Len(hits) >= MaxHits
  THEN [hits |-> hits, allowed |-> Append(state.allowed, FALSE)]
  ELSE [hits |-> Append(hits, now), allowed |-> Append(state.allowed, TRUE)]

Answers(times) == FoldLeft(Allow, [hits |-> <<>>, allowed |-> <<>>], times).allowed
=============================================================================
