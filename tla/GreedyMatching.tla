--------------------------- MODULE GreedyMatching ---------------------------
(***************************************************************************)
(* The loop that auto_match_statement and auto_match_cards share: items in *)
(* order, each takes one candidate that fits it and that no earlier item   *)
(* has taken.  The order of the candidates is the database's, hence a      *)
(* choice.  Items are naturals in the order the query sorts them.          *)
(***************************************************************************)
EXTENDS Naturals

Earlier(m, i) == {m[j] : j \in {k \in DOMAIN m : k < i}}

\* Mutant: the candidates that earlier items have taken are offered again.
TakesAgain(i, pool, fits, prefers, taken) ==
    LET free == fits[i] \cap pool
        preferred == free \cap prefers[i]
    IN  IF preferred # {} THEN preferred ELSE free

\* What item i may still take: a preferred candidate when there is one.
Takes(i, pool, fits, prefers, taken) ==
    LET free == (fits[i] \cap pool) \ taken
        preferred == free \cap prefers[i]
    IN  IF preferred # {} THEN preferred ELSE free

\* m is a result the loop may reach over items and the candidates of pool.
IsGreedyMatch(m, items, pool, fits, prefers) ==
    \A i \in items :
        LET takes == Takes(i, pool, fits, prefers, Earlier(m, i))
        IN  IF takes = {} THEN i \notin DOMAIN m ELSE i \in DOMAIN m /\ m[i] \in takes

GreedyMatches(items, pool, fits, prefers) ==
    {m \in UNION {[d -> pool] : d \in SUBSET items} : IsGreedyMatch(m, items, pool, fits, prefers)}

=============================================================================
