----------------------------- MODULE Interleave -----------------------------
(***************************************************************************)
(* Which streams the next fresh positions of a claim come from: pick_fresh *)
(* of syncer/src/dispense.rs, Tijdeman's earliest-deadline rule over the   *)
(* integer weights of the streams.                                         *)
(***************************************************************************)
EXTENDS Integers, FiniteSetsExt

CONSTANTS
    Streams,    \* stream numbers
    Weight,     \* stream -> its weight
    Limit(_)    \* exclusive end of a stream's positions

TotalWeight == MapThenSumSet(LAMBDA s : Weight[s], Streams)

Spread == 2 * (Cardinality(Streams) - 1)

\* How far stream s is behind its share once n positions are given (times TotalWeight).
Deficit(counts, s, n) == Weight[s] * n - counts[s] * TotalWeight

\* Stream s must be given before t: an earlier deadline, ties by number.
Earlier(counts, s, t) ==
    LET a == (Spread * (counts[s] + 1) - 1) * Weight[t]
        b == (Spread * (counts[t] + 1) - 1) * Weight[s]
    IN  a < b \/ (a = b /\ s <= t)

Behind(counts, s, t, n) ==
    LET a == Deficit(counts, s, n)
        b == Deficit(counts, t, n)
    IN  a > b \/ (a = b /\ s <= t)

\* One turn of the loop of pick_fresh: the counts after one more position.
GiveOne(counts, accept) ==
    LET n    == MapThenSumSet(LAMBDA s : counts[s], Streams) + 1
        open == {s \in accept : counts[s] < Limit(s)}
        due  == {s \in open : Spread * Deficit(counts, s, n) >= TotalWeight}
        pick == IF due # {}
                THEN CHOOSE s \in due : \A t \in due : Earlier(counts, s, t)
                ELSE CHOOSE s \in open : \A t \in open : Behind(counts, s, t, n)
    IN  IF open = {} THEN counts ELSE [counts EXCEPT ![pick] = @ + 1]

\* Dispenser::pick_fresh
EarliestDeadline(next, accept, need) ==
    LET counts[k \in 0 .. need] == IF k = 0 THEN next ELSE GiveOne(counts[k - 1], accept)
    IN  [s \in Streams |-> counts[need][s] - next[s]]

=============================================================================
