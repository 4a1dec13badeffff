------------------------------ MODULE Dispenser ------------------------------
(***************************************************************************)
(* The task dispenser of the syncer (syncer/src/dispense.rs) on the shared *)
(* member table (syncer/src/members.rs): a pure state machine, as in the   *)
(* code.  Its state is the record d, every operation an operator from d    *)
(* and a request to the next d and an answer.                              *)
(*                                                                         *)
(* A position is <<stream, number>>, the number counting the stream's own  *)
(* rows from 0 (the code packs both in 64 bits).  Spans are sets of        *)
(* positions.  A queue is kept as the place of each queued position in its *)
(* stream's queue, 1 being the front.  A holder is <<island, incarnation>>.*)
(* Data declarations are left out: every island declares the same data.    *)
(* So is the limit of 4096 live and 4096 remembered retired holders.       *)
(***************************************************************************)
EXTENDS Integers, FiniteSets

CONSTANTS
    Islands,            \* learner ids, ordered like the ids of the code
    MaxIncarnation,     \* bound: processes (incarnations) per island
    Streams,            \* stream numbers
    Rows,               \* stream -> its row count
    Passes,             \* --dispense-passes, 0 for unlimited
    StreamPositions,    \* STREAM_POSITIONS: positions a stream can have
    Accept,             \* island -> the streams it takes positions of
    MaxRedo,            \* --dispense-max-redo
    MaxBlock,           \* --dispense-max-block
    PickFresh(_, _, _)  \* (next, accepted streams, need) -> fresh positions per stream

Incarnations == 1 .. MaxIncarnation

Holders == Islands \X Incarnations

\* Dispenser::limit: exclusive end of the fresh positions of a stream.
Limit(s) ==
    IF Passes > 0 /\ Rows[s] * Passes < StreamPositions
    THEN Rows[s] * Passes
    ELSE StreamPositions

Position == {p \in Streams \X (0 .. StreamPositions - 1) : p[2] < Limit(p[1])}

Kinds == {"trained", "dropped", "requeue", "release"}

ASSUME DispenserAssumption ==
    /\ Islands \subseteq Nat
    /\ MaxIncarnation \in Nat \ {0}
    /\ Streams \subseteq Nat /\ IsFiniteSet(Streams)
    /\ Rows \in [Streams -> Nat \ {0}]
    /\ Passes \in Nat
    /\ StreamPositions \in Nat
    /\ Accept \in [Islands -> SUBSET Streams \ {{}}]
    /\ MaxRedo \in Nat
    /\ MaxBlock \in Nat \ {0}

\* What claim_new needs of pick_fresh, whatever the interleave: never past
\* the limit of a stream, and only accepted streams.
ASSUME PickFreshAssumption ==
    \A next \in [Streams -> 0 .. StreamPositions], accept \in SUBSET Streams, need \in 0 .. MaxBlock :
        (\A s \in Streams : next[s] <= Limit(s)) =>
            LET n == PickFresh(next, accept, need)
            IN  /\ n \in [Streams -> Nat]
                /\ \A s \in Streams : next[s] + n[s] <= Limit(s) /\ (n[s] > 0 => s \in accept)

NoAnswer == [seq |-> 0, ans |-> [type |-> "none"]]

----------------------------------------------------------------------------
(* The state: Dispenser and Members.                                       *)

Fresh ==
    [next      |-> [s \in Streams |-> 0],        \* StreamState.next
     queue     |-> [p \in {} |-> 0],             \* StreamState.queue: place of a position
     redo      |-> [p \in Position |-> 0],       \* Span.redo of the queued and held positions
     held      |-> {},                           \* Block.open: [pos, block, holder]
     nextBlock |-> 1,
     live      |-> {},                           \* keys of Dispenser.live
     last      |-> [h \in Holders |-> NoAnswer], \* Live.last
     members   |-> {},                           \* Members.last_seen (and current)
     retired   |-> {},                           \* Members.retired: [holder, why]
     settled   |-> 0,                            \* totals.trained + dropped + exhausted
     trained   |-> [p \in Position |-> 0]]       \* totals.trained, by position

IsRetired(d, h) == \E r \in d.retired : r.holder = h

\* fenced_text of a retired holder; "no lease" is the other refusal of require_live.
Fenced(d, h) ==
    [type |-> "fenced",
     why  |-> IF IsRetired(d, h)
              THEN (CHOOSE r \in d.retired : r.holder = h).why
              ELSE "no lease"]

\* Members::retire, for each of a set of holders; the first reason is kept.
Retire(d, H, why) ==
    [d EXCEPT !.members = @ \ H,
              !.retired = @ \cup {[holder |-> h, why |-> why] : h \in {g \in H : ~IsRetired(d, g)}}]

\* The order in which spans go back to a queue: by position, or holder by
\* holder, the last one ending up in front.
GoesBefore(x, y, byHolder) ==
    IF byHolder /\ x.holder[1] # y.holder[1]
    THEN x.holder[1] > y.holder[1]
    ELSE x.pos[2] <= y.pos[2]

\* Dispenser::push_front of the held entries X.
PushFront(queue, X, byHolder) ==
    LET back   == {x.pos : x \in X}
        Of(s)  == {x \in X : x.pos[1] = s}
    IN  [p \in DOMAIN queue \cup back |->
            IF p \in back
            THEN Cardinality({x \in Of(p[1]) : \E y \in X : y.pos = p /\ GoesBefore(x, y, byHolder)})
            ELSE queue[p] + Cardinality(Of(p[1]))]

\* Mutant: the blocks of the holders stay open.
ReclaimKeepingBlocks(d, H, why) ==
    LET mine == {x \in d.held : x.holder \in H}
    IN  [Retire(d, H, why) EXCEPT
            !.live  = @ \ H,
            !.last  = [h \in Holders |-> IF h \in H THEN NoAnswer ELSE @[h]],
            !.queue = PushFront(@, mine, TRUE)]

\* Dispenser::reclaim of a set of holders, in the order of the holders.
Reclaim(d, H, why) ==
    LET mine == {x \in d.held : x.holder \in H}
    IN  [Retire(d, H, why) EXCEPT
            !.live  = @ \ H,
            !.last  = [h \in Holders |-> IF h \in H THEN NoAnswer ELSE @[h]],
            !.held  = @ \ mine,
            !.queue = PushFront(@, mine, TRUE)]

\* Dispenser::expire when the leases of the members in `gone` have run out:
\* they are retired, then every holder the table retired (on any channel)
\* loses its rows.
Expire(d, gone) ==
    LET e == Retire(d, gone, "expired")
    IN  Reclaim(e, {h \in e.live : IsRetired(e, h)}, "expired")

\* Mutant: an admitted holder gets no lease.
JoinWithoutLease(d, h) ==
    IF h \in d.members
    THEN d
    ELSE Retire(d, {m \in d.members : m[1] = h[1]}, "superseded")

\* Members::join: a new incarnation retires the current one of its id.
Join(d, h) ==
    IF h \in d.members
    THEN d
    ELSE [Retire(d, {m \in d.members : m[1] = h[1]}, "superseded") EXCEPT !.members = @ \cup {h}]

----------------------------------------------------------------------------
(* The requests: each is [d |-> the next state, ans |-> the answer].       *)

Refuse(d) == [d |-> d, ans |-> [type |-> "refused"]]

\* Dispenser::open_with
Open(d, h) ==
    IF IsRetired(d, h)
    THEN [d |-> d, ans |-> Fenced(d, h)]
    ELSE IF h \in d.live
    THEN [d |-> d, ans |-> [type |-> "welcome"]]
    ELSE LET joined == Join(d, h)
             older  == {g \in d.live : g[1] = h[1]}
         IN  [d   |-> [Reclaim(joined, older, "superseded") EXCEPT
                          !.live = @ \cup {h},
                          !.last[h] = NoAnswer],
              ans |-> [type |-> "welcome"]]

\* Dispenser::require_live (the renewed lease is not part of the state).
RequireLive(d, h) == h \in d.live /\ h \in d.members

\* Dispenser::remember: the answer, kept for a resent request.
Remember(r, h, seq) ==
    [r EXCEPT !.d.last[h] = [seq |-> seq, ans |-> r.ans]]

\* Mutant: the stored answer is not given again.
NumberedNoReplay(d, h, seq, answers, New) ==
    IF ~RequireLive(d, h)
    THEN [d |-> d, ans |-> Fenced(d, h)]
    ELSE IF d.last[h].seq >= seq \/ New.ans.type = "refused"
    THEN Refuse(d)
    ELSE Remember(New, h, seq)

\* Dispenser::claim and Dispenser::report up to their new part: a fenced
\* holder, the stored answer for the latest request, a refusal of an older
\* one.  `answers` are the answers such a request can have.
Numbered(d, h, seq, answers, New) ==
    LET last == d.last[h]
    IN  IF ~RequireLive(d, h)
        THEN [d |-> d, ans |-> Fenced(d, h)]
        ELSE IF last.seq = seq /\ last.ans.type \in answers
        THEN [d |-> d, ans |-> last.ans]
        ELSE IF last.seq >= seq \/ New.ans.type = "refused"
        THEN Refuse(d)
        ELSE Remember(New, h, seq)

Exhausted(d, s) == d.next[s] >= Limit(s)

\* The queued positions a claim takes: the streams in order, each from the
\* front of its queue, until `wanted` are taken.
FromQueues(d, accept, wanted) ==
    {p \in DOMAIN d.queue :
        /\ p[1] \in accept
        /\ Cardinality({o \in DOMAIN d.queue : o[1] \in accept /\ o[1] < p[1]}) + d.queue[p] <= wanted}

\* Mutant: rows other islands hold are forgotten.
EndedIgnoringHeld(d, accept) == \A s \in accept : Exhausted(d, s)

\* Nothing of these streams is left to give, and nothing can come back.
Ended(d, accept) ==
    /\ \A s \in accept : Exhausted(d, s)
    /\ \A x \in d.held : x.pos[1] \notin accept

\* Dispenser::claim_new
ClaimNew(d, h, wanted) ==
    LET accept == Accept[h[1]]
        old    == FromQueues(d, accept, wanted)
        n      == PickFresh(d.next, accept, wanted - Cardinality(old))
        given  == old \cup {p \in Position : d.next[p[1]] <= p[2] /\ p[2] < d.next[p[1]] + n[p[1]]}
    IN  IF wanted = 0 \/ wanted > MaxBlock
        THEN Refuse(d)
        ELSE IF given = {}
        THEN [d |-> d, ans |-> [type |-> IF Ended(d, accept) THEN "end" ELSE "wait"]]
        ELSE [d   |-> [d EXCEPT
                          !.next = [s \in Streams |-> @[s] + n[s]],
                          !.queue = [p \in DOMAIN @ \ old |->
                                        @[p] - Cardinality({o \in old : o[1] = p[1]})],
                          !.nextBlock = @ + 1,
                          !.held = @ \cup {[pos |-> p, block |-> d.nextBlock, holder |-> h] : p \in given}],
              ans |-> [type |-> "grant", block |-> d.nextBlock, given |-> given]]

Claim(d, h, seq, wanted) ==
    Numbered(d, h, seq, {"grant", "wait", "end"}, ClaimNew(d, h, wanted))

\* A requeued position is given again, up to --dispense-max-redo times.
MayRedo(d, p) == d.redo[p] < MaxRedo

\* Dispenser::report_new.  The body is a bag of entries [block, kind, pos];
\* every entry is checked before anything changes (take_range: an
\* unreported position of the block, once).
ReportNew(d, h, body) ==
    LET entries  == DOMAIN body
        Entry(e) == [pos |-> e.pos, block |-> e.block, holder |-> h]
        valid    == /\ \A e \in entries : body[e] = 1 /\ Entry(e) \in d.held
                    /\ \A e, f \in entries : Entry(e) = Entry(f) => e = f
        again    == {e \in entries : e.kind = "requeue" /\ MayRedo(d, e.pos)}
        back     == again \cup {e \in entries : e.kind = "release"}
        learned  == {e.pos : e \in {f \in entries : f.kind = "trained"}}
    IN  IF ~valid
        THEN Refuse(d)
        ELSE [d   |-> [d EXCEPT
                          !.held = @ \ {Entry(e) : e \in entries},
                          !.queue = PushFront(@, {Entry(e) : e \in back}, FALSE),
                          !.redo = [p \in Position |-> IF \E e \in again : e.pos = p THEN @[p] + 1 ELSE @[p]],
                          !.settled = @ + Cardinality(entries \ back),
                          !.trained = [p \in Position |-> IF p \in learned THEN @[p] + 1 ELSE @[p]]],
              ans |-> [type |-> "ack"]]

Report(d, h, seq, body) ==
    Numbered(d, h, seq, {"ack"}, ReportNew(d, h, body))

\* Dispenser::heartbeat
Heartbeat(d, h) ==
    [d |-> d, ans |-> IF RequireLive(d, h) THEN [type |-> "ack"] ELSE Fenced(d, h)]

----------------------------------------------------------------------------
(* The persisted record.                                                   *)

\* Dispenser::encode_persisted: the state as if every holder were reclaimed.
Encode(d) ==
    [next      |-> d.next,
     queue     |-> PushFront(d.queue, d.held, FALSE),
     redo      |-> d.redo,
     nextBlock |-> d.nextBlock,
     settled   |-> d.settled,
     fence     |-> {r.holder : r \in d.retired} \cup d.members]

\* Dispenser::restore_persisted into a fresh dispenser.
Restore(record) ==
    Retire([Fresh EXCEPT !.next = record.next,
                         !.queue = record.queue,
                         !.redo = record.redo,
                         !.nextBlock = record.nextBlock,
                         !.settled = record.settled],
           record.fence, "restart")

=============================================================================
