----------------------- MODULE SampleRelay_invariant ------------------------
(***************************************************************************)
(* The way of a rollout group from a sampler to a training round, for any  *)
(* number of processes, groups, queue places and rounds and any faults:    *)
(* the inductive invariant, and the steps of the samplers, of the trainer, *)
(* of the pump that takes, and the restart of the head that keep it.       *)
(* SampleRelay_proofs has the other steps and the theorems.                *)
(***************************************************************************)
EXTENDS SampleRelay, TLAPS

(***************************************************************************)
(* Types.                                                                  *)
(***************************************************************************)

Items == [id : Nat \ {0}, group : Groups]

Puts == [kind : {"put"}, proc : Procs, seq : Nat \ {0}, group : Groups, live : BOOLEAN]
Takes == [kind : {"take"}, token : Nat, after : Nat, ack : Nat, max : Int, live : BOOLEAN]

Relays ==
  [epoch : Nat \ {0}, next : Nat \ {0}, items : SUBSET Items, last : [Procs -> Nat],
   consumer : Nat, tokens : Nat, current : Procs \cup {0}, retired : SUBSET Procs]

Processes ==
  [state : {"off", "idle", "put", "connect", "full", "over"}, n : 0 .. PerProc, seq : Nat,
   open : BOOLEAN, written : SUBSET Groups, stopping : BOOLEAN, gaveBack : BOOLEAN]

Pumps ==
  [at : {"idle", "take", "item", "index"}, open : BOOLEAN, epoch : Nat, token : Nat,
   after : Nat, acked : Nat, known : SUBSET Groups, hand : SUBSET Items]

Disks ==
  [index : Seq(Groups), torn : BOOLEAN, payloads : SUBSET Groups, cursor : Nat,
   tail : Nat \cup {-1}]

Feeds == [at : {"collect", "train", "record"}, read : Nat, kept : SUBSET Groups]

Pasts ==
  [trained : [Groups -> Nat], dropped : SUBSET Groups, lost : SUBSET Groups,
   skipped : SUBSET Groups, window : BOOLEAN]

TypeInv ==
  /\ relay \in Relays
  /\ sampler \in [Procs -> Processes]
  /\ wire \subseteq Puts \cup Takes
  /\ pump \in Pumps
  /\ disk \in Disks
  /\ feed \in Feeds
  /\ past \in Pasts

(***************************************************************************)
(* The numbers of a process p, with state s, of which the relay knows the  *)
(* number `last` and F are the frames on the wire.  A number is used once, *)
(* for one group, unless the process gave it back; a frame that comes late *)
(* has an older number for an older group, or the number p is at.          *)
(***************************************************************************)

Waits(s) == s.state \in {"put", "connect", "full"}

\* The number of the PUT process s waits with.
Number(s) == IF s.state = "full" THEN s.seq + 1 ELSE s.seq

\* The greatest number process s may have sent.
Top(s) ==
  IF s.state = "full" \/ (s.gaveBack /\ s.state \notin {"put", "connect"}) THEN s.seq + 1 ELSE s.seq

\* A frame of the process agrees with where the process is.
Fits(p, s, f) ==
  /\ f.seq <= Top(s) /\ f.group[1] = p /\ f.group[2] <= s.n
  /\ Waits(s) /\ f.seq < Number(s) => f.group[2] < s.n
  /\ Waits(s) /\ f.seq = Number(s) /\ ~s.gaveBack => f.group[2] = s.n
  /\ f.live => s.state = "put" /\ f.seq = s.seq /\ f.group[2] = s.n

Numbered(p, s, last, F) ==
  /\ Waits(s) => s.n >= 1
  /\ s.state \in {"put", "connect"} => s.seq >= 1
  /\ last <= Top(s)
  /\ \A f \in F : Fits(p, s, f)
  /\ \A f, h \in F : f.seq < h.seq => f.group[2] < h.group[2]

FramesOf(p) == {f \in wire : f.kind = "put" /\ f.proc = p}

NumberInv == \A p \in Procs : Numbered(p, sampler[p], relay.last[p], FramesOf(p))

(***************************************************************************)
(* The queue, the batch in the pump's hand, and the index with the groups  *)
(* G.  What is done is in the index, rejected, or in a batch whose writing *)
(* failed.                                                                 *)
(***************************************************************************)

Done == Indexed \cup Unfit \cup past.skipped

\* Items of one relay have different numbers, and the groups of a process
\* come in its order.
Ordered(X) ==
  \A x, y \in X :
    /\ x.id = y.id => x = y
    /\ x.id < y.id /\ x.group[1] = y.group[1] => x.group[2] < y.group[2]

\* Group g may be indexed next: no group of its process behind it is.
Above(g, G) == \A h \in G : h[1] = g[1] => h[2] < g[2]

\* Nothing of the queue has to be indexed before group g, but what is in hand.
Turn(g, items, hand, done) ==
  \A y \in items : y.group[1] = g[1] /\ y.group[2] < g[2] =>
    y.group \in done \/ \E z \in hand : z.group = y.group

Queue(items, next, hand, G, done) ==
  /\ IsFiniteSet(items)
  /\ \A x \in items : x.id < next
  /\ Ordered(items) /\ Ordered(hand)
  /\ \A x \in items \cup hand : x.group \notin done => Above(x.group, G)
  /\ \A x \in hand : Turn(x.group, items, hand, done)

QueueInv == Queue(relay.items, relay.next, pump.hand, Indexed, Done)

\* Nothing downstream of process p is behind a group k it sends.
Behind(p, k, items, hand, G) ==
  /\ \A x \in items : x.group[1] = p => x.group[2] < k
  /\ \A x \in hand : x.group[1] = p => x.group[2] <= k
  /\ \A g \in G : g[1] = p => g[2] <= k

Sourced(p, s, last, F, items, hand, G) ==
  /\ Behind(p, s.n + 1, items, hand, G)
  /\ \A x \in hand : x.group[1] = p => x.group[2] <= s.n
  /\ \A g \in G : g[1] = p => g[2] <= s.n
  /\ \A f \in F : last < f.seq => Behind(p, f.group[2], items, hand, G)
  /\ Waits(s) /\ last < Number(s) => Behind(p, s.n, items, hand, G)

SourceInv ==
  \A p \in Procs :
    Sourced(p, sampler[p], relay.last[p], FramesOf(p), relay.items, pump.hand, Indexed)

\* The groups in K are kept.  What process p counts as written is kept, and so
\* is the group it waits with once its number is taken.
Written(p, s, last, K) ==
  /\ \A g \in s.written : g[1] = p /\ (g \in K \/ s.gaveBack)
  /\ Waits(s) /\ Number(s) <= last /\ ~s.gaveBack => <<p, s.n>> \in K

\* Groups that are in the channel or the index, or have an excuse.
Safe == Queued \cup Done \cup past.lost

WrittenInv ==
  \A p \in Procs : Written(p, sampler[p], relay.last[p], Safe)

(***************************************************************************)
(* The pump q, and its frames W, on a relay of the given epoch.            *)
(***************************************************************************)

Pumped(q, epoch, next, items, G, done) ==
  /\ q.known = G
  /\ q.at \in {"item", "index"} <=> q.hand # {}
  /\ q.at = "index" => FirstOf(q.hand).group \notin G \cup Unfit
  /\ q.acked <= q.after
  /\ \A x \in q.hand : q.acked < x.id /\ x.id <= q.after
  /\ q.epoch <= epoch
  /\ q.open => q.epoch = epoch
  /\ q.epoch = epoch =>
       /\ q.after < next
       /\ \A y \in items : /\ y.id <= q.after => y.group \in done \/ y \in q.hand
                           /\ y.id <= q.acked => y.group \in done

PumpInv == Pumped(pump, relay.epoch, relay.next, relay.items, Indexed, Done)

Asked(W, q, epoch, next, items, done) ==
  /\ \A f \in W :
       /\ f.ack < next /\ f.after < next
       /\ \A y \in items : y.id <= f.ack => y.group \in done
       /\ f.live => /\ q.at = "take" /\ q.epoch = epoch
                    /\ f.after = q.after /\ f.ack = q.acked
  /\ \A f, h \in W : f.live /\ h.live => f = h

TakeFrames == {f \in wire : f.kind = "take"}

TakeInv == Asked(TakeFrames, pump, relay.epoch, relay.next, relay.items, Done)

(***************************************************************************)
(* The feed.                                                               *)
(***************************************************************************)

Distinct(index) == \A i, j \in 1 .. Len(index) : index[i] = index[j] => i = j

InOrder(index, skipped) ==
  \A i, j \in 1 .. Len(index) :
    i < j /\ index[i][1] = index[j][1] /\ index[j] \notin skipped => index[i][2] < index[j][2]

OrderInv == Distinct(disk.index) /\ InOrder(disk.index, past.skipped)

\* The groups that were trained or dropped.
Settled == {g \in Groups : past.trained[g] > 0} \cup past.dropped

\* A feed that read `read` entries of the index and kept the groups `kept` for
\* its round, with the record `cursor` and the unfinished record `tail` on disk.
Fed(index, cursor, tail, at, read, kept, settled) ==
  /\ cursor <= read /\ tail <= read /\ read <= Len(index)
  /\ tail > 0 => cursor <= tail
  /\ \A i \in 1 .. read : index[i] \in settled \/ index[i] \in kept
  /\ \A i \in 1 .. cursor : index[i] \in settled
  /\ \A i \in 1 .. tail : index[i] \in settled
  /\ at = "record" => \A i \in 1 .. read : index[i] \in settled
  /\ \A g \in kept : \E i \in 1 .. read : index[i] = g

FeedInv == Fed(disk.index, disk.cursor, disk.tail, feed.at, feed.read, feed.kept, Settled)

\* A group is trained once, and none behind the record until a round trained.
Single(index, cursor, at, read, kept, trained) ==
  /\ \A g \in Groups : trained[g] <= 1 /\ (trained[g] = 1 => \E i \in 1 .. Len(index) : index[i] = g)
  /\ \A i \in 1 .. Len(index) : i > read => trained[index[i]] = 0
  /\ at # "record" => /\ \A i \in 1 .. Len(index) : i > cursor => trained[index[i]] = 0
                      /\ \A g \in kept : trained[g] = 0

OnceInv ==
  ~past.window =>
    /\ disk.tail = -1
    /\ Single(disk.index, disk.cursor, feed.at, feed.read, feed.kept, past.trained)

(***************************************************************************)
(* The inductive invariant: the order and safety of the delivery, and what *)
(* the feed made of it.                                                    *)
(***************************************************************************)

DeliveryInv ==
  NumberInv /\ SourceInv /\ WrittenInv /\ QueueInv /\ PumpInv /\ TakeInv

TrainingInv == OrderInv /\ FeedInv /\ OnceInv

Inv == TypeInv /\ DeliveryInv /\ TrainingInv

(***************************************************************************)
(* Parts of the invariant that a step leaves alone.                        *)
(***************************************************************************)

\* Numbers of items and groups, for arithmetic.
LEMMA ItemIs ==
  ASSUME NEW x \in Items
  PROVE  /\ x.id \in Nat /\ x.id > 0 /\ x.group \in Groups
         /\ x.group[1] \in Procs /\ x.group[2] \in Nat /\ x.group = <<x.group[1], x.group[2]>>
BY RelayAssumption DEF Items, Groups

\* The groups of the index are its entries.
LEMMA IndexedIs ==
  ASSUME NEW index \in Seq(Groups)
  PROVE  /\ Range(index) = {index[i] : i \in 1 .. Len(index)}
         /\ Range(index) \subseteq Groups
         /\ Len(index) \in Nat
BY DEF Range

\* The two kinds of frames.
LEMMA KindsAre ==
  ASSUME NEW W \in SUBSET (Puts \cup Takes)
  PROVE  /\ \A p \in Procs : {f \in W : f.kind = "put" /\ f.proc = p} \in SUBSET Puts
         /\ {f \in W : f.kind = "take"} \in SUBSET Takes
<1>1. (\A f \in Puts : f.kind = "put") /\ (\A f \in Takes : f.kind = "take")
  BY Zenon DEF Puts, Takes
<1>. QED
  BY <1>1, Zenon

\* The frames on the wire, by their kind.
LEMMA FramesAre ==
  ASSUME TypeInv
  PROVE  (\A p \in Procs : FramesOf(p) \in SUBSET Puts) /\ TakeFrames \in SUBSET Takes
BY KindsAre, Zenon DEF TypeInv, FramesOf, TakeFrames

\* Types of what the invariant is about.
LEMMA PartsAre ==
  ASSUME TypeInv
  PROVE  /\ relay.items \in SUBSET Items /\ relay.next \in Nat \ {0} /\ relay.epoch \in Nat \ {0}
         /\ pump.hand \in SUBSET Items /\ Indexed \in SUBSET Groups /\ Indexed \subseteq Done
         /\ \A p \in Procs : relay.last[p] \in Nat /\ sampler[p] \in Processes
<1>1. disk.index \in Seq(Groups)
  BY Zenon DEF TypeInv, Disks
<1>2. Indexed \in SUBSET Groups
  BY <1>1, IndexedIs, Zenon DEF Indexed
<1>. QED
  BY <1>2, Zenon DEF TypeInv, Relays, Pumps, Done

\* Index, records and feed are left alone.
LEMMA TrainingSame ==
  ASSUME TrainingInv, feed' = feed, disk'.index = disk.index, disk'.cursor = disk.cursor,
         disk'.tail = disk.tail, past'.trained = past.trained, past'.dropped = past.dropped,
         past'.window = past.window, past.skipped \subseteq past'.skipped
  PROVE  TrainingInv'
<1>1. OrderInv'
  BY Zenon DEF TrainingInv, OrderInv, InOrder
<1>2. FeedInv'
  <2>1. Settled' = Settled
    BY Zenon DEF Settled
  <2>. QED
    BY <2>1, Zenon DEF TrainingInv, FeedInv
<1>3. OnceInv'
  BY Zenon DEF TrainingInv, OnceInv
<1>. QED
  BY <1>1, <1>2, <1>3, Zenon DEF TrainingInv

(***************************************************************************)
(* The processes of the sampler and their frames.                          *)
(***************************************************************************)

\* Frames E are frames of F, of which some are gone or nobody waits for them.
Thins(E, F) ==
  \A e \in E : \E f \in F : e.seq = f.seq /\ e.group = f.group /\ (e.live => f.live)

\* Process s goes on as t, with its number, or gives it up.
Moves(s, t) ==
  /\ t.n = s.n /\ (s.gaveBack => t.gaveBack)
  /\ Waits(t) => Waits(s) /\ Number(t) = Number(s) /\ (t.gaveBack => s.gaveBack)
  /\ t.state = "put" => s.state = "put" /\ t.seq = s.seq
  /\ t.state \in {"put", "connect"} => t.seq >= 1
  /\ Top(s) <= Top(t)

\* Process s sends a PUT, as t: of its next group, or of the one it waits with.
Asks(s, t) ==
  /\ t.state \in {"put", "connect"} /\ t.gaveBack = s.gaveBack /\ t.written = s.written
  /\ \/ s.state = "idle" /\ t.n = s.n + 1 /\ t.seq = s.seq + 1
     \/ s.state = "full" /\ t.n = s.n /\ t.seq = s.seq + 1
     \/ s.state = "connect" /\ t.n = s.n /\ t.seq = s.seq

\* A process that goes on keeps its frames in order.
LEMMA NumberMoves ==
  ASSUME NEW p \in Procs, NEW s \in Processes, NEW t \in Processes, NEW last \in Nat,
         NEW F \in SUBSET Puts, NEW E \in SUBSET Puts,
         Numbered(p, s, last, F), Moves(s, t), Thins(E, F),
         t.state # "put" => \A e \in E : ~e.live
  PROVE  Numbered(p, t, last, E)
<1>0. /\ s.n \in Nat /\ s.seq \in Nat /\ t.n \in Nat /\ t.seq \in Nat
      /\ Top(s) \in Nat /\ Top(t) \in Nat /\ Number(s) \in Nat /\ Number(t) \in Nat
  BY RelayAssumption DEF Processes, Top, Number
<1>1. \A f \in F \cup E : f.seq \in Nat /\ f.group[2] \in Nat /\ f.live \in BOOLEAN
  BY RelayAssumption DEF Puts, Groups
<1>2. (Waits(t) => t.n >= 1) /\ (t.state \in {"put", "connect"} => t.seq >= 1) /\ last <= Top(t)
  <2>1. last <= Top(s) /\ Top(s) <= Top(t)
    BY Zenon DEF Numbered, Moves
  <2>. QED
    BY <1>0, <2>1 DEF Numbered, Moves
<1>3. ASSUME NEW e \in E PROVE Fits(p, t, e)
  <2>1. PICK f \in F : e.seq = f.seq /\ e.group = f.group /\ (e.live => f.live)
    BY Zenon DEF Thins
  <2>2. Fits(p, s, f)
    BY Zenon DEF Numbered
  <2>. HIDE DEF Top, Number, Waits
  <2>3. e.seq <= Top(t) /\ e.group[1] = p /\ e.group[2] <= t.n
    BY <1>0, <1>1, <2>1, <2>2 DEF Fits, Moves
  <2>4. Waits(t) /\ e.seq < Number(t) => e.group[2] < t.n
    BY <1>0, <1>1, <2>1, <2>2, Zenon DEF Fits, Moves
  <2>5. Waits(t) /\ e.seq = Number(t) /\ ~t.gaveBack => e.group[2] = t.n
    BY <1>0, <1>1, <2>1, <2>2, Zenon DEF Fits, Moves
  <2>6. e.live => t.state = "put" /\ e.seq = t.seq /\ e.group[2] = t.n
    BY <1>1, <2>1, <2>2, Zenon DEF Fits, Moves
  <2>. QED
    BY <2>3, <2>4, <2>5, <2>6, Zenon DEF Fits
<1>4. \A e, h \in E : e.seq < h.seq => e.group[2] < h.group[2]
  BY DEF Numbered, Thins
<1>. QED
  BY <1>2, <1>3, <1>4, Zenon DEF Numbered

\* A process that goes on sends nothing.
LEMMA SourceMoves ==
  ASSUME NEW p \in Procs, NEW s \in Processes, NEW t \in Processes, NEW last \in Nat,
         NEW F, NEW E, NEW items, NEW hand, NEW G,
         Sourced(p, s, last, F, items, hand, G), Moves(s, t), Thins(E, F)
  PROVE  Sourced(p, t, last, E, items, hand, G)
<1>1. \A e \in E : last < e.seq => Behind(p, e.group[2], items, hand, G)
  BY Zenon DEF Sourced, Thins
<1>2. Waits(t) /\ last < Number(t) => Behind(p, t.n, items, hand, G)
  BY Zenon DEF Sourced, Moves
<1>. QED
  BY <1>1, <1>2, Zenon DEF Sourced, Moves

\* A process that goes on counts no group as written.
LEMMA WrittenMoves ==
  ASSUME NEW p, NEW s, NEW t, NEW last, NEW K,
         Written(p, s, last, K), Moves(s, t), t.written = s.written
  PROVE  Written(p, t, last, K)
BY Zenon DEF Written, Moves

\* A process and its frames change, nothing else does.
LEMMA ProcessStep ==
  ASSUME Inv, TypeInv', NEW p \in Procs, UNCHANGED <<pump, disk, feed, past>>,
         relay'.items = relay.items, relay'.next = relay.next,
         relay'.last = relay.last, relay'.epoch = relay.epoch,
         \A q \in Procs : q # p => sampler'[q] = sampler[q] /\ FramesOf(q)' = FramesOf(q),
         TakeFrames' = TakeFrames,
         Numbered(p, sampler'[p], relay.last[p], FramesOf(p)'),
         Sourced(p, sampler'[p], relay.last[p], FramesOf(p)', relay.items, pump.hand, Indexed),
         Written(p, sampler'[p], relay.last[p], Safe)
  PROVE  Inv'
<1>1. Indexed' = Indexed /\ Done' = Done /\ Safe' = Safe
  BY Zenon DEF Indexed, Done, Safe, Queued
<1>2. NumberInv'
  <2>1. \A q \in Procs : Numbered(q, sampler[q], relay.last[q], FramesOf(q))
    BY Zenon DEF Inv, DeliveryInv, NumberInv
  <2>2. \A q \in Procs : Numbered(q, sampler'[q], relay'.last[q], FramesOf(q)')
    BY <2>1, Zenon
  <2>. QED
    BY <2>2, Zenon DEF NumberInv
<1>3. SourceInv'
  <2>1. \A q \in Procs : Sourced(q, sampler[q], relay.last[q], FramesOf(q), relay.items, pump.hand, Indexed)
    BY Zenon DEF Inv, DeliveryInv, SourceInv
  <2>2. \A q \in Procs :
          Sourced(q, sampler'[q], relay'.last[q], FramesOf(q)', relay'.items, pump'.hand, Indexed')
    BY <1>1, <2>1, Zenon
  <2>. QED
    BY <2>2, Zenon DEF SourceInv
<1>4. WrittenInv'
  <2>1. \A q \in Procs : Written(q, sampler[q], relay.last[q], Safe)
    BY Zenon DEF Inv, DeliveryInv, WrittenInv
  <2>2. \A q \in Procs : Written(q, sampler'[q], relay'.last[q], Safe')
    BY <1>1, <2>1, Zenon
  <2>. QED
    BY <2>2, Zenon DEF WrittenInv
<1>5. QueueInv' /\ PumpInv' /\ TakeInv'
  BY <1>1, Zenon DEF Inv, DeliveryInv, QueueInv, PumpInv, TakeInv
<1>6. TrainingInv'
  BY TrainingSame, Zenon DEF Inv
<1>. QED
  BY <1>2, <1>3, <1>4, <1>5, <1>6, Zenon DEF Inv, DeliveryInv

\* A process whose connection is gone keeps its number, or gives its group up.
LEMMA UnlinkedIs ==
  ASSUME NEW s \in Processes, s.state \in {"put", "connect"} => s.seq >= 1
  PROVE  /\ Unlinked(s) \in Processes /\ Moves(s, Unlinked(s)) /\ Unlinked(s).state # "put"
         /\ Unlinked(s).written = s.written
<1>. DEFINE st == CASE s.state # "put"               -> s.state
                    [] s.state = "put" /\ s.stopping -> "idle"
                    [] OTHER                         -> "connect"
<1>1. /\ st \in {"off", "idle", "connect", "full", "over"}
      /\ s.state # "put" => st = s.state
      /\ s.state = "put" => st \in {"idle", "connect"}
  BY Zenon DEF Processes
<1>2. Unlinked(s) = [s EXCEPT !.open = FALSE, !.state = st]
  BY Zenon DEF Unlinked
<1>. HIDE DEF st
<1>3. Unlinked(s) \in Processes
  BY <1>1, <1>2, Zenon DEF Processes
<1>4. /\ Unlinked(s).state = st /\ Unlinked(s).n = s.n /\ Unlinked(s).seq = s.seq
      /\ Unlinked(s).written = s.written /\ Unlinked(s).gaveBack = s.gaveBack
  BY <1>2, Zenon DEF Processes
<1>. DEFINE t == Unlinked(s)
<1>. HIDE DEF t
<1>5. s.seq \in Nat /\ t.state = st /\ t.n = s.n /\ t.seq = s.seq /\ t.gaveBack = s.gaveBack
  BY <1>4, Zenon DEF t, Processes
<1>6. Moves(s, t)
  <2>1. Waits(t) => Waits(s) /\ Number(t) = Number(s)
    BY <1>1, <1>5, Zenon DEF Waits, Number
  <2>2. Top(s) <= Top(t)
    BY <1>1, <1>5 DEF Top
  <2>. QED
    BY <1>1, <1>5, <2>1, <2>2, Zenon DEF Moves
<1>. QED
  BY <1>1, <1>3, <1>4, <1>6, Zenon DEF t

\* A frame nobody waits for any more.
LEMMA QuietIs ==
  /\ \A f \in Puts : /\ [f EXCEPT !.live = FALSE] \in Puts /\ ~[f EXCEPT !.live = FALSE].live
                     /\ [f EXCEPT !.live = FALSE].proc = f.proc /\ [f EXCEPT !.live = FALSE].seq = f.seq
                     /\ [f EXCEPT !.live = FALSE].group = f.group /\ [f EXCEPT !.live = FALSE].kind = "put"
  /\ \A f \in Takes : /\ [f EXCEPT !.live = FALSE] \in Takes /\ ~[f EXCEPT !.live = FALSE].live
                      /\ [f EXCEPT !.live = FALSE].ack = f.ack /\ [f EXCEPT !.live = FALSE].after = f.after
                      /\ [f EXCEPT !.live = FALSE].kind = "take"
<1>1. /\ \A f \in Puts : [f EXCEPT !.live = FALSE] \in Puts
      /\ \A f \in Takes : [f EXCEPT !.live = FALSE] \in Takes
  BY Zenon DEF Puts, Takes
<1>2. \A f \in Puts : /\ ~[f EXCEPT !.live = FALSE].live
                     /\ [f EXCEPT !.live = FALSE].proc = f.proc /\ [f EXCEPT !.live = FALSE].seq = f.seq
                     /\ [f EXCEPT !.live = FALSE].group = f.group /\ [f EXCEPT !.live = FALSE].kind = "put"
  BY Zenon DEF Puts
<1>3. \A f \in Takes : /\ ~[f EXCEPT !.live = FALSE].live
                      /\ [f EXCEPT !.live = FALSE].ack = f.ack /\ [f EXCEPT !.live = FALSE].after = f.after
                      /\ [f EXCEPT !.live = FALSE].kind = "take"
  BY Zenon DEF Takes
<1>. QED
  BY <1>1, <1>2, <1>3, Zenon

\* RelaySampleBuffer.append, RelayProducer and the processes that come and go.
LEMMA SamplerInv ==
  Inv /\ (Producing \/ \E p \in Procs : Break(p) \/ Stop(p) \/ Relaunch(p)) => Inv'
\* A PUT has the process's greatest number and its last group.
<1>NumberAsks.
  ASSUME NEW p \in Procs, NEW s \in Processes, NEW t \in Processes, NEW last \in Nat,
         NEW F \in SUBSET Puts, Numbered(p, s, last, F), Asks(s, t)
  PROVE  /\ Numbered(p, t, last, F)
         /\ \A f : /\ f.seq = t.seq /\ f.group = <<p, t.n>> /\ t.state = "put"
                   => Numbered(p, t, last, F \cup {f})
  <2>. USE <1>NumberAsks
  <2>0. s.n \in Nat /\ s.seq \in Nat /\ t.n \in Nat /\ t.seq \in Nat
    BY RelayAssumption DEF Processes
  <2>1. \A f \in F : f.seq \in Nat /\ f.group[2] \in Nat /\ f.live \in BOOLEAN
    BY RelayAssumption DEF Puts, Groups
  <2>2. Waits(t) /\ t.n >= 1 /\ t.seq >= 1 /\ last <= Top(t) /\ Top(t) = t.seq /\ Number(t) = t.seq
    BY <2>0 DEF Numbered, Asks, Waits, Top, Number
  <2>3. ASSUME NEW f \in F PROVE Fits(p, t, f)
    <3>1. Fits(p, s, f)
      BY Zenon DEF Numbered
    <3>2. ~f.live /\ f.group[1] = p /\ f.seq <= t.seq /\ f.group[2] <= t.n
      BY <2>0, <2>1, <3>1 DEF Fits, Asks, Waits, Top, Number
    <3>3. f.seq < t.seq => f.group[2] < t.n
      BY <2>0, <2>1, <3>1 DEF Fits, Asks, Waits, Top, Number
    <3>4. f.seq = t.seq /\ ~t.gaveBack => f.group[2] = t.n
      BY <2>0, <2>1, <3>1 DEF Fits, Asks, Waits, Top, Number
    <3>. QED
      BY <2>2, <3>2, <3>3, <3>4, Zenon DEF Fits
  <2>4. \A f, h \in F : f.seq < h.seq => f.group[2] < h.group[2]
    BY Zenon DEF Numbered
  <2>5. Numbered(p, t, last, F)
    BY <2>2, <2>3, <2>4, Zenon DEF Numbered
  <2>6. ASSUME NEW f, f.seq = t.seq, f.group = <<p, t.n>>, t.state = "put"
        PROVE  Numbered(p, t, last, F \cup {f})
    <3>1. f.group[1] = p /\ f.group[2] = t.n
      BY <2>6
    <3>2. Fits(p, t, f)
      BY <2>0, <2>2, <2>6, <3>1 DEF Fits
    <3>3. \A h \in F : h.seq <= t.seq /\ (h.seq < t.seq => h.group[2] < t.n)
      BY <2>2, <2>3, Zenon DEF Fits
    <3>4. \A g, h \in F \cup {f} : g.seq < h.seq => g.group[2] < h.group[2]
      BY <2>0, <2>1, <2>4, <2>6, <3>1, <3>3
    <3>. QED
      BY <2>2, <2>3, <3>2, <3>4, Zenon DEF Numbered
  <2>. QED
    BY <2>5, <2>6, Zenon
\* A PUT is of a group behind which there is nothing, or the one that waits.
<1>SourceAsks.
  ASSUME NEW p \in Procs, NEW s \in Processes, NEW t \in Processes, NEW last \in Nat,
         NEW F, NEW items \in SUBSET Items, NEW hand \in SUBSET Items, NEW G \in SUBSET Groups,
         Sourced(p, s, last, F, items, hand, G), Asks(s, t)
  PROVE  /\ Sourced(p, t, last, F, items, hand, G)
         /\ \A f : f.seq = t.seq /\ f.group = <<p, t.n>>
                   => Sourced(p, t, last, F \cup {f}, items, hand, G)
  <2>. USE <1>SourceAsks
  <2>0. s.n \in Nat /\ t.n \in Nat /\ s.seq \in Nat /\ t.seq \in Nat
    BY RelayAssumption DEF Processes
  <2>1. /\ \A x \in items \cup hand : x.group[2] \in Nat
        /\ \A g \in G : g[2] \in Nat
    BY RelayAssumption DEF Items, Groups
  <2>2. Waits(t) /\ Number(t) = t.seq /\ (t.n = s.n \/ t.n = s.n + 1)
    BY Zenon DEF Asks, Waits, Number
  <2>3. /\ Behind(p, t.n + 1, items, hand, G)
        /\ \A x \in hand : x.group[1] = p => x.group[2] <= t.n
        /\ \A g \in G : g[1] = p => g[2] <= t.n
    BY <2>0, <2>1, <2>2 DEF Sourced, Behind
  <2>4. last < t.seq => Behind(p, t.n, items, hand, G)
    <3>1. CASE s.state = "idle"
      BY <3>1, Zenon DEF Sourced, Asks
    <3>2. CASE s.state # "idle"
      <4>1. Waits(s) /\ Number(s) = t.seq /\ t.n = s.n
        BY <3>2, Zenon DEF Asks, Waits, Number
      <4>. QED
        BY <4>1, Zenon DEF Sourced
    <3>. QED
      BY <3>1, <3>2, Zenon
  <2>5. Sourced(p, t, last, F, items, hand, G)
    BY <2>2, <2>3, <2>4, Zenon DEF Sourced
  <2>6. ASSUME NEW f, f.seq = t.seq, f.group = <<p, t.n>>
        PROVE  Sourced(p, t, last, F \cup {f}, items, hand, G)
    <3>1. f.group[2] = t.n
      BY <2>6
    <3>. QED
      BY <2>4, <2>5, <2>6, <3>1, Zenon DEF Sourced
  <2>. QED
    BY <2>5, <2>6, Zenon
\* The number of a PUT is taken only if the process waits with it already.
<1>WrittenAsks.
  ASSUME NEW p \in Procs, NEW s \in Processes, NEW t \in Processes, NEW last \in Nat,
         NEW F, NEW K, Numbered(p, s, last, F), Written(p, s, last, K), Asks(s, t)
  PROVE  Written(p, t, last, K)
  <2>. USE <1>WrittenAsks
  <2>0. s.n \in Nat /\ t.n \in Nat /\ s.seq \in Nat /\ t.seq \in Nat
    BY RelayAssumption DEF Processes
  <2>1. t.written = s.written /\ t.gaveBack = s.gaveBack /\ Waits(t) /\ Number(t) = t.seq
    BY Zenon DEF Asks, Waits, Number
  <2>2. ASSUME t.seq <= last, ~t.gaveBack PROVE <<p, t.n>> \in K
    <3>1. CASE s.state = "idle"
      BY <2>0, <2>1, <2>2, <3>1 DEF Asks, Numbered, Top
    <3>2. CASE s.state # "idle"
      <4>1. Waits(s) /\ Number(s) = t.seq /\ t.n = s.n
        BY <3>2, Zenon DEF Asks, Waits, Number
      <4>. QED
        BY <2>1, <2>2, <4>1, Zenon DEF Written
    <3>. QED
      BY <3>1, <3>2, Zenon
  <2>. QED
    BY <2>1, <2>2, Zenon DEF Written
\* The same after a step.
<1>FramesAreNext.
  ASSUME TypeInv'
  PROVE  (\A p \in Procs : FramesOf(p)' \in SUBSET Puts) /\ TakeFrames' \in SUBSET Takes
  BY <1>FramesAreNext, KindsAre, Zenon DEF TypeInv, FramesOf, TakeFrames
\* A process goes on.
<1>ProcessMoves.
  ASSUME Inv, TypeInv', NEW p \in Procs, UNCHANGED <<pump, disk, feed, past>>,
         relay'.items = relay.items, relay'.next = relay.next,
         relay'.last = relay.last, relay'.epoch = relay.epoch,
         \A q \in Procs : q # p => sampler'[q] = sampler[q] /\ FramesOf(q)' = FramesOf(q),
         TakeFrames' = TakeFrames,
         Moves(sampler[p], sampler'[p]), sampler'[p].written = sampler[p].written,
         Thins(FramesOf(p)', FramesOf(p)),
         sampler'[p].state # "put" => \A e \in FramesOf(p)' : ~e.live
  PROVE  Inv'
  <2>. USE <1>ProcessMoves
  <2>1. /\ sampler[p] \in Processes /\ relay.last[p] \in Nat /\ FramesOf(p) \in SUBSET Puts
        /\ sampler'[p] \in Processes /\ FramesOf(p)' \in SUBSET Puts
    BY PartsAre, FramesAre, <1>FramesAreNext, Zenon DEF Inv, TypeInv
  <2>2. Numbered(p, sampler'[p], relay.last[p], FramesOf(p)')
    BY <2>1, NumberMoves, Zenon DEF Inv, DeliveryInv, NumberInv
  <2>3. Sourced(p, sampler'[p], relay.last[p], FramesOf(p)', relay.items, pump.hand, Indexed)
    BY <2>1, SourceMoves, Zenon DEF Inv, DeliveryInv, SourceInv
  <2>4. Written(p, sampler'[p], relay.last[p], Safe)
    BY <2>1, WrittenMoves, Zenon DEF Inv, DeliveryInv, WrittenInv
  <2>. QED
    BY <2>2, <2>3, <2>4, ProcessStep, Zenon
\* A process sends a PUT, or is about to.
<1>ProcessAsks.
  ASSUME Inv, TypeInv', NEW p \in Procs, UNCHANGED <<pump, disk, feed, past>>,
         relay'.items = relay.items, relay'.next = relay.next,
         relay'.last = relay.last, relay'.epoch = relay.epoch,
         \A q \in Procs : q # p => sampler'[q] = sampler[q],
         Asks(sampler[p], sampler'[p]),
         \/ wire' = wire
         \/ wire' = wire \cup {PutFrame(p)} /\ sampler'[p].state = "put"
  PROVE  Inv'
  <2>. USE <1>ProcessAsks
  <2>1. /\ sampler[p] \in Processes /\ relay.last[p] \in Nat /\ FramesOf(p) \in SUBSET Puts
        /\ sampler'[p] \in Processes /\ relay.items \in SUBSET Items /\ pump.hand \in SUBSET Items
        /\ Indexed \in SUBSET Groups
    BY PartsAre, FramesAre, Zenon DEF Inv, TypeInv
  <2>2. TakeFrames' = TakeFrames /\ \A q \in Procs : q # p => FramesOf(q)' = FramesOf(q)
    BY DEF TakeFrames, FramesOf, PutFrame
  <2>3. \/ FramesOf(p)' = FramesOf(p)
        \/ /\ FramesOf(p)' = FramesOf(p) \cup {PutFrame(p)}
           /\ PutFrame(p).seq = sampler'[p].seq /\ PutFrame(p).group = <<p, sampler'[p].n>>
           /\ sampler'[p].state = "put"
    BY Zenon DEF FramesOf, PutFrame
  <2>4. Numbered(p, sampler'[p], relay.last[p], FramesOf(p)')
    <3>1. Numbered(p, sampler[p], relay.last[p], FramesOf(p))
      BY Zenon DEF Inv, DeliveryInv, NumberInv
    <3>. QED
      BY <2>1, <2>3, <3>1, <1>NumberAsks, Zenon
  <2>5. Sourced(p, sampler'[p], relay.last[p], FramesOf(p)', relay.items, pump.hand, Indexed)
    <3>1. Sourced(p, sampler[p], relay.last[p], FramesOf(p), relay.items, pump.hand, Indexed)
      BY Zenon DEF Inv, DeliveryInv, SourceInv
    <3>2. /\ Sourced(p, sampler'[p], relay.last[p], FramesOf(p), relay.items, pump.hand, Indexed)
          /\ \A f : f.seq = sampler'[p].seq /\ f.group = <<p, sampler'[p].n>>
               => Sourced(p, sampler'[p], relay.last[p], FramesOf(p) \cup {f}, relay.items, pump.hand, Indexed)
      BY <2>1, <3>1, <1>SourceAsks, Zenon
    <3>. QED
      BY <2>3, <3>2, Zenon
  <2>6. Written(p, sampler'[p], relay.last[p], Safe)
    BY <2>1, <1>WrittenAsks, Zenon DEF Inv, DeliveryInv, NumberInv, WrittenInv
  <2>. QED
    BY <2>2, <2>4, <2>5, <2>6, ProcessStep, Zenon
\* The frame of a PUT.
<1>PutFrameIs.
  ASSUME NEW p \in Procs, sampler'[p] \in Processes, sampler'[p].n >= 1, sampler'[p].seq >= 1
  PROVE  PutFrame(p) \in Puts
  <2>. USE <1>PutFrameIs
  <2>1. <<p, sampler'[p].n>> \in Groups
    BY RelayAssumption DEF Groups, Processes
  <2>2. sampler'[p].seq \in Nat \ {0}
    BY DEF Processes
  <2>. QED
    BY <2>1, <2>2, Zenon DEF PutFrame, Puts
\* Members::join leaves the queue alone.
<1>JoinedIs.
  ASSUME NEW r \in Relays, NEW p \in Procs
  PROVE  /\ Joined(r, p) \in Relays /\ Joined(r, p).items = r.items /\ Joined(r, p).next = r.next
         /\ Joined(r, p).last = r.last /\ Joined(r, p).epoch = r.epoch
  <2>. USE <1>JoinedIs
  <2>1. CASE r.current = p
    BY <2>1, Zenon DEF Joined
  <2>2. CASE r.current # p
    <3>. DEFINE R == IF r.current = 0 THEN r.retired ELSE r.retired \cup {r.current}
    <3>1. R \in SUBSET Procs
      BY Zenon DEF Relays
    <3>2. Joined(r, p) = [r EXCEPT !.retired = R, !.current = p]
      BY <2>2, Zenon DEF Joined
    <3>. HIDE DEF R
    <3>3. [r EXCEPT !.retired = R, !.current = p] \in Relays
      BY <3>1, Zenon DEF Relays
    <3>. QED
      BY <3>2, <3>3 DEF Relays
  <2>. QED
    BY <2>1, <2>2, Zenon
\* RelayProducer.put.
<1>SendsInv.
  ASSUME Inv, NEW p \in Procs, NEW s \in Processes, Sends(p, s), UNCHANGED <<relay, pump, disk, feed, past>>,
         s.gaveBack = sampler[p].gaveBack, s.written = sampler[p].written,
         s.open = sampler[p].open, s.seq = sampler[p].seq, s.n >= 1,
         \/ sampler[p].state = "idle" /\ s.n = sampler[p].n + 1
         \/ sampler[p].state = "full" /\ s.n = sampler[p].n
  PROVE  Inv'
  <2>. USE <1>SendsInv
  <2>1. /\ sampler \in [Procs -> Processes] /\ wire \subseteq Puts \cup Takes
        /\ s.seq \in Nat /\ s.open \in BOOLEAN
    BY Zenon DEF Inv, TypeInv, Processes
  <2>. DEFINE t == [s EXCEPT !.seq = @ + 1, !.state = IF s.open THEN "put" ELSE "connect"]
  <2>2. t \in Processes
    <3>1. /\ s.seq + 1 \in Nat
          /\ (IF s.open THEN "put" ELSE "connect") \in {"off", "idle", "put", "connect", "full", "over"}
      BY <2>1
    <3>. QED
      BY <3>1, Zenon DEF Processes
  <2>3. /\ t.seq = s.seq + 1 /\ t.state = (IF s.open THEN "put" ELSE "connect")
        /\ t.n = s.n /\ t.gaveBack = s.gaveBack /\ t.written = s.written
    BY Zenon DEF Processes
  <2>4. sampler' = [sampler EXCEPT ![p] = t]
    BY Zenon DEF Sends
  <2>. HIDE DEF t
  <2>5. sampler'[p] = t /\ (\A q \in Procs : q # p => sampler'[q] = sampler[q]) /\ sampler' \in [Procs -> Processes]
    BY <2>1, <2>2, <2>4, Zenon
  <2>6. t.n >= 1 /\ t.seq >= 1
    BY <2>1, <2>3
  <2>7. PutFrame(p) \in Puts
    BY <2>2, <2>5, <2>6, <1>PutFrameIs, Zenon
  <2>8. TypeInv'
    BY <2>1, <2>5, <2>7, Zenon DEF Inv, TypeInv, Sends
  <2>9. Asks(sampler[p], sampler'[p])
    BY <2>3, <2>5, Zenon DEF Asks
  <2>10. \/ wire' = wire
         \/ wire' = wire \cup {PutFrame(p)} /\ sampler'[p].state = "put"
    BY <2>3, <2>5 DEF Sends
  <2>. QED
    BY <2>5, <2>8, <2>9, <2>10, <1>ProcessAsks, Zenon
\* RelaySampleBuffer.append.
<1>WriteGroupInv.
  ASSUME Inv, NEW p \in Procs, WriteGroup(p)
  PROVE  Inv'
  <2>. USE <1>WriteGroupInv
  <2>. DEFINE s == [sampler[p] EXCEPT !.n = @ + 1]
  <2>1. sampler[p] \in Processes /\ sampler[p].n \in Nat /\ sampler[p].n < PerProc
    BY RelayAssumption DEF Inv, TypeInv, WriteGroup, Processes
  <2>2. s \in Processes
    BY <2>1, RelayAssumption DEF Processes
  <2>3. /\ s.n = sampler[p].n + 1 /\ s.gaveBack = sampler[p].gaveBack /\ s.written = sampler[p].written
        /\ s.open = sampler[p].open /\ s.seq = sampler[p].seq
    BY <2>1, Zenon DEF Processes
  <2>4. Sends(p, s) /\ sampler[p].state = "idle" /\ UNCHANGED <<relay, pump, disk, feed, past>>
    BY Zenon DEF WriteGroup
  <2>. HIDE DEF s
  <2>5. s.n >= 1
    BY <2>1, <2>3
  <2>. QED
    BY <2>2, <2>3, <2>4, <2>5, <1>SendsInv, Zenon
\* put_blocking after FULL.
<1>WaitFullInv.
  ASSUME Inv, NEW p \in Procs, WaitFull(p)
  PROVE  Inv'
  <2>. USE <1>WaitFullInv
  <2>1. /\ sampler[p] \in Processes /\ sampler[p].state = "full" /\ UNCHANGED <<relay, pump, disk, feed, past>>
        /\ sampler \in [Procs -> Processes] /\ sampler[p].seq \in Nat
    BY Zenon DEF Inv, TypeInv, WaitFull, Processes
  <2>2. sampler[p].n >= 1 /\ \A f \in FramesOf(p) : ~f.live
    BY <2>1 DEF Inv, DeliveryInv, NumberInv, Numbered, Waits, Fits
  <2>3. CASE sampler[p].stopping
    <3>. DEFINE t == [sampler[p] EXCEPT !.state = "idle", !.gaveBack = TRUE]
    <3>1. sampler' = [sampler EXCEPT ![p] = t] /\ wire' = wire
      BY <2>3, Zenon DEF WaitFull
    <3>0. t \in Processes
      BY <2>1, Zenon DEF Processes
    <3>2. /\ t \in Processes /\ t.state = "idle" /\ t.gaveBack /\ t.n = sampler[p].n
          /\ t.seq = sampler[p].seq /\ t.written = sampler[p].written
      BY <2>1, <3>0, Zenon DEF Processes
    <3>. HIDE DEF t
    <3>3. sampler'[p] = t /\ (\A q \in Procs : q # p => sampler'[q] = sampler[q]) /\ sampler' \in [Procs -> Processes]
      BY <2>1, <3>1, <3>2, Zenon
    <3>4. TypeInv'
      BY <2>1, <3>1, <3>3, Zenon DEF Inv, TypeInv
    <3>5. Moves(sampler[p], sampler'[p])
      BY <2>1, <3>2, <3>3 DEF Moves, Waits, Top
    <3>6. TakeFrames' = TakeFrames /\ \A q \in Procs : FramesOf(q)' = FramesOf(q)
      BY <3>1, Zenon DEF TakeFrames, FramesOf
    <3>7. Thins(FramesOf(p)', FramesOf(p)) /\ \A e \in FramesOf(p)' : ~e.live
      BY <2>2, <3>6, Zenon DEF Thins
    <3>. QED
      BY <2>1, <3>2, <3>3, <3>4, <3>5, <3>6, <3>7, <1>ProcessMoves
  <2>4. CASE ~sampler[p].stopping
    <3>1. Sends(p, sampler[p])
      BY <2>4, Zenon DEF WaitFull
    <3>. QED
      BY <2>1, <2>2, <3>1, <1>SendsInv, Zenon
  <2>. QED
    BY <2>3, <2>4, Zenon
\* RelayConnection.connect.
<1>ConnectProducerInv.
  ASSUME Inv, NEW p \in Procs, ConnectProducer(p)
  PROVE  Inv'
  <2>. USE <1>ConnectProducerInv
  <2>1. /\ sampler[p] \in Processes /\ sampler[p].state = "connect" /\ UNCHANGED <<pump, disk, feed, past>>
        /\ sampler \in [Procs -> Processes] /\ relay \in Relays /\ wire \subseteq Puts \cup Takes
        /\ sampler[p].seq \in Nat
    BY Zenon DEF Inv, TypeInv, ConnectProducer, Processes
  <2>2. sampler[p].n >= 1 /\ sampler[p].seq >= 1 /\ \A f \in FramesOf(p) : ~f.live
    BY <2>1, Zenon DEF Inv, DeliveryInv, NumberInv, Numbered, Waits, Fits
  <2>3. CASE p \in relay.retired
    <3>. DEFINE t == [sampler[p] EXCEPT !.state = "over"]
    <3>1. sampler' = [sampler EXCEPT ![p] = t] /\ wire' = wire /\ relay' = relay
      BY <2>3, Zenon DEF ConnectProducer
    <3>0. t \in Processes
      BY <2>1, Zenon DEF Processes
    <3>2. /\ t \in Processes /\ t.state = "over" /\ t.gaveBack = sampler[p].gaveBack
          /\ t.n = sampler[p].n /\ t.seq = sampler[p].seq /\ t.written = sampler[p].written
      BY <2>1, <3>0, Zenon DEF Processes
    <3>. HIDE DEF t
    <3>3. sampler'[p] = t /\ (\A q \in Procs : q # p => sampler'[q] = sampler[q]) /\ sampler' \in [Procs -> Processes]
      BY <2>1, <3>1, <3>2, Zenon
    <3>4. TypeInv'
      BY <2>1, <3>1, <3>3, Zenon DEF Inv, TypeInv
    <3>5. Moves(sampler[p], sampler'[p])
      BY <2>1, <3>2, <3>3 DEF Moves, Waits, Top
    <3>6. TakeFrames' = TakeFrames /\ \A q \in Procs : FramesOf(q)' = FramesOf(q)
      BY <3>1, Zenon DEF TakeFrames, FramesOf
    <3>7. Thins(FramesOf(p)', FramesOf(p)) /\ \A e \in FramesOf(p)' : ~e.live
      BY <2>2, <3>6, Zenon DEF Thins
    <3>. QED
      BY <2>1, <3>1, <3>2, <3>3, <3>4, <3>5, <3>6, <3>7, <1>ProcessMoves
  <2>4. CASE p \notin relay.retired
    <3>. DEFINE t == [sampler[p] EXCEPT !.state = "put", !.open = TRUE]
    <3>1. sampler' = [sampler EXCEPT ![p] = t] /\ wire' = wire \cup {PutFrame(p)} /\ relay' = Joined(relay, p)
      BY <2>4, Zenon DEF ConnectProducer
    <3>0. t \in Processes
      BY <2>1, Zenon DEF Processes
    <3>2. /\ t \in Processes /\ t.state = "put" /\ t.gaveBack = sampler[p].gaveBack
          /\ t.n = sampler[p].n /\ t.seq = sampler[p].seq /\ t.written = sampler[p].written
      BY <2>1, <3>0, Zenon DEF Processes
    <3>. HIDE DEF t
    <3>3. sampler'[p] = t /\ (\A q \in Procs : q # p => sampler'[q] = sampler[q]) /\ sampler' \in [Procs -> Processes]
      BY <2>1, <3>1, <3>2, Zenon
    <3>4. PutFrame(p) \in Puts
      BY <2>2, <3>2, <3>3, <1>PutFrameIs, Zenon
    <3>5. /\ relay' \in Relays /\ relay'.items = relay.items /\ relay'.next = relay.next
          /\ relay'.last = relay.last /\ relay'.epoch = relay.epoch
      BY <2>1, <3>1, <1>JoinedIs, Zenon
    <3>6. TypeInv'
      BY <2>1, <3>1, <3>3, <3>4, <3>5, Zenon DEF Inv, TypeInv
    <3>7. Asks(sampler[p], sampler'[p])
      BY <2>1, <3>2, <3>3, Zenon DEF Asks
    <3>. QED
      BY <2>1, <3>1, <3>2, <3>3, <3>5, <3>6, <3>7, <1>ProcessAsks, Zenon
  <2>. QED
    BY <2>3, <2>4, Zenon
\* The link of a producer breaks.
<1>BreakInv.
  ASSUME Inv, NEW p \in Procs, Break(p)
  PROVE  Inv'
  <2>. USE <1>BreakInv
  <2>1. /\ sampler[p] \in Processes /\ sampler \in [Procs -> Processes] /\ wire \subseteq Puts \cup Takes
        /\ sampler' = [sampler EXCEPT ![p] = Unlinked(sampler[p])] /\ UNCHANGED <<relay, pump, disk, feed, past>>
    BY Zenon DEF Inv, TypeInv, Break
  <2>2. sampler[p].state \in {"put", "connect"} => sampler[p].seq >= 1
    BY Zenon DEF Inv, DeliveryInv, NumberInv, Numbered
  <2>3. /\ sampler'[p] \in Processes /\ Moves(sampler[p], sampler'[p]) /\ sampler'[p].state # "put"
        /\ sampler'[p].written = sampler[p].written /\ sampler' \in [Procs -> Processes]
        /\ \A q \in Procs : q # p => sampler'[q] = sampler[q]
    BY <2>1, <2>2, UnlinkedIs, Zenon
  <2>. DEFINE mine == {f \in wire : f.kind = "put" /\ f.proc = p /\ f.live}
              dead == {[f EXCEPT !.live = FALSE] : f \in mine}
  <2>4. wire' = wire \ mine \/ wire' = (wire \ mine) \cup dead
    BY Zenon DEF Break
  <2>5. \A f \in mine : f \in Puts /\ f.proc = p /\ f \in FramesOf(p)
    BY <2>1, KindsAre, Zenon DEF FramesOf
  <2>6. \A e \in dead : /\ e \in Puts /\ e.proc = p /\ e.kind = "put" /\ ~e.live
                        /\ \E f \in FramesOf(p) : e.seq = f.seq /\ e.group = f.group
    <3>1. ASSUME NEW f \in mine, NEW e, e = [f EXCEPT !.live = FALSE]
          PROVE  /\ e \in Puts /\ e.proc = p /\ e.kind = "put" /\ ~e.live
                 /\ e.seq = f.seq /\ e.group = f.group
      <4>1. f \in Puts /\ f.proc = p
        BY <2>5, Zenon
      <4>. QED
        BY <3>1, <4>1, QuietIs, Zenon
    <3>2. \A e \in dead : \E f \in mine : e = [f EXCEPT !.live = FALSE]
      BY Zenon
    <3>. HIDE DEF mine, dead
    <3>3. ASSUME NEW e \in dead
          PROVE  /\ e \in Puts /\ e.proc = p /\ e.kind = "put" /\ ~e.live
                 /\ \E f \in FramesOf(p) : e.seq = f.seq /\ e.group = f.group
      <4>1. PICK f \in mine : e = [f EXCEPT !.live = FALSE]
        BY <3>2, Zenon
      <4>2. /\ e \in Puts /\ e.proc = p /\ e.kind = "put" /\ ~e.live
            /\ e.seq = f.seq /\ e.group = f.group
        BY <3>1, <4>1, Zenon
      <4>. QED
        BY <2>5, <4>2, Zenon
    <3>. QED
      BY <3>3, Zenon
  <2>7. /\ FramesOf(p)' \subseteq {f \in FramesOf(p) : ~f.live} \cup dead
        /\ \A q \in Procs : q # p => FramesOf(q)' = FramesOf(q)
        /\ TakeFrames' = TakeFrames /\ wire' \subseteq Puts \cup Takes
    <3>. HIDE DEF dead
    <3>. QED
      BY <2>1, <2>4, <2>6, Zenon DEF FramesOf, TakeFrames
  <2>. HIDE DEF dead, mine
  <2>8. Thins(FramesOf(p)', FramesOf(p)) /\ \A e \in FramesOf(p)' : ~e.live
    BY <2>6, <2>7, Zenon DEF Thins
  <2>9. TypeInv'
    BY <2>1, <2>3, <2>7, Zenon DEF Inv, TypeInv
  <2>. QED
    BY <2>1, <2>3, <2>7, <2>8, <2>9, <1>ProcessMoves, Zenon
\* The frames of a process that does not wait for one are not live.
<1>NoneLive.
  ASSUME Inv, NEW p \in Procs, sampler[p].state # "put"
  PROVE  \A f \in FramesOf(p) : ~f.live
  BY <1>NoneLive, Zenon DEF Inv, DeliveryInv, NumberInv, Numbered, Fits
\* The sampler is asked to stop; a new process starts.
<1>StopInv.
  ASSUME Inv, NEW p \in Procs, Stop(p) \/ Relaunch(p)
  PROVE  Inv'
  <2>. USE <1>StopInv
  <2>1. /\ sampler[p] \in Processes /\ sampler \in [Procs -> Processes]
        /\ UNCHANGED <<relay, wire, pump, disk, feed, past>> /\ sampler[p].seq \in Nat
    BY Zenon DEF Inv, TypeInv, Stop, Relaunch, Processes
  <2>2. sampler[p].state \in {"put", "connect"} => sampler[p].seq >= 1
    BY Zenon DEF Inv, DeliveryInv, NumberInv, Numbered
  <2>3. PICK t \in Processes :
          /\ sampler' = [sampler EXCEPT ![p] = t]
          /\ t.n = sampler[p].n /\ t.seq = sampler[p].seq /\ t.gaveBack = sampler[p].gaveBack
          /\ t.written = sampler[p].written
          /\ t.state = sampler[p].state \/ (sampler[p].state = "off" /\ t.state = "idle")
    <3>1. CASE Stop(p)
      <4>. DEFINE t == [sampler[p] EXCEPT !.stopping = TRUE]
      <4>1. sampler' = [sampler EXCEPT ![p] = t]
        BY <3>1, Zenon DEF Stop
      <4>2. t \in Processes
        BY <2>1, Zenon DEF Processes
      <4>3. /\ t.n = sampler[p].n /\ t.seq = sampler[p].seq /\ t.gaveBack = sampler[p].gaveBack
            /\ t.written = sampler[p].written /\ t.state = sampler[p].state
        BY <2>1, Zenon DEF Processes
      <4>. HIDE DEF t
      <4>. QED
        BY <4>1, <4>2, <4>3, Zenon
    <3>2. CASE Relaunch(p)
      <4>. DEFINE t == [sampler[p] EXCEPT !.state = "idle"]
      <4>1. sampler' = [sampler EXCEPT ![p] = t] /\ sampler[p].state = "off"
        BY <3>2, Zenon DEF Relaunch
      <4>2. t \in Processes
        BY <2>1, Zenon DEF Processes
      <4>3. /\ t.n = sampler[p].n /\ t.seq = sampler[p].seq /\ t.gaveBack = sampler[p].gaveBack
            /\ t.written = sampler[p].written /\ t.state = "idle"
        BY <2>1, Zenon DEF Processes
      <4>. HIDE DEF t
      <4>. QED
        BY <4>1, <4>2, <4>3, Zenon
    <3>. QED
      BY <3>1, <3>2, Zenon
  <2>4. sampler'[p] = t /\ (\A q \in Procs : q # p => sampler'[q] = sampler[q]) /\ sampler' \in [Procs -> Processes]
    BY <2>1, <2>3, Zenon
  <2>5. Moves(sampler[p], sampler'[p])
    BY <2>1, <2>2, <2>3, <2>4 DEF Moves, Waits, Number, Top
  <2>6. TakeFrames' = TakeFrames /\ \A q \in Procs : FramesOf(q)' = FramesOf(q)
    BY <2>1, Zenon DEF TakeFrames, FramesOf
  <2>7. Thins(FramesOf(p)', FramesOf(p)) /\ (t.state # "put" => \A e \in FramesOf(p)' : ~e.live)
    BY <2>3, <2>6, <1>NoneLive, Zenon DEF Thins
  <2>8. TypeInv'
    BY <2>1, <2>4, Zenon DEF Inv, TypeInv
  <2>. QED
    BY <2>1, <2>3, <2>4, <2>5, <2>6, <2>7, <2>8, <1>ProcessMoves, Zenon
<1>. QED
  BY <1>WriteGroupInv, <1>WaitFullInv, <1>ConnectProducerInv, <1>BreakInv, <1>StopInv, Zenon DEF Producing

(***************************************************************************)
(* Training rounds.                                                        *)
(***************************************************************************)

\* The feed and the records change, the way to the index does not.
LEMMA DeliverySame ==
  ASSUME Inv, UNCHANGED <<relay, sampler, wire, pump>>, disk'.index = disk.index,
         past'.skipped = past.skipped, past'.lost = past.lost
  PROVE  DeliveryInv' /\ OrderInv'
<1>1. Indexed' = Indexed /\ Done' = Done /\ Safe' = Safe
  BY Zenon DEF Indexed, Done, Safe, Queued
<1>2. TakeFrames' = TakeFrames /\ \A p \in Procs : FramesOf(p)' = FramesOf(p)
  BY Zenon DEF TakeFrames, FramesOf
<1>3. NumberInv' /\ SourceInv' /\ WrittenInv'
  BY <1>1, <1>2, Zenon DEF Inv, DeliveryInv, NumberInv, SourceInv, WrittenInv
<1>4. QueueInv' /\ PumpInv' /\ TakeInv'
  BY <1>1, <1>2, Zenon DEF Inv, DeliveryInv, QueueInv, PumpInv, TakeInv
<1>5. OrderInv'
  BY Zenon DEF Inv, TrainingInv, OrderInv
<1>. QED
  BY <1>3, <1>4, <1>5, Zenon DEF DeliveryInv

\* The feed and the records, in a state of the invariant.
LEMMA FeedIs ==
  ASSUME Inv
  PROVE  /\ disk \in Disks /\ feed \in Feeds /\ past \in Pasts
         /\ disk.index \in Seq(Groups) /\ Len(disk.index) \in Nat /\ disk.cursor \in Nat
         /\ disk.tail \in Nat \cup {-1} /\ feed.read \in Nat /\ feed.kept \in SUBSET Groups
         /\ past.trained \in [Groups -> Nat] /\ past.dropped \in SUBSET Groups /\ past.window \in BOOLEAN
         /\ \A i \in 1 .. Len(disk.index) : disk.index[i] \in Groups
         /\ Distinct(disk.index)
         /\ Fed(disk.index, disk.cursor, disk.tail, feed.at, feed.read, feed.kept, Settled)
         /\ ~past.window =>
              /\ disk.tail = -1
              /\ Single(disk.index, disk.cursor, feed.at, feed.read, feed.kept, past.trained)
<1>1. /\ disk \in Disks /\ feed \in Feeds /\ past \in Pasts
  BY Zenon DEF Inv, TypeInv
<1>2. /\ disk.index \in Seq(Groups) /\ disk.cursor \in Nat
      /\ disk.tail \in Nat \cup {-1} /\ feed.read \in Nat /\ feed.kept \in SUBSET Groups
      /\ past.trained \in [Groups -> Nat] /\ past.dropped \in SUBSET Groups
  BY <1>1, Zenon DEF Disks, Feeds, Pasts
<1>3. past.window \in BOOLEAN
  BY <1>1, Zenon DEF Pasts
<1>4. Len(disk.index) \in Nat /\ \A i \in 1 .. Len(disk.index) : disk.index[i] \in Groups
  BY <1>2
<1>5. /\ Distinct(disk.index)
      /\ Fed(disk.index, disk.cursor, disk.tail, feed.at, feed.read, feed.kept, Settled)
      /\ ~past.window =>
           /\ disk.tail = -1
           /\ Single(disk.index, disk.cursor, feed.at, feed.read, feed.kept, past.trained)
  BY Zenon DEF Inv, TrainingInv, OrderInv, FeedInv, OnceInv
<1>. QED
  BY <1>1, <1>2, <1>3, <1>4, <1>5, Zenon

\* BufferFeed, BufferCall and commit_round.
LEMMA TrainingStepInv == Inv /\ Training => Inv'
\* The feed reads an entry, which it keeps or drops.
<1>FedCollect.
  ASSUME NEW index, NEW cursor \in Nat, NEW tail \in Nat \cup {-1}, NEW read \in Nat, NEW kept, NEW settled,
         Fed(index, cursor, tail, "collect", read, kept, settled), Len(index) \in Nat, read < Len(index),
         NEW kept2, NEW settled2, settled \subseteq settled2, kept \subseteq kept2,
         kept2 \subseteq kept \cup {index[read + 1]}, index[read + 1] \in kept2 \cup settled2
  PROVE  Fed(index, cursor, tail, "collect", read + 1, kept2, settled2)
  <2>. USE <1>FedCollect
  <2>1. cursor <= read /\ tail <= read
    BY Zenon DEF Fed
  <2>2. cursor <= read + 1 /\ tail <= read + 1 /\ read + 1 <= Len(index)
    BY <2>1
  <2>3. \A i \in 1 .. read + 1 : i \in 1 .. read \/ i = read + 1
    OBVIOUS
  <2>4. \A i \in 1 .. read + 1 : index[i] \in settled2 \/ index[i] \in kept2
    BY <2>3, Zenon DEF Fed
  <2>5. (\A i \in 1 .. read : i \in 1 .. read + 1) /\ read + 1 \in 1 .. read + 1
    OBVIOUS
  <2>6. \A g \in kept2 : \E i \in 1 .. read + 1 : index[i] = g
    BY <2>5, Zenon DEF Fed
  <2>. QED
    BY <2>2, <2>4, <2>6, Zenon DEF Fed
\* A group is trained once: the entry read is behind all that trained.
<1>SingleCollect.
  ASSUME NEW index, NEW cursor \in Nat, NEW read \in Nat, NEW kept, NEW trained,
         Single(index, cursor, "collect", read, kept, trained), Len(index) \in Nat, read < Len(index),
         NEW kept2, kept2 \subseteq kept \cup {index[read + 1]}
  PROVE  Single(index, cursor, "collect", read + 1, kept2, trained)
  <2>. USE <1>SingleCollect
  <2>1. read + 1 \in 1 .. Len(index) /\ read + 1 > read
    OBVIOUS
  <2>2. trained[index[read + 1]] = 0
    BY <2>1, Zenon DEF Single
  <2>3. \A g \in kept2 : trained[g] = 0
    BY <2>2, Zenon DEF Single
  <2>4. \A i \in 1 .. Len(index) : i > read + 1 => i > read
    OBVIOUS
  <2>. QED
    BY <2>3, <2>4, Zenon DEF Single
\* The round trained.
<1>FedTrained.
  ASSUME NEW index, NEW cursor, NEW tail, NEW at, NEW read, NEW kept, NEW settled, NEW settled2,
         Fed(index, cursor, tail, at, read, kept, settled),
         settled \subseteq settled2, kept \subseteq settled2
  PROVE  Fed(index, cursor, tail, "record", read, kept, settled2)
  BY <1>FedTrained, Zenon DEF Fed
\* A group is trained once: a round trains what never trained.
<1>SingleTrained.
  ASSUME NEW index, NEW cursor, NEW tail, NEW read \in Nat, NEW kept, NEW settled, Len(index) \in Nat,
         NEW trained \in [Groups -> Nat], NEW trained2, Distinct(index), read <= Len(index),
         \A i \in 1 .. Len(index) : index[i] \in Groups,
         Fed(index, cursor, tail, "train", read, kept, settled),
         Single(index, cursor, "train", read, kept, trained),
         trained2 = [g \in Groups |-> trained[g] + IF g \in kept THEN 1 ELSE 0]
  PROVE  Single(index, cursor, "record", read, kept, trained2)
  <2>. USE <1>SingleTrained
  <2>1. \A g \in kept : \E i \in 1 .. read : index[i] = g
    BY Zenon DEF Fed
  <2>2. \A i \in 1 .. read : i \in 1 .. Len(index) /\ ~(i > read)
    OBVIOUS
  <2>3. \A g \in kept : trained[g] = 0 /\ \E i \in 1 .. Len(index) : index[i] = g
    BY <2>1, <2>2, Zenon DEF Single
  <2>4. ASSUME NEW g \in Groups
        PROVE  trained2[g] <= 1 /\ (trained2[g] = 1 => \E i \in 1 .. Len(index) : index[i] = g)
    <3>1. CASE g \in kept
      BY <2>3, <3>1
    <3>2. CASE g \notin kept
      <4>1. trained2[g] = trained[g]
        BY <3>2
      <4>. QED
        BY <4>1, Zenon DEF Single
    <3>. QED
      BY <3>1, <3>2, Zenon
  <2>5. ASSUME NEW i \in 1 .. Len(index), i > read
        PROVE  trained2[index[i]] = 0
    <3>1. trained[index[i]] = 0 /\ index[i] \in Groups
      BY <2>5, Zenon DEF Single
    <3>2. index[i] \notin kept
      BY <2>1, <2>2, <2>5 DEF Distinct
    <3>. QED
      BY <3>1, <3>2
  <2>. QED
    BY <2>4, <2>5, Zenon DEF Single
\* LaneCursorLog.append records the round, or closes the unfinished record.
<1>FedRecorded.
  ASSUME NEW index, NEW cursor \in Nat, NEW tail \in Nat \cup {-1}, NEW read \in Nat, NEW kept, NEW settled,
         Fed(index, cursor, tail, "record", read, kept, settled), NEW cursor2 \in {cursor, read}
  PROVE  Fed(index, cursor2, -1, "collect", read, {}, settled)
  <2>. USE <1>FedRecorded
  <2>1. cursor2 <= read /\ -1 <= read /\ ~(-1 > 0)
    BY DEF Fed
  <2>2. \A i \in 1 .. -1 : FALSE
    OBVIOUS
  <2>3. \A i \in 1 .. cursor2 : index[i] \in settled
    BY Zenon DEF Fed
  <2>. QED
    BY <2>1, <2>2, <2>3, Zenon DEF Fed
\* A group is trained once: the record is behind all that trained.
<1>SingleRecorded.
  ASSUME NEW index, NEW cursor, NEW at, NEW read, NEW kept, NEW trained,
         Single(index, cursor, at, read, kept, trained)
  PROVE  Single(index, read, "collect", read, {}, trained)
  BY <1>SingleRecorded, Zenon DEF Single
\* BufferFeed pulls a group.
<1>CollectInv.
  ASSUME Inv, Collect
  PROVE  Inv'
  <2>. USE <1>CollectInv
  <2>. DEFINE g == disk.index[feed.read + 1]
  <2>1. /\ feed.at = "collect" /\ feed.read < Len(disk.index) /\ UNCHANGED <<relay, sampler, wire, pump, disk>>
        /\ \/ feed' = [feed EXCEPT !.read = feed.read + 1, !.kept = feed.kept \cup {g}] /\ past' = past
           \/ feed' = [feed EXCEPT !.read = feed.read + 1] /\ past' = [past EXCEPT !.dropped = past.dropped \cup {g}]
    BY Zenon DEF Collect
  <2>2. feed.read + 1 \in 1 .. Len(disk.index) /\ feed.read + 1 \in Nat
    BY <2>1, FeedIs
  <2>3. g \in Groups
    BY <2>2, FeedIs, Zenon
  <2>. DEFINE k == feed.read + 1
              K == feed.kept \cup {g}
              D == past.dropped \cup {g}
  <2>4. k \in Nat /\ K \in SUBSET Groups /\ D \in SUBSET Groups
    BY <2>2, <2>3, FeedIs, Zenon
  <2>5. /\ feed' \in Feeds /\ past' \in Pasts /\ feed'.at = feed.at /\ feed'.read = feed.read + 1
        /\ past'.trained = past.trained /\ past'.lost = past.lost /\ past'.skipped = past.skipped
        /\ past'.window = past.window
        /\ \/ feed'.kept = feed.kept \cup {g} /\ past'.dropped = past.dropped
           \/ feed'.kept = feed.kept /\ past'.dropped = past.dropped \cup {g}
    <3>1. CASE feed' = [feed EXCEPT !.read = k, !.kept = K] /\ past' = past
      <4>. HIDE DEF k, K
      <4>1. feed' \in Feeds /\ past' \in Pasts
        BY <2>4, <3>1, FeedIs, Zenon DEF Feeds
      <4>2. feed'.at = feed.at /\ feed'.read = k /\ feed'.kept = K
        BY <3>1, FeedIs, Zenon DEF Feeds
      <4>. QED
        BY <3>1, <4>1, <4>2, Zenon DEF k, K
    <3>2. CASE feed' = [feed EXCEPT !.read = k] /\ past' = [past EXCEPT !.dropped = D]
      <4>. HIDE DEF k, D
      <4>1. feed' \in Feeds /\ past' \in Pasts
        BY <2>4, <3>2, FeedIs, Zenon DEF Feeds, Pasts
      <4>2. feed'.at = feed.at /\ feed'.read = k /\ feed'.kept = feed.kept
        BY <3>2, FeedIs, Zenon DEF Feeds
      <4>3. /\ past'.trained = past.trained /\ past'.lost = past.lost /\ past'.skipped = past.skipped
            /\ past'.window = past.window /\ past'.dropped = D
        BY <3>2, FeedIs, Zenon DEF Pasts
      <4>. QED
        BY <4>1, <4>2, <4>3, Zenon DEF k, D
    <3>. QED
      BY <2>1, <3>1, <3>2, Zenon
  <2>6. TypeInv'
    BY <2>1, <2>5, Zenon DEF Inv, TypeInv
  <2>7. /\ Settled \subseteq Settled' /\ feed.kept \subseteq feed'.kept
        /\ feed'.kept \subseteq feed.kept \cup {g} /\ g \in feed'.kept \cup Settled'
    BY <2>5, Zenon DEF Settled
  <2>8. FeedInv'
    <3>. DEFINE K2 == feed'.kept
                S2 == Settled'
    <3>0. /\ Fed(disk.index, disk.cursor, disk.tail, "collect", feed.read, feed.kept, Settled)
          /\ disk.cursor \in Nat /\ disk.tail \in Nat \cup {-1} /\ feed.read \in Nat /\ Len(disk.index) \in Nat
          /\ feed.read < Len(disk.index)
      BY <2>1, FeedIs, Zenon
    <3>1. Fed(disk.index, disk.cursor, disk.tail, "collect", feed.read + 1, K2, S2)
      <4>1. /\ Settled \subseteq S2 /\ feed.kept \subseteq K2
            /\ K2 \subseteq feed.kept \cup {disk.index[feed.read + 1]} /\ disk.index[feed.read + 1] \in K2 \cup S2
        BY <2>7, Zenon
      <4>. HIDE DEF K2, S2
      <4>. QED
        BY <3>0, <4>1, <1>FedCollect, Zenon
    <3>. QED
      BY <2>1, <2>5, <3>1, Zenon DEF FeedInv
  <2>9. OnceInv'
    <3>1. ASSUME ~past.window
          PROVE  disk.tail = -1 /\ Single(disk.index, disk.cursor, "collect", feed.read + 1, feed'.kept, past.trained)
      BY <2>1, <2>7, <3>1, FeedIs, <1>SingleCollect
    <3>. QED
      BY <2>1, <2>5, <3>1, Zenon DEF OnceInv
  <2>. QED
    BY <2>1, <2>5, <2>6, <2>8, <2>9, DeliverySame, Zenon DEF Inv, TrainingInv
\* yeto_assemble closes the round.
<1>AssembleInv.
  ASSUME Inv, Assemble
  PROVE  Inv'
  <2>. USE <1>AssembleInv
  <2>1. /\ feed.at = "collect" /\ feed' = [feed EXCEPT !.at = "train"]
        /\ UNCHANGED <<relay, sampler, wire, pump, disk, past>>
    BY Zenon DEF Assemble
  <2>2. feed' \in Feeds /\ feed'.at = "train" /\ feed'.read = feed.read /\ feed'.kept = feed.kept
    BY <2>1, FeedIs, Zenon DEF Feeds
  <2>3. TypeInv'
    BY <2>1, <2>2, Zenon DEF Inv, TypeInv
  <2>4. FeedInv'
    <3>1. Settled' = Settled
      BY <2>1, Zenon DEF Settled
    <3>. QED
      BY <2>1, <2>2, <3>1, FeedIs, Zenon DEF FeedInv, Fed
  <2>5. OnceInv'
    BY <2>1, <2>2, FeedIs, Zenon DEF OnceInv, Single
  <2>. QED
    BY <2>1, <2>3, <2>4, <2>5, DeliverySame, Zenon DEF Inv, TrainingInv
\* yeto_train_step trained the round.
<1>TrainInv.
  ASSUME Inv, Train
  PROVE  Inv'
  <2>. USE <1>TrainInv
  <2>. DEFINE T == [g \in Groups |-> past.trained[g] + IF g \in feed.kept THEN 1 ELSE 0]
  <2>1. /\ feed.at = "train" /\ feed' = [feed EXCEPT !.at = "record"] /\ past' = [past EXCEPT !.trained = T]
        /\ UNCHANGED <<relay, sampler, wire, pump, disk>>
    BY Zenon DEF Train
  <2>2. feed' \in Feeds /\ feed'.at = "record" /\ feed'.read = feed.read /\ feed'.kept = feed.kept
    BY <2>1, FeedIs, Zenon DEF Feeds
  <2>3. T \in [Groups -> Nat]
    BY FeedIs
  <2>4. /\ past' \in Pasts /\ past'.trained = T /\ past'.dropped = past.dropped
        /\ past'.lost = past.lost /\ past'.skipped = past.skipped /\ past'.window = past.window
    <3>. HIDE DEF T
    <3>1. past' \in Pasts
      BY <2>1, <2>3, FeedIs, Zenon DEF Pasts
    <3>2. /\ past'.trained = T /\ past'.dropped = past.dropped
          /\ past'.lost = past.lost /\ past'.skipped = past.skipped /\ past'.window = past.window
      BY <2>1, FeedIs, Zenon DEF Pasts
    <3>. QED
      BY <3>1, <3>2, Zenon
  <2>5. TypeInv'
    BY <2>1, <2>2, <2>4, Zenon DEF Inv, TypeInv
  <2>6. Settled \subseteq Settled' /\ feed.kept \subseteq Settled'
    <3>1. \A g \in Groups : /\ past.trained[g] > 0 => past'.trained[g] > 0
                            /\ g \in feed.kept => past'.trained[g] > 0
      BY <2>4, FeedIs
    <3>. QED
      BY <2>4, <3>1, FeedIs, Zenon DEF Settled
  <2>7. FeedInv'
    <3>1. Fed(disk.index, disk.cursor, disk.tail, "record", feed.read, feed.kept, Settled')
      BY <2>6, FeedIs, <1>FedTrained, Zenon
    <3>. QED
      BY <2>1, <2>2, <3>1, Zenon DEF FeedInv
  <2>8. OnceInv'
    <3>1. ASSUME ~past.window
          PROVE  disk.tail = -1 /\ Single(disk.index, disk.cursor, "record", feed.read, feed.kept, T)
      <4>1. feed.read <= Len(disk.index)
        BY FeedIs, Zenon DEF Fed
      <4>2. /\ disk.tail = -1 /\ Single(disk.index, disk.cursor, "train", feed.read, feed.kept, past.trained)
            /\ Fed(disk.index, disk.cursor, disk.tail, "train", feed.read, feed.kept, Settled)
        BY <2>1, <3>1, FeedIs, Zenon
      <4>3. T = [g \in Groups |-> past.trained[g] + IF g \in feed.kept THEN 1 ELSE 0]
        BY Zenon
      <4>. HIDE DEF T
      <4>. QED
        BY <4>1, <4>2, <4>3, FeedIs, <1>SingleTrained, Zenon
    <3>. QED
      BY <2>1, <2>2, <2>4, <3>1, Zenon DEF OnceInv
  <2>. QED
    BY <2>1, <2>4, <2>5, <2>7, <2>8, DeliverySame, Zenon DEF Inv, TrainingInv
\* commit_round records the round.
<1>CommitRoundInv.
  ASSUME Inv, CommitRound
  PROVE  Inv'
  <2>. USE <1>CommitRoundInv
  <2>1. /\ feed.at = "record" /\ disk' = Logged(disk, feed.read) /\ feed' = FreshFeed(feed.read)
        /\ UNCHANGED <<relay, sampler, wire, pump, past>>
    BY Zenon DEF CommitRound
  <2>2. feed' \in Feeds /\ feed'.at = "collect" /\ feed'.read = feed.read /\ feed'.kept = {}
    BY <2>1, FeedIs, Zenon DEF FreshFeed, Feeds
  <2>3. /\ disk' \in Disks /\ disk'.index = disk.index /\ disk'.tail = -1
        /\ disk'.cursor = IF disk.tail = -1 THEN feed.read ELSE disk.cursor
    <3>1. disk' \in Disks
      BY <2>1, FeedIs, Zenon DEF Logged, Disks
    <3>2. /\ disk'.index = disk.index /\ disk'.tail = -1
          /\ disk'.cursor = IF disk.tail = -1 THEN feed.read ELSE disk.cursor
      BY <2>1, FeedIs, Zenon DEF Logged, Disks
    <3>. QED
      BY <3>1, <3>2, Zenon
  <2>4. TypeInv'
    BY <2>1, <2>2, <2>3, Zenon DEF Inv, TypeInv
  <2>5. FeedInv'
    <3>1. Settled' = Settled /\ disk'.cursor \in {disk.cursor, feed.read}
      BY <2>1, <2>3, Zenon DEF Settled
    <3>2. Fed(disk.index, disk'.cursor, -1, "collect", feed.read, {}, Settled)
      BY <2>1, <3>1, FeedIs, <1>FedRecorded
    <3>. QED
      BY <2>2, <2>3, <3>1, <3>2, Zenon DEF FeedInv
  <2>6. OnceInv'
    <3>1. ASSUME ~past.window
          PROVE  disk.tail = -1 /\ Single(disk.index, feed.read, "collect", feed.read, {}, past.trained)
      BY <3>1, FeedIs, <1>SingleRecorded, Zenon
    <3>. QED
      BY <2>1, <2>2, <2>3, <3>1, Zenon DEF OnceInv
  <2>. QED
    BY <2>1, <2>3, <2>4, <2>5, <2>6, DeliverySame, Zenon DEF Inv, TrainingInv
<1>. QED
  BY <1>CollectInv, <1>AssembleInv, <1>TrainInv, <1>CommitRoundInv, Zenon DEF Training

(***************************************************************************)
(* The head: its members, and the pump, which connects and asks.           *)
(***************************************************************************)

\* The lease of a process ends; the hello of a consumer comes late: queue and
\* numbers stay.
LEMMA MembersInv ==
  ASSUME Inv, Expire \/ TakeOver
  PROVE  Inv'
<1>1. relay \in Relays /\ UNCHANGED <<sampler, wire, pump, disk, feed, past>>
  BY Zenon DEF Inv, TypeInv, Expire, TakeOver
<1>2. /\ relay' \in Relays /\ relay'.items = relay.items /\ relay'.next = relay.next
      /\ relay'.last = relay.last /\ relay'.epoch = relay.epoch
  <2>1. CASE Expire
    <3>. DEFINE R == relay.retired \cup {relay.current}
    <3>1. R \in SUBSET Procs
      BY <1>1, <2>1, Zenon DEF Expire, Relays
    <3>2. relay' = [relay EXCEPT !.retired = R, !.current = 0]
      BY <2>1, Zenon DEF Expire
    <3>. HIDE DEF R
    <3>3. [relay EXCEPT !.retired = R, !.current = 0] \in Relays
      BY <1>1, <3>1, Zenon DEF Relays
    <3>. QED
      BY <1>1, <3>2, <3>3, Zenon DEF Relays
  <2>2. CASE TakeOver
    <3>. DEFINE k == relay.tokens + 1
    <3>1. k \in Nat
      BY <1>1 DEF Relays
    <3>2. relay' = [relay EXCEPT !.consumer = k, !.tokens = k]
      BY <2>2, Zenon DEF TakeOver
    <3>. HIDE DEF k
    <3>3. [relay EXCEPT !.consumer = k, !.tokens = k] \in Relays
      BY <1>1, <3>1, Zenon DEF Relays
    <3>. QED
      BY <1>1, <3>2, <3>3, Zenon DEF Relays
  <2>. QED
    BY <2>1, <2>2, Zenon
<1>3. TypeInv'
  BY <1>1, <1>2, Zenon DEF Inv, TypeInv
<1>4. Indexed' = Indexed /\ Done' = Done /\ Safe' = Safe
  BY <1>1, <1>2, Zenon DEF Indexed, Done, Safe, Queued
<1>5. TakeFrames' = TakeFrames /\ \A p \in Procs : FramesOf(p)' = FramesOf(p)
  BY <1>1, Zenon DEF TakeFrames, FramesOf
<1>6. DeliveryInv'
  BY <1>1, <1>2, <1>4, <1>5, Zenon DEF Inv, DeliveryInv, NumberInv, SourceInv, WrittenInv, QueueInv, PumpInv, TakeInv
<1>7. TrainingInv'
  BY <1>1, TrainingSame, Zenon DEF Inv
<1>. QED
  BY <1>3, <1>6, <1>7, Zenon DEF Inv

\* More is kept.
LEMMA WrittenMore ==
  ASSUME NEW p, NEW s, NEW last, NEW K, NEW L, Written(p, s, last, K), K \subseteq L
  PROVE  Written(p, s, last, L)
BY Zenon DEF Written

\* A pump whose connection is gone.
LEMMA UnpluggedIs ==
  ASSUME NEW q \in Pumps
  PROVE  /\ Unplugged(q) \in Pumps /\ ~Unplugged(q).open /\ Unplugged(q).at # "take"
         /\ Unplugged(q).at = q.at \/ (q.at = "take" /\ Unplugged(q).at = "idle")
         /\ Unplugged(q).known = q.known /\ Unplugged(q).hand = q.hand
         /\ Unplugged(q).after = q.after /\ Unplugged(q).acked = q.acked /\ Unplugged(q).epoch = q.epoch
<1>. DEFINE a == IF q.at = "take" THEN "idle" ELSE q.at
<1>1. a \in {"idle", "item", "index"} /\ (a = q.at \/ (q.at = "take" /\ a = "idle"))
  BY Zenon DEF Pumps
<1>2. Unplugged(q) = [q EXCEPT !.open = FALSE, !.at = a]
  BY Zenon DEF Unplugged
<1>. HIDE DEF a
<1>3. Unplugged(q) \in Pumps
  BY <1>1, <1>2, Zenon DEF Pumps
<1>4. /\ ~Unplugged(q).open /\ Unplugged(q).at = a /\ Unplugged(q).known = q.known
      /\ Unplugged(q).hand = q.hand /\ Unplugged(q).after = q.after
      /\ Unplugged(q).acked = q.acked /\ Unplugged(q).epoch = q.epoch
  BY <1>2, Zenon DEF Pumps
<1>. QED
  BY <1>1, <1>3, <1>4, Zenon

\* The pump waits, asks, or loses its connection, with nothing in hand that
\* was not there.
LEMMA PumpWaits ==
  ASSUME NEW q, NEW t, NEW epoch, NEW next, NEW items, NEW G, NEW done,
         Pumped(q, epoch, next, items, G, done),
         t.known = q.known, t.hand = q.hand, t.after = q.after, t.acked = q.acked,
         t.epoch = q.epoch, t.open => q.open,
         t.at = q.at \/ (q.at \notin {"item", "index"} /\ t.at \in {"idle", "take"})
  PROVE  Pumped(t, epoch, next, items, G, done)
BY Zenon DEF Pumped

\* Groups go down the way: from the queue into a batch, from there into the
\* index.
Descends(items, hand, G, items2, hand2, G2) ==
  /\ \A x \in items2 : x \in items
  /\ \A x \in hand2 : x \in items \/ x \in hand
  /\ \A g \in G2 : g \in G \/ \E x \in hand : g = x.group

\* No group gets behind a group of its process that way.
LEMMA SourceDown ==
  ASSUME NEW p \in Procs, NEW s \in Processes, NEW last \in Nat, NEW F \in SUBSET Puts,
         NEW items \in SUBSET Items, NEW hand \in SUBSET Items, NEW G \in SUBSET Groups,
         NEW items2, NEW hand2, NEW G2, Sourced(p, s, last, F, items, hand, G),
         Descends(items, hand, G, items2, hand2, G2)
  PROVE  Sourced(p, s, last, F, items2, hand2, G2)
<1>0. s.n \in Nat /\ \A f \in F : f.group[2] \in Nat
  BY RelayAssumption DEF Processes, Puts, Groups
<1>1. /\ \A x \in items \cup hand : x.group[2] \in Nat
      /\ \A g \in G : g[2] \in Nat
  BY RelayAssumption DEF Items, Groups
<1>2. ASSUME NEW k \in Nat, Behind(p, k, items, hand, G)
      PROVE  Behind(p, k, items2, hand2, G2)
  BY <1>1, <1>2 DEF Behind, Descends
<1>3. \A x \in hand2 : x.group[1] = p => x.group[2] <= s.n
  <2>1. \A x \in items : x.group[1] = p => x.group[2] < s.n + 1
    BY Zenon DEF Sourced, Behind
  <2>2. \A x \in hand : x.group[1] = p => x.group[2] <= s.n
    BY Zenon DEF Sourced
  <2>. QED
    BY <1>0, <1>1, <2>1, <2>2 DEF Descends
<1>4. \A g \in G2 : g[1] = p => g[2] <= s.n
  BY DEF Sourced, Descends
<1>. QED
  BY <1>0, <1>2, <1>3, <1>4 DEF Sourced

\* The processes and their numbers stay, groups go down the way.
LEMMA PumpStep ==
  ASSUME Inv, TypeInv', UNCHANGED sampler, relay'.last = relay.last,
         relay'.items \subseteq relay.items, pump'.hand \subseteq relay.items \cup pump.hand,
         Indexed' \subseteq Indexed \cup {x.group : x \in pump.hand}, Safe \subseteq Safe',
         \A p \in Procs : FramesOf(p)' = FramesOf(p),
         QueueInv', PumpInv', TakeInv', TrainingInv'
  PROVE  Inv'
<1>1. NumberInv'
  BY Zenon DEF Inv, DeliveryInv, NumberInv
<1>2. SourceInv'
  <2>1. ASSUME NEW p \in Procs
        PROVE  Sourced(p, sampler[p], relay.last[p], FramesOf(p), relay'.items, pump'.hand, Indexed')
    <3>1. /\ sampler[p] \in Processes /\ relay.last[p] \in Nat /\ FramesOf(p) \in SUBSET Puts
          /\ relay.items \in SUBSET Items /\ pump.hand \in SUBSET Items /\ Indexed \in SUBSET Groups
      BY PartsAre, FramesAre, Zenon DEF Inv
    <3>2. Sourced(p, sampler[p], relay.last[p], FramesOf(p), relay.items, pump.hand, Indexed)
      BY Zenon DEF Inv, DeliveryInv, SourceInv
    <3>3. Descends(relay.items, pump.hand, Indexed, relay'.items, pump'.hand, Indexed')
      BY ZenonT(30) DEF Descends
    <3>. QED
      BY <3>1, <3>2, <3>3, SourceDown, Zenon
  <2>2. \A p \in Procs :
          Sourced(p, sampler'[p], relay'.last[p], FramesOf(p)', relay'.items, pump'.hand, Indexed')
    BY <2>1, Zenon
  <2>. QED
    BY <2>2, Zenon DEF SourceInv
<1>3. WrittenInv'
  <2>1. \A p \in Procs : Written(p, sampler[p], relay.last[p], Safe')
    BY WrittenMore, Zenon DEF Inv, DeliveryInv, WrittenInv
  <2>2. \A p \in Procs : Written(p, sampler'[p], relay'.last[p], Safe')
    BY <2>1, Zenon
  <2>. QED
    BY <2>2, Zenon DEF WrittenInv
<1>. QED
  BY <1>1, <1>2, <1>3, Zenon DEF Inv, DeliveryInv

\* The pump after it connected, if it had to.
Asking == [Attached(pump) EXCEPT !.at = "take"]

\* The pump asks.
LEMMA TakeStepInv ==
  ASSUME Inv, Take
  PROVE  Inv'
\* The pump connects: to the relay it knows, or to a new one.
<1>PumpAttached.
  ASSUME NEW q \in Pumps, NEW t, NEW epoch \in Nat, NEW next \in Nat \ {0},
         NEW items \in SUBSET Items, NEW G, NEW done,
         Pumped(q, epoch, next, items, G, done), q.hand = {},
         t.known = q.known, t.hand = {}, t.epoch = epoch, t.at \in {"idle", "take"},
         t.acked = IF q.epoch = epoch THEN q.acked ELSE 0, t.after = t.acked
  PROVE  Pumped(t, epoch, next, items, G, done)
  <2>. USE <1>PumpAttached
  <2>0. q.after \in Nat /\ q.acked \in Nat /\ q.acked <= q.after
    BY Zenon DEF Pumps, Pumped
  <2>1. \A y \in items : y.id \in Nat /\ y.id > 0
    BY ItemIs, ZenonT(30)
  <2>2. /\ t.after < next /\ t.acked <= t.after
        /\ \A y \in items : y.id <= t.acked => y.group \in done
    <3>1. CASE q.epoch = epoch
      BY <2>0, <3>1 DEF Pumped
    <3>2. CASE q.epoch # epoch
      BY <2>1, <3>2
    <3>. QED
      BY <3>1, <3>2, Zenon
  <2>. QED
    BY <2>2 DEF Pumped
\* The pump asks.
<1>AskedTake.
  ASSUME NEW W, NEW q, NEW epoch, NEW next \in Nat, NEW items, NEW done, NEW G, NEW t \in Pumps,
         NEW f, Asked(W, q, epoch, next, items, done), q.at # "take",
         Pumped(t, epoch, next, items, G, done), t.at = "take", t.epoch = epoch,
         f.after = t.after, f.ack = t.acked
  PROVE  Asked(W \cup {f}, t, epoch, next, items, done)
  <2>. USE <1>AskedTake
  <2>1. \A h \in W : ~h.live
    BY Zenon DEF Asked
  <2>2. /\ f.ack < next /\ f.after < next
        /\ \A y \in items : y.id <= f.ack => y.group \in done
    BY DEF Pumped, Pumps
  <2>3. \A h \in W : /\ h.ack < next /\ h.after < next
                     /\ \A y \in items : y.id <= h.ack => y.group \in done
    BY Zenon DEF Asked
  <2>. QED
    BY <2>1, <2>2, <2>3, Zenon DEF Asked
\* Its cursor: that of the connection, or of the relay it connected to.
<1>AttachedIs.
  ASSUME TypeInv
  PROVE  /\ Asking \in Pumps /\ Asking.at = "take" /\ Asking.known = pump.known /\ Asking.hand = pump.hand
         /\ Asking.after = Attached(pump).after /\ Asking.acked = Attached(pump).acked
         /\ Asking.token = Attached(pump).token
         /\ pump.open => Asking.epoch = pump.epoch /\ Asking.after = pump.after /\ Asking.acked = pump.acked
         /\ ~pump.open => /\ Asking.epoch = relay.epoch /\ Asking.after = Asking.acked
                          /\ Asking.acked = IF pump.epoch = relay.epoch THEN pump.acked ELSE 0
  <2>. USE <1>AttachedIs
  <2>. DEFINE t == Asking
  <2>0. t = [Attached(pump) EXCEPT !.at = "take"]
    BY Zenon DEF Asking
  <2>. HIDE DEF t
  <2>. SUFFICES /\ t \in Pumps /\ t.at = "take" /\ t.known = pump.known /\ t.hand = pump.hand
                /\ t.after = Attached(pump).after /\ t.acked = Attached(pump).acked
                /\ t.token = Attached(pump).token
                /\ pump.open => t.epoch = pump.epoch /\ t.after = pump.after /\ t.acked = pump.acked
                /\ ~pump.open => /\ t.epoch = relay.epoch /\ t.after = t.acked
                                 /\ t.acked = IF pump.epoch = relay.epoch THEN pump.acked ELSE 0
    BY Zenon DEF t
  <2>1. pump \in Pumps /\ relay.epoch \in Nat /\ relay.tokens + 1 \in Nat
    BY DEF TypeInv, Relays
  <2>2. CASE pump.open
    <3>1. t = [pump EXCEPT !.at = "take"] /\ Attached(pump) = pump
      BY <2>0, <2>2, Zenon DEF Attached
    <3>2. t \in Pumps
      BY <2>1, <3>1, Zenon DEF Pumps
    <3>3. /\ t.at = "take" /\ t.known = pump.known /\ t.hand = pump.hand /\ t.after = pump.after
          /\ t.acked = pump.acked /\ t.token = pump.token /\ t.epoch = pump.epoch
      BY <2>1, <3>1, Zenon DEF Pumps
    <3>. QED
      BY <2>2, <3>1, <3>2, <3>3, Zenon
  <2>3. CASE ~pump.open
    <3>. DEFINE c == IF relay.epoch = pump.epoch THEN pump.acked ELSE 0
                k == relay.tokens + 1
                q == [pump EXCEPT !.after = c, !.acked = c, !.epoch = relay.epoch, !.open = TRUE, !.token = k]
    <3>1. c \in Nat /\ k \in Nat /\ c = (IF pump.epoch = relay.epoch THEN pump.acked ELSE 0)
      BY <2>1, Zenon DEF Pumps
    <3>2. Attached(pump) = q
      BY <2>3, Zenon DEF Attached, Resumed
    <3>. HIDE DEF c, k
    <3>3. q \in Pumps
      BY <2>1, <3>1, Zenon DEF Pumps
    <3>4. /\ q.known = pump.known /\ q.hand = pump.hand /\ q.after = c /\ q.acked = c
          /\ q.epoch = relay.epoch
      BY <2>1, Zenon DEF Pumps
    <3>. HIDE DEF q
    <3>5. t = [q EXCEPT !.at = "take"]
      BY <2>0, <3>2, Zenon
    <3>6. t \in Pumps
      BY <3>3, <3>5, Zenon DEF Pumps
    <3>7. /\ t.at = "take" /\ t.known = q.known /\ t.hand = q.hand /\ t.after = q.after
          /\ t.acked = q.acked /\ t.token = q.token /\ t.epoch = q.epoch
      BY <3>3, <3>5, Zenon DEF Pumps
    <3>. QED
      BY <2>3, <3>1, <3>2, <3>4, <3>6, <3>7, Zenon
  <2>. QED
    BY <2>2, <2>3, Zenon
<1>. DEFINE q == Attached(pump)
            f == [kind |-> "take", token |-> q.token, after |-> q.after,
                  ack |-> q.acked, max |-> Room, live |-> TRUE]
<1>1. /\ pump.at = "idle" /\ pump' = [q EXCEPT !.at = "take"] /\ wire' = wire \cup {f}
      /\ relay' = (IF pump.open THEN relay ELSE [relay EXCEPT !.consumer = q.token, !.tokens = q.token])
      /\ UNCHANGED <<sampler, disk, feed, past>>
  BY Zenon DEF Take
<1>2. /\ relay \in Relays /\ pump \in Pumps /\ disk \in Disks /\ feed \in Feeds
      /\ relay.items \in SUBSET Items /\ relay.next \in Nat \ {0} /\ relay.epoch \in Nat
      /\ TypeInv /\ wire \subseteq Puts \cup Takes
  BY PartsAre, Zenon DEF Inv, TypeInv
<1>3. /\ pump' \in Pumps /\ pump'.at = "take" /\ pump'.known = pump.known /\ pump'.hand = pump.hand
      /\ pump'.after = q.after /\ pump'.acked = q.acked /\ pump'.token = q.token
      /\ pump.open => pump'.epoch = pump.epoch /\ pump'.after = pump.after /\ pump'.acked = pump.acked
      /\ ~pump.open => /\ pump'.epoch = relay.epoch /\ pump'.after = pump'.acked
                       /\ pump'.acked = IF pump.epoch = relay.epoch THEN pump.acked ELSE 0
  BY <1>1, <1>2, <1>AttachedIs, Zenon DEF Asking
<1>4. /\ relay' \in Relays /\ relay'.items = relay.items /\ relay'.next = relay.next
      /\ relay'.last = relay.last /\ relay'.epoch = relay.epoch
  <2>1. q.token \in Nat
    BY <1>3, Zenon DEF Pumps
  <2>. DEFINE k == q.token
  <2>. HIDE DEF k
  <2>2. [relay EXCEPT !.consumer = k, !.tokens = k] \in Relays
    BY <1>2, <2>1, Zenon DEF Relays, k
  <2>3. LET r == [relay EXCEPT !.consumer = k, !.tokens = k]
        IN  r.items = relay.items /\ r.next = relay.next /\ r.last = relay.last /\ r.epoch = relay.epoch
    BY <1>2, Zenon DEF Relays
  <2>. QED
    BY <1>1, <1>2, <2>2, <2>3, Zenon DEF k
<1>5. f \in Takes /\ f.kind = "take" /\ f.after = pump'.after /\ f.ack = pump'.acked
  <2>1. Room \in Int
    BY <1>2, RelayAssumption DEF Room, Disks, Feeds
  <2>2. q.token \in Nat /\ q.after \in Nat /\ q.acked \in Nat
    BY <1>3, Zenon DEF Pumps
  <2>. QED
    BY <1>3, <2>1, <2>2, Zenon DEF Takes
<1>. HIDE DEF f, q
<1>6. TypeInv'
  BY <1>1, <1>2, <1>3, <1>4, <1>5, Zenon DEF TypeInv
<1>7. TakeFrames' = TakeFrames \cup {f} /\ \A p \in Procs : FramesOf(p)' = FramesOf(p)
  BY <1>1, <1>5, Zenon DEF TakeFrames, FramesOf
<1>8. Indexed' = Indexed /\ Done' = Done /\ Safe' = Safe
  BY <1>1, <1>4, Zenon DEF Indexed, Done, Safe, Queued
<1>9. /\ Pumped(pump, relay.epoch, relay.next, relay.items, Indexed, Done)
      /\ Asked(TakeFrames, pump, relay.epoch, relay.next, relay.items, Done)
  BY Zenon DEF Inv, DeliveryInv, PumpInv, TakeInv
<1>10. pump.hand = {}
  BY <1>1, <1>9, Zenon DEF Pumped
<1>11. Pumped(pump', relay.epoch, relay.next, relay.items, Indexed, Done) /\ pump'.epoch = relay.epoch
  <2>1. CASE pump.open
    <3>1. pump.epoch = relay.epoch
      BY <1>9, <2>1, Zenon DEF Pumped
    <3>2. Pumped(pump', relay.epoch, relay.next, relay.items, Indexed, Done)
      <4>1. /\ pump'.known = pump.known /\ pump'.hand = pump.hand /\ pump'.after = pump.after
            /\ pump'.acked = pump.acked /\ pump'.epoch = pump.epoch /\ (pump'.open => pump.open)
            /\ pump.at \notin {"item", "index"} /\ pump'.at \in {"idle", "take"}
        BY <1>1, <1>3, <2>1, Zenon
      <4>. QED
        BY <1>9, <4>1, PumpWaits, Zenon
    <3>. QED
      BY <1>3, <2>1, <3>1, <3>2, Zenon
  <2>2. CASE ~pump.open
    <3>1. Pumped(pump', relay.epoch, relay.next, relay.items, Indexed, Done)
      BY <1>2, <1>3, <1>9, <1>10, <2>2, <1>PumpAttached, Zenon
    <3>. QED
      BY <1>3, <2>2, <3>1, Zenon
  <2>. QED
    BY <2>1, <2>2, Zenon
<1>12. PumpInv'
  BY <1>4, <1>8, <1>11, Zenon DEF PumpInv
<1>13. TakeInv'
  <2>1. Asked(TakeFrames \cup {f}, pump', relay.epoch, relay.next, relay.items, Done)
    BY <1>1, <1>2, <1>3, <1>5, <1>9, <1>11, <1>AskedTake, ZenonT(30)
  <2>. QED
    BY <1>4, <1>7, <1>8, <2>1, Zenon DEF TakeInv
<1>14. QueueInv'
  BY <1>3, <1>4, <1>8, Zenon DEF Inv, DeliveryInv, QueueInv
<1>15. TrainingInv'
  BY <1>1, TrainingSame, Zenon DEF Inv
<1>. QED
  BY <1>1, <1>3, <1>4, <1>6, <1>7, <1>8, <1>12, <1>13, <1>14, <1>15, PumpStep, Zenon

(***************************************************************************)
(* Faults of the trainer.                                                  *)
(***************************************************************************)

\* The link of the pump breaks, or the trainer dies and starts again.
LEMMA TrainerFaultInv == Inv /\ (Cut \/ Crash) => Inv'
\* The trainer drops its batch when it dies.
<1>QueueDrop.
  ASSUME NEW items, NEW next \in Nat, NEW hand, NEW G, NEW done,
         Queue(items, next, hand, G, done)
  PROVE  Queue(items, next, {}, G, done)
  BY <1>QueueDrop, Zenon DEF Queue, Ordered
\* The frames a pump leaves behind.
<1>AbandonedIs.
  ASSUME NEW W \in SUBSET (Puts \cup Takes), NEW V \in Abandoned(W)
  PROVE  /\ V \in SUBSET (Puts \cup Takes)
         /\ {f \in V : f.kind = "put"} = {f \in W : f.kind = "put"}
         /\ \A f \in V : f.kind = "take" =>
              ~f.live /\ \E h \in W : h.kind = "take" /\ f.ack = h.ack /\ f.after = h.after
  <2>. USE <1>AbandonedIs
  <2>. DEFINE mine == {f \in W : f.kind = "take" /\ f.live}
              quiet == {[f EXCEPT !.live = FALSE] : f \in mine}
  <2>1. V = W \ mine \/ V = (W \ mine) \cup quiet
    BY Zenon DEF Abandoned
  <2>2. \A f \in mine : f \in W /\ f.kind = "take" /\ f.live /\ f \in Takes
    <3>1. \A f \in Puts : f.kind = "put"
      BY Zenon DEF Puts
    <3>. QED
      BY <3>1, Zenon
  <2>3. ASSUME NEW h \in quiet
        PROVE  /\ h \in Takes /\ ~h.live /\ h.kind = "take"
               /\ \E f \in mine : h.ack = f.ack /\ h.after = f.after
    <3>1. PICK f \in mine : h = [f EXCEPT !.live = FALSE]
      BY Zenon
    <3>2. f \in Takes
      BY <2>2, <3>1, Zenon
    <3>. HIDE DEF mine, quiet
    <3>3. h \in Takes /\ ~h.live /\ h.kind = "take" /\ h.ack = f.ack /\ h.after = f.after
      BY <3>1, <3>2, QuietIs, Zenon
    <3>. QED
      BY <3>3, Zenon
  <2>4. \A f \in V : (f \in W /\ f \notin mine) \/ f \in quiet
    BY <2>1, Zenon
  <2>5. \A f \in W : f \notin mine => f \in V
    BY <2>1, Zenon
  <2>6. \A f \in W : f.kind = "put" => f \notin mine
    BY Zenon
  <2>7. \A f \in W : f.kind = "take" /\ f \notin mine => ~f.live
    BY Zenon
  <2>. HIDE DEF mine, quiet
  <2>8. V \in SUBSET (Puts \cup Takes)
    BY <2>3, <2>4, Zenon
  <2>9. {f \in V : f.kind = "put"} = {f \in W : f.kind = "put"}
    BY <2>3, <2>4, <2>5, <2>6, Zenon
  <2>10. \A f \in V : f.kind = "take" =>
           ~f.live /\ \E h \in W : h.kind = "take" /\ f.ack = h.ack /\ f.after = h.after
    BY <2>2, <2>3, <2>4, <2>7, Zenon
  <2>. QED
    BY <2>8, <2>9, <2>10, Zenon
\* The pump leaves its frames behind.
<1>AbandonedFrames.
  ASSUME TypeInv, wire' \in Abandoned(wire)
  PROVE  /\ wire' \in SUBSET (Puts \cup Takes)
         /\ \A p \in Procs : FramesOf(p)' = FramesOf(p)
         /\ \A f \in TakeFrames' : ~f.live /\ \E h \in TakeFrames : f.ack = h.ack /\ f.after = h.after
  <2>. USE <1>AbandonedFrames
  <2>. DEFINE V == wire'
  <2>1. wire \in SUBSET (Puts \cup Takes) /\ V \in Abandoned(wire)
    BY Zenon DEF TypeInv
  <2>2. /\ \A p \in Procs : FramesOf(p)' = {f \in V : f.kind = "put" /\ f.proc = p}
        /\ TakeFrames' = {f \in V : f.kind = "take"}
    BY Zenon DEF FramesOf, TakeFrames
  <2>. HIDE DEF V
  <2>3. /\ V \in SUBSET (Puts \cup Takes)
        /\ {f \in V : f.kind = "put"} = {f \in wire : f.kind = "put"}
        /\ \A f \in V : f.kind = "take" =>
             ~f.live /\ \E h \in wire : h.kind = "take" /\ f.ack = h.ack /\ f.after = h.after
    BY <2>1, <1>AbandonedIs, Zenon
  <2>4. \A p \in Procs : FramesOf(p)' = FramesOf(p)
    BY <2>2, <2>3 DEF FramesOf
  <2>5. \A f \in TakeFrames' : ~f.live /\ \E h \in TakeFrames : f.ack = h.ack /\ f.after = h.after
    BY <2>2, <2>3, Zenon DEF TakeFrames
  <2>. QED
    BY <2>3, <2>4, <2>5, Zenon DEF V
\* Frames V that nobody waits for ask for what frames W asked for.
<1>AskedQuiet.
  ASSUME NEW W, NEW q, NEW epoch, NEW next, NEW items, NEW done, NEW V, NEW t,
         Asked(W, q, epoch, next, items, done),
         \A f \in V : ~f.live /\ \E h \in W : f.ack = h.ack /\ f.after = h.after
  PROVE  Asked(V, t, epoch, next, items, done)
  BY <1>AskedQuiet, Zenon DEF Asked
\* The pump's link breaks.
<1>CutInv.
  ASSUME Inv, Cut
  PROVE  Inv'
  <2>. USE <1>CutInv
  <2>1. /\ pump' = Unplugged(pump) /\ wire' \in Abandoned(wire) /\ UNCHANGED <<relay, sampler, disk, feed, past>>
    BY Zenon DEF Cut
  <2>2. pump \in Pumps
    BY Zenon DEF Inv, TypeInv
  <2>3. /\ pump' \in Pumps /\ ~pump'.open
        /\ pump'.at = pump.at \/ (pump.at = "take" /\ pump'.at = "idle")
        /\ pump'.known = pump.known /\ pump'.hand = pump.hand
        /\ pump'.after = pump.after /\ pump'.acked = pump.acked /\ pump'.epoch = pump.epoch
    BY <2>1, <2>2, UnpluggedIs, Zenon
  <2>4. /\ wire' \in SUBSET (Puts \cup Takes)
        /\ \A p \in Procs : FramesOf(p)' = FramesOf(p)
        /\ \A f \in TakeFrames' : ~f.live /\ \E h \in TakeFrames : f.ack = h.ack /\ f.after = h.after
    BY <2>1, <1>AbandonedFrames, Zenon DEF Inv
  <2>5. TypeInv'
    BY <2>1, <2>3, <2>4, Zenon DEF Inv, TypeInv
  <2>6. Indexed' = Indexed /\ Done' = Done /\ Safe' = Safe
    BY <2>1, Zenon DEF Indexed, Done, Safe, Queued
  <2>7. QueueInv'
    BY <2>1, <2>3, <2>6, Zenon DEF Inv, DeliveryInv, QueueInv
  <2>8. PumpInv'
    <3>1. Pumped(pump, relay.epoch, relay.next, relay.items, Indexed, Done)
      BY Zenon DEF Inv, DeliveryInv, PumpInv
    <3>2. Pumped(pump', relay.epoch, relay.next, relay.items, Indexed, Done)
      BY <2>3, <3>1, PumpWaits, Zenon
    <3>. QED
      BY <2>1, <2>6, <3>2, Zenon DEF PumpInv
  <2>9. TakeInv'
    <3>1. Asked(TakeFrames, pump, relay.epoch, relay.next, relay.items, Done)
      BY Zenon DEF Inv, DeliveryInv, TakeInv
    <3>2. Asked(TakeFrames', pump', relay.epoch, relay.next, relay.items, Done)
      BY <2>4, <3>1, <1>AskedQuiet
    <3>. QED
      BY <2>1, <2>6, <3>2, Zenon DEF TakeInv
  <2>10. TrainingInv'
    BY <2>1, TrainingSame, Zenon DEF Inv
  <2>. QED
    BY <2>1, <2>3, <2>4, <2>5, <2>6, <2>7, <2>8, <2>9, <2>10, PumpStep, Zenon
\* A trainer that starts again goes on at its last record.
<1>FedAgain.
  ASSUME NEW index, NEW cursor \in Nat, NEW tail \in Nat \cup {-1}, NEW at, NEW read \in Nat, NEW kept, NEW settled,
         Fed(index, cursor, tail, at, read, kept, settled), Len(index) \in Nat, NEW tail2,
         tail2 \in {tail, -1, 0} \/ (at = "record" /\ tail2 = read), NEW read2,
         read2 = IF tail2 > 0 THEN tail2 ELSE cursor
  PROVE  Fed(index, cursor, tail2, "collect", read2, {}, settled)
  <2>. USE <1>FedAgain
  <2>1. cursor <= read /\ tail <= read /\ read <= Len(index) /\ (tail > 0 => cursor <= tail)
    BY Zenon DEF Fed
  <2>2. /\ tail2 \in Nat \cup {-1} /\ read2 \in Nat /\ cursor <= read2 /\ tail2 <= read2 /\ read2 <= Len(index)
        /\ tail2 > 0 => cursor <= tail2
    BY <2>1
  <2>3. \A i \in 1 .. tail2 : index[i] \in settled
    BY DEF Fed
  <2>4. \A i \in 1 .. cursor : index[i] \in settled
    BY Zenon DEF Fed
  <2>5. \A i \in 1 .. read2 : index[i] \in settled
    BY <2>3, <2>4, Zenon
  <2>. QED
    BY <2>2, <2>3, <2>4, <2>5, Zenon DEF Fed
\* A group is trained once: without the window, nothing behind the record trained.
<1>SingleAgain.
  ASSUME NEW index, NEW cursor, NEW at, NEW read, NEW kept, NEW trained, at # "record",
         Single(index, cursor, at, read, kept, trained)
  PROVE  Single(index, cursor, "collect", cursor, {}, trained)
  BY <1>SingleAgain, Zenon DEF Single
\* The trainer starts again on its directory.
<1>CrashInv.
  ASSUME Inv, Crash
  PROVE  Inv'
  <2>. USE <1>CrashInv
  <2>1. /\ pump' = FreshPump(disk'.index) /\ feed' = FreshFeed(LastCursor(disk'))
        /\ past' = [past EXCEPT !.window = past.window \/ feed.at = "record"]
        /\ wire' \in Abandoned(wire) /\ UNCHANGED <<relay, sampler>>
    BY Zenon DEF Crash
  <2>2. PICK t \in IndexEnds, c \in CursorEnds : disk' = [disk EXCEPT !.torn = t, !.tail = c]
    BY Zenon DEF Crash
  <2>3. t \in BOOLEAN
    <3>1. disk.torn \in BOOLEAN
      BY FeedIs, Zenon DEF Disks
    <3>. QED
      BY <3>1, <2>2, Zenon DEF IndexEnds
  <2>4. /\ c \in {disk.tail, -1, 0} \/ (feed.at = "record" /\ c = feed.read)
        /\ feed.at # "record" => c = disk.tail
        /\ c \in Nat \cup {-1}
    BY <2>2, FeedIs DEF CursorEnds
  <2>5. disk' \in Disks
    BY <2>2, <2>3, <2>4, FeedIs, Zenon DEF Disks
  <2>6. disk'.index = disk.index /\ disk'.cursor = disk.cursor /\ disk'.tail = c
    BY <2>2, FeedIs, Zenon DEF Disks
  <2>7. Indexed' = Indexed
    BY <2>6, Zenon DEF Indexed
  <2>8. /\ pump'.at = "idle" /\ ~pump'.open /\ pump'.epoch = 0 /\ pump'.after = 0 /\ pump'.acked = 0
        /\ pump'.known = Indexed /\ pump'.hand = {} /\ pump' \in Pumps
    <3>1. Range(disk'.index) = Indexed /\ Indexed \in SUBSET Groups
      BY <2>6, PartsAre, Zenon DEF Indexed, Inv
    <3>. QED
      BY <2>1, <3>1, Zenon DEF FreshPump, Pumps
  <2>9. feed'.at = "collect" /\ feed'.read = (IF c > 0 THEN c ELSE disk.cursor) /\ feed'.kept = {} /\ feed' \in Feeds
    <3>1. LastCursor(disk') = IF c > 0 THEN c ELSE disk.cursor
      BY <2>6, Zenon DEF LastCursor
    <3>2. LastCursor(disk') \in Nat
      BY <2>4, <3>1, FeedIs
    <3>. QED
      BY <2>1, <3>1, <3>2, Zenon DEF FreshFeed, Feeds
  <2>10. /\ past' \in Pasts /\ past'.trained = past.trained /\ past'.dropped = past.dropped
         /\ past'.lost = past.lost /\ past'.skipped = past.skipped
         /\ ~past'.window => ~past.window /\ feed.at # "record"
    <3>. DEFINE w == past.window \/ feed.at = "record"
    <3>1. w \in BOOLEAN /\ past' = [past EXCEPT !.window = w]
      BY <2>1, Zenon
    <3>. HIDE DEF w
    <3>2. past' \in Pasts
      BY <3>1, FeedIs, Zenon DEF Pasts
    <3>3. /\ past'.trained = past.trained /\ past'.dropped = past.dropped
          /\ past'.lost = past.lost /\ past'.skipped = past.skipped /\ past'.window = w
      BY <3>1, FeedIs, Zenon DEF Pasts
    <3>4. ~past'.window => ~past.window /\ feed.at # "record"
      BY <3>3, Zenon DEF w
    <3>. QED
      BY <3>2, <3>3, <3>4, Zenon
  <2>11. /\ wire' \in SUBSET (Puts \cup Takes)
         /\ \A p \in Procs : FramesOf(p)' = FramesOf(p)
         /\ \A f \in TakeFrames' : ~f.live /\ \E h \in TakeFrames : f.ack = h.ack /\ f.after = h.after
    BY <2>1, <1>AbandonedFrames, Zenon DEF Inv
  <2>12. TypeInv'
    BY <2>1, <2>5, <2>8, <2>9, <2>10, <2>11, Zenon DEF Inv, TypeInv
  <2>13. Done' = Done /\ Safe' = Safe
    BY <2>1, <2>7, <2>10, Zenon DEF Done, Safe, Queued
  <2>14. /\ Queue(relay.items, relay.next, pump.hand, Indexed, Done)
         /\ Asked(TakeFrames, pump, relay.epoch, relay.next, relay.items, Done)
         /\ relay.next \in Nat /\ relay.epoch \in Nat \ {0}
    BY PartsAre, Zenon DEF Inv, DeliveryInv, QueueInv, TakeInv
  <2>15. QueueInv'
    <3>1. Queue(relay.items, relay.next, {}, Indexed, Done)
      BY <2>14, <1>QueueDrop, Zenon
    <3>. QED
      BY <2>1, <2>7, <2>8, <2>13, <3>1, Zenon DEF QueueInv
  <2>16. PumpInv'
    <3>1. Pumped(pump', relay.epoch, relay.next, relay.items, Indexed, Done)
      BY <2>8, <2>14 DEF Pumped
    <3>. QED
      BY <2>1, <2>7, <2>13, <3>1, Zenon DEF PumpInv
  <2>17. TakeInv'
    <3>1. Asked(TakeFrames', pump', relay.epoch, relay.next, relay.items, Done)
      BY <2>11, <2>14, <1>AskedQuiet, Zenon
    <3>. QED
      BY <2>1, <2>13, <3>1, Zenon DEF TakeInv
  <2>18. OrderInv'
    BY <2>6, <2>10, Zenon DEF Inv, TrainingInv, OrderInv
  <2>19. FeedInv'
    <3>1. Settled' = Settled
      BY <2>10, Zenon DEF Settled
    <3>2. Fed(disk.index, disk.cursor, c, "collect", feed'.read, {}, Settled)
      <4>1. /\ disk.cursor \in Nat /\ disk.tail \in Nat \cup {-1} /\ feed.read \in Nat /\ Len(disk.index) \in Nat
            /\ Fed(disk.index, disk.cursor, disk.tail, feed.at, feed.read, feed.kept, Settled)
        BY FeedIs, Zenon
      <4>. QED
        BY <2>4, <2>9, <4>1, <1>FedAgain, ZenonT(30)
    <3>. QED
      BY <2>6, <2>9, <3>1, <3>2, Zenon DEF FeedInv
  <2>20. OnceInv'
    <3>1. ASSUME ~past'.window
          PROVE  c = -1 /\ Single(disk.index, disk.cursor, "collect", disk.cursor, {}, past.trained)
      <4>1. ~past.window /\ feed.at # "record"
        BY <2>10, <3>1, Zenon
      <4>2. c = -1
        BY <2>4, <4>1, FeedIs, Zenon
      <4>. QED
        BY <4>1, <4>2, FeedIs, <1>SingleAgain, Zenon
    <3>2. ASSUME ~past'.window
          PROVE  feed'.read = disk.cursor
      BY <2>9, <3>1, <3>2
    <3>. QED
      BY <2>6, <2>9, <2>10, <3>1, <3>2, Zenon DEF OnceInv
  <2>21. TrainingInv'
    BY <2>18, <2>19, <2>20, Zenon DEF TrainingInv
  <2>22. pump'.hand \subseteq relay.items \cup pump.hand /\ Indexed' \subseteq Indexed \cup {x.group : x \in pump.hand}
    BY <2>7, <2>8, Zenon
  <2>. QED
    BY <2>1, <2>11, <2>12, <2>13, <2>15, <2>16, <2>17, <2>21, <2>22, PumpStep, Zenon
<1>. QED
  BY <1>CutInv, <1>CrashInv, Zenon

(***************************************************************************)
(* The head restarts.                                                      *)
(***************************************************************************)
\* The facts about finite sets and numbers that the steps of the head and of
\* the pump use: they hold by lemma SetFactsHold, which stands behind those
\* steps with the library it cites.
SetFacts ==
  /\ IsFiniteSet({})
  /\ \A S : IsFiniteSet(S) => \A x : IsFiniteSet(S \cup {x})
  /\ \A S : IsFiniteSet(S) =>
       /\ Cardinality(S) \in Nat
       /\ \A T \in SUBSET S : IsFiniteSet(T) /\ Cardinality(T) <= Cardinality(S)
  /\ \A S \in SUBSET Nat : S # {} => \E m \in S : \A n \in S : m <= n

\* Queue, numbers, member table and connections are gone.
LEMMA RestartInv ==
  ASSUME SetFacts, Inv, Restart
  PROVE  Inv'
\* A new relay knows no number and has no items.
<1>SourceRestart.
  ASSUME NEW p \in Procs, NEW s \in Processes, NEW t \in Processes, NEW last \in Nat,
         NEW F, NEW items, NEW hand, NEW G,
         Sourced(p, s, last, F, items, hand, G), t.n = s.n
  PROVE  Sourced(p, t, 0, {}, {}, hand, G)
  BY <1>SourceRestart, Zenon DEF Sourced, Behind
\* A new relay knows no number.
<1>WrittenRestart.
  ASSUME NEW p \in Procs, NEW s \in Processes, NEW last \in Nat, NEW F, NEW K,
         Numbered(p, s, last, F), Written(p, s, last, K)
  PROVE  Written(p, s, 0, K)
  <2>. USE <1>WrittenRestart
  <2>1. Waits(s) => Number(s) > 0
    BY RelayAssumption DEF Numbered, Waits, Number, Processes
  <2>. QED
    BY <2>1 DEF Written, Number, Processes
\* A new relay.
<1>FreshRelayIs.
  ASSUME NEW e \in Nat \ {0}, NEW old \in SUBSET Procs
  PROVE  LET r == FreshRelay(e, old)
         IN  /\ r \in Relays /\ r.epoch = e /\ r.next = 1 /\ r.items = {}
             /\ \A p \in Procs : r.last[p] = 0
  BY <1>FreshRelayIs DEF FreshRelay, Relays
<1>. DEFINE t(p) == Unlinked(sampler[p])
<1>1. /\ relay \in Relays /\ sampler \in [Procs -> Processes] /\ pump \in Pumps /\ past \in Pasts
      /\ wire' = {} /\ sampler' = [p \in Procs |-> t(p)] /\ UNCHANGED <<disk, feed>>
      /\ pump' = Unplugged(pump)
      /\ past' = [past EXCEPT !.lost = @ \cup {x.group : x \in relay.items}]
  BY Zenon DEF Inv, TypeInv, Restart
<1>2. PICK old : relay' = FreshRelay(relay.epoch + 1, old) /\ old \in SUBSET Procs
  BY <1>1 DEF Restart, Relays
<1>3. /\ relay' \in Relays /\ relay'.epoch = relay.epoch + 1 /\ relay'.next = 1 /\ relay'.items = {}
      /\ (\A p \in Procs : relay'.last[p] = 0) /\ relay.epoch \in Nat
  <2>1. relay.epoch \in Nat /\ relay.epoch + 1 \in Nat \ {0}
    BY <1>1 DEF Relays
  <2>. QED
    BY <1>2, <2>1, <1>FreshRelayIs
<1>4. \A p \in Procs : sampler[p].state \in {"put", "connect"} => sampler[p].seq >= 1
  BY Zenon DEF Inv, DeliveryInv, NumberInv, Numbered
<1>5. \A p \in Procs : /\ t(p) \in Processes /\ Moves(sampler[p], t(p)) /\ t(p).state # "put"
                       /\ t(p).written = sampler[p].written /\ sampler'[p] = t(p)
  BY <1>1, <1>4, UnlinkedIs, Zenon
<1>. HIDE DEF t
<1>6. /\ pump' \in Pumps /\ ~pump'.open /\ pump'.at # "take"
      /\ pump'.at = pump.at \/ (pump.at = "take" /\ pump'.at = "idle")
      /\ pump'.known = pump.known /\ pump'.hand = pump.hand /\ pump'.after = pump.after
      /\ pump'.acked = pump.acked /\ pump'.epoch = pump.epoch
  BY <1>1, UnpluggedIs, Zenon
<1>7. /\ past' \in Pasts /\ past'.lost = past.lost \cup Queued /\ past'.skipped = past.skipped
      /\ past'.trained = past.trained /\ past'.dropped = past.dropped /\ past'.window = past.window
  <2>1. Queued \in SUBSET Groups
    BY PartsAre, ItemIs, Zenon DEF Inv, Queued
  <2>2. past' = [past EXCEPT !.lost = past.lost \cup Queued]
    BY <1>1, Zenon DEF Queued
  <2>3. past.lost \cup Queued \in SUBSET Groups
    BY <1>1, <2>1, Zenon DEF Pasts
  <2>. DEFINE lost == past.lost \cup Queued
  <2>. HIDE DEF lost
  <2>4. past' \in Pasts
    BY <1>1, <2>2, <2>3, Zenon DEF Pasts
  <2>. QED
    BY <1>1, <2>2, <2>4, Zenon DEF Pasts
<1>8. TypeInv'
  BY <1>1, <1>3, <1>5, <1>6, <1>7, Zenon DEF Inv, TypeInv
<1>9. Indexed' = Indexed /\ Done' = Done /\ Safe \subseteq Safe'
  BY <1>1, <1>7, Zenon DEF Indexed, Done, Safe
<1>10. TakeFrames' = {} /\ \A p \in Procs : FramesOf(p)' = {}
  BY <1>1, Zenon DEF TakeFrames, FramesOf
<1>11. ASSUME NEW p \in Procs
       PROVE  /\ Numbered(p, t(p), 0, {}) /\ Sourced(p, t(p), 0, {}, {}, pump.hand, Indexed)
              /\ Written(p, t(p), 0, Safe')
  <2>1. /\ sampler[p] \in Processes /\ relay.last[p] \in Nat /\ FramesOf(p) \in SUBSET Puts
        /\ {} \in SUBSET Puts
    BY PartsAre, FramesAre, Zenon DEF Inv
  <2>2. /\ Numbered(p, sampler[p], relay.last[p], FramesOf(p)) /\ Written(p, sampler[p], relay.last[p], Safe)
        /\ Sourced(p, sampler[p], relay.last[p], FramesOf(p), relay.items, pump.hand, Indexed)
    BY Zenon DEF Inv, DeliveryInv, NumberInv, SourceInv, WrittenInv
  <2>3. Thins({}, FramesOf(p)) /\ \A e \in {} : ~e.live
    BY Zenon DEF Thins
  <2>4. Numbered(p, t(p), relay.last[p], {})
    BY <1>5, <2>1, <2>2, <2>3, NumberMoves, Zenon
  <2>5. Numbered(p, t(p), 0, {})
    <3>1. Top(t(p)) >= 0
      BY <1>5 DEF Top, Processes
    <3>. QED
      BY <2>4, <3>1, Zenon DEF Numbered
  <2>6. Written(p, t(p), relay.last[p], Safe')
    BY <1>5, <1>9, <2>2, WrittenMoves, WrittenMore, Zenon
  <2>7. Written(p, t(p), 0, Safe')
    BY <1>5, <2>1, <2>4, <2>6, <1>WrittenRestart, ZenonT(30)
  <2>8. t(p).n = sampler[p].n
    BY <1>5, Zenon DEF Moves
  <2>9. Sourced(p, t(p), 0, {}, {}, pump.hand, Indexed)
    BY <1>5, <2>1, <2>2, <2>8, <1>SourceRestart, Zenon
  <2>. QED
    BY <2>5, <2>7, <2>9, Zenon
<1>12. NumberInv' /\ SourceInv' /\ WrittenInv'
  <2>1. ASSUME NEW p \in Procs
        PROVE  /\ Numbered(p, sampler'[p], relay'.last[p], FramesOf(p)')
               /\ Sourced(p, sampler'[p], relay'.last[p], FramesOf(p)', relay'.items, pump'.hand, Indexed')
               /\ Written(p, sampler'[p], relay'.last[p], Safe')
    <3>1. /\ sampler'[p] = t(p) /\ relay'.last[p] = 0 /\ FramesOf(p)' = {} /\ relay'.items = {}
          /\ pump'.hand = pump.hand /\ Indexed' = Indexed
      BY <1>3, <1>5, <1>6, <1>9, <1>10, Zenon
    <3>. QED
      BY <1>11, <3>1, ZenonT(30)
  <2>. QED
    BY <2>1, Zenon DEF NumberInv, SourceInv, WrittenInv
<1>13. QueueInv'
  <2>1. Queue(relay.items, relay.next, pump.hand, Indexed, Done)
    BY Zenon DEF Inv, DeliveryInv, QueueInv
  <2>2. Queue({}, 1, pump.hand, Indexed, Done)
    BY <2>1, Zenon DEF SetFacts, Queue, Ordered, Turn
  <2>. QED
    BY <1>3, <1>6, <1>9, <2>2, Zenon DEF QueueInv
<1>14. PumpInv'
  <2>1. Pumped(pump, relay.epoch, relay.next, relay.items, Indexed, Done)
    BY Zenon DEF Inv, DeliveryInv, PumpInv
  <2>2. pump'.epoch <= relay'.epoch /\ pump'.epoch # relay'.epoch
    BY <1>1, <1>3, <1>6, <2>1 DEF Pumped, Pumps
  <2>. QED
    BY <1>6, <1>9, <2>1, <2>2, Zenon DEF PumpInv, Pumped
<1>15. TakeInv'
  BY <1>10, Zenon DEF TakeInv, Asked
<1>16. TrainingInv'
  BY <1>1, <1>7, TrainingSame, Zenon DEF Inv
<1>. QED
  BY <1>8, <1>12, <1>13, <1>14, <1>15, <1>16, Zenon DEF Inv, DeliveryInv

=============================================================================
