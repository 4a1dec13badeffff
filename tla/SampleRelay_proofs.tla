------------------------- MODULE SampleRelay_proofs -------------------------
(***************************************************************************)
(* The way of a rollout group from a sampler to a training round, for any  *)
(* number of processes, groups, queue places and rounds and any faults:    *)
(* the steps of the head that handles PUT and TAKE and of the pump with a  *)
(* batch keep the invariant of SampleRelay_invariant, and what it says.    *)
(***************************************************************************)
EXTENDS SampleRelay_invariant

(***************************************************************************)
(* The head handles a PUT or a TAKE.                                       *)
(***************************************************************************)

\* The head handles a PUT.
LEMMA ServePutInv ==
  ASSUME SetFacts
  PROVE  \A f \in wire : Inv /\ HandlePut(f) => Inv'
\* An item of process p is queued.
<1>SourcePut.
  ASSUME NEW p \in Procs, NEW s \in Processes, NEW last \in Nat, NEW F \in SUBSET Puts,
         NEW items \in SUBSET Items, NEW hand, NEW G, NEW f \in F, NEW x,
         Numbered(p, s, last, F), Sourced(p, s, last, F, items, hand, G),
         last < f.seq, x.group = f.group
  PROVE  Sourced(p, s, f.seq, F, items \cup {x}, hand, G)
  <2>. USE <1>SourcePut
  <2>0. s.n \in Nat /\ s.seq \in Nat /\ Number(s) \in Nat
    BY RelayAssumption DEF Processes, Number
  <2>1. \A h \in F : h.seq \in Nat /\ h.group[2] \in Nat
    BY RelayAssumption DEF Puts, Groups
  <2>2. f.group[2] <= s.n /\ (Waits(s) /\ f.seq < Number(s) => f.group[2] < s.n)
    BY Zenon DEF Numbered, Fits
  <2>3. Behind(p, s.n + 1, items \cup {x}, hand, G)
    BY <2>0, <2>1, <2>2 DEF Sourced, Behind
  <2>4. ASSUME NEW h \in F, f.seq < h.seq
        PROVE  Behind(p, h.group[2], items \cup {x}, hand, G)
    <3>1. Behind(p, h.group[2], items, hand, G) /\ f.group[2] < h.group[2]
      BY <2>1, <2>4 DEF Sourced, Numbered
    <3>. QED
      BY <3>1, Zenon DEF Behind
  <2>5. ASSUME Waits(s), f.seq < Number(s)
        PROVE  Behind(p, s.n, items \cup {x}, hand, G)
    <3>1. Behind(p, s.n, items, hand, G) /\ f.group[2] < s.n
      BY <2>0, <2>1, <2>2, <2>5 DEF Sourced
    <3>. QED
      BY <3>1, Zenon DEF Behind
  <2>. QED
    BY <2>3, <2>4, <2>5, Zenon DEF Sourced
\* An item of another process is queued.
<1>SourceOther.
  ASSUME NEW p, NEW s, NEW last, NEW F, NEW items, NEW hand, NEW G, NEW x,
         Sourced(p, s, last, F, items, hand, G), x.group[1] # p
  PROVE  Sourced(p, s, last, F, items \cup {x}, hand, G)
  <2>. USE <1>SourceOther
  <2>1. \A k : Behind(p, k, items, hand, G) => Behind(p, k, items \cup {x}, hand, G)
    BY Zenon DEF Behind
  <2>. QED
    BY <2>1, Zenon DEF Sourced
\* A group is kept when its number is taken.
<1>WrittenPut.
  ASSUME NEW p \in Procs, NEW s \in Processes, NEW last \in Nat, NEW F \in SUBSET Puts,
         NEW K, NEW f \in F, Numbered(p, s, last, F), Written(p, s, last, K)
  PROVE  Written(p, s, f.seq, K \cup {f.group})
  <2>. USE <1>WrittenPut
  <2>0. s.n \in Nat /\ s.seq \in Nat /\ f.seq \in Nat
    BY RelayAssumption DEF Processes, Puts
  <2>1. ASSUME Waits(s), Number(s) <= f.seq, ~s.gaveBack PROVE f.group = <<p, s.n>>
    <3>1. f.seq <= Top(s) /\ Top(s) = Number(s)
      BY <2>1, Zenon DEF Numbered, Fits, Top, Waits, Number
    <3>2. f.seq = Number(s) /\ f.group[1] = p
      BY <2>0, <2>1, <3>1 DEF Numbered, Fits, Number
    <3>3. f.group[2] = s.n
      BY <2>1, <3>2, Zenon DEF Numbered, Fits
    <3>4. f.group = <<f.group[1], f.group[2]>>
      BY DEF Puts, Groups
    <3>. QED
      BY <3>2, <3>3, <3>4, Zenon
  <2>. QED
    BY <2>1, Zenon DEF Written
\* The answer to the frame a process waits for: its group is kept, if it counts.
<1>WrittenAnswered.
  ASSUME NEW p \in Procs, NEW s \in Processes, NEW last \in Nat, NEW F \in SUBSET Puts,
         NEW K, NEW f \in F, f.live, NEW t,
         Numbered(p, s, last, F), Written(p, s, last, K), Moves(s, t),
         \/ t.written = s.written
         \/ t.written = s.written \cup {f.group} /\ f.seq <= last /\ ~Waits(t)
  PROVE  Written(p, t, last, K)
  <2>. USE <1>WrittenAnswered
  <2>1. CASE t.written = s.written
    BY <2>1, WrittenMoves, Zenon
  <2>2. CASE t.written = s.written \cup {f.group} /\ f.seq <= last /\ ~Waits(t)
    <3>1. s.state = "put" /\ f.seq = s.seq /\ f.group[2] = s.n /\ f.group[1] = p
      BY Zenon DEF Numbered, Fits
    <3>2. f.group = <<f.group[1], f.group[2]>>
      BY DEF Puts, Groups
    <3>3. f.group = <<p, s.n>> /\ Waits(s) /\ Number(s) = s.seq
      BY <3>1, <3>2, Zenon DEF Waits, Number
    <3>4. f.group \in K \/ s.gaveBack
      BY <2>2, <3>1, <3>3 DEF Written
    <3>5. s.gaveBack => t.gaveBack
      BY Zenon DEF Moves
    <3>. QED
      BY <2>2, <3>1, <3>4, <3>5, Zenon DEF Written
  <2>. QED
    BY <2>1, <2>2, Zenon
\* A new item is behind every item and every group of its process.
<1>QueuePut.
  ASSUME NEW items \in SUBSET Items, NEW next \in Nat, NEW hand \in SUBSET Items,
         NEW G \in SUBSET Groups, NEW done, G \subseteq done, NEW x \in Items, x.id = next,
         Queue(items, next, hand, G, done), Behind(x.group[1], x.group[2], items, hand, G)
  PROVE  Queue(items \cup {x}, next + 1, hand, G, done)
  <2>. USE <1>QueuePut
  <2>0. /\ \A y \in items \cup hand : y.id \in Nat /\ y.group[2] \in Nat
        /\ x.id \in Nat /\ x.group[2] \in Nat /\ x.group = <<x.group[1], x.group[2]>>
    BY ItemIs, Zenon
  <2>1. IsFiniteSet(items \cup {x})
    BY Zenon DEF SetFacts, Queue
  <2>2. \A y \in items : y.id < next
    BY Zenon DEF Queue
  <2>3. \A y \in items \cup {x} : y.id < next + 1
    BY <2>0, <2>2
  <2>4. Ordered(items \cup {x})
    <3>1. Ordered(items) /\ \A y \in items : y.group[1] = x.group[1] => y.group[2] < x.group[2]
      BY Zenon DEF Queue, Behind
    <3>. QED
      BY <2>0, <2>2, <3>1 DEF Ordered
  <2>5. ASSUME x.group \notin done PROVE Above(x.group, G)
    <3>1. ASSUME NEW h \in G, h[1] = x.group[1] PROVE h[2] < x.group[2]
      <4>1. h[2] <= x.group[2] /\ h[2] \in Nat /\ h = <<h[1], h[2]>>
        BY <3>1, RelayAssumption DEF Behind, Groups
      <4>2. h[2] # x.group[2]
        BY <2>0, <2>5, <3>1, <4>1, Zenon
      <4>. QED
        BY <2>0, <4>1, <4>2
    <3>. QED
      BY <3>1, Zenon DEF Above
  <2>6. ASSUME NEW z \in hand PROVE Turn(z.group, items \cup {x}, hand, done)
    <3>1. Turn(z.group, items, hand, done)
      BY Zenon DEF Queue
    <3>2. ~(x.group[1] = z.group[1] /\ x.group[2] < z.group[2])
      <4>1. z.group[1] = x.group[1] => z.group[2] <= x.group[2]
        BY Zenon DEF Behind
      <4>. QED
        BY <2>0, <4>1
    <3>. QED
      BY <3>1, <3>2, Zenon DEF Turn
  <2>7. Ordered(hand) /\ \A y \in items \cup hand : y.group \notin done => Above(y.group, G)
    BY Zenon DEF Queue
  <2>. QED
    BY <2>1, <2>3, <2>4, <2>5, <2>6, <2>7, Zenon DEF Queue
\* An item is queued behind everything the pump knows of.
<1>PumpPut.
  ASSUME NEW q \in Pumps, NEW epoch \in Nat, NEW next \in Nat, NEW items, NEW G, NEW done,
         NEW x, x.id = next, Pumped(q, epoch, next, items, G, done)
  PROVE  Pumped(q, epoch, next + 1, items \cup {x}, G, done)
  <2>. USE <1>PumpPut
  <2>0. q.after \in Nat /\ q.acked \in Nat /\ q.acked <= q.after
    BY Zenon DEF Pumps, Pumped
  <2>1. ASSUME q.epoch = epoch
        PROVE  /\ q.after < next + 1
               /\ \A y \in items \cup {x} : /\ y.id <= q.after => y.group \in done \/ y \in q.hand
                                            /\ y.id <= q.acked => y.group \in done
    <3>1. /\ q.after < next
          /\ \A y \in items : /\ y.id <= q.after => y.group \in done \/ y \in q.hand
                              /\ y.id <= q.acked => y.group \in done
      BY <2>1, Zenon DEF Pumped
    <3>2. ~(x.id <= q.after) /\ ~(x.id <= q.acked) /\ q.after < next + 1
      BY <2>0, <3>1
    <3>. QED
      BY <3>1, <3>2, Zenon
  <2>. QED
    BY <2>1, Zenon DEF Pumped
\* An item is queued behind everything a TAKE names.
<1>AskedPut.
  ASSUME NEW W \in SUBSET Takes, NEW q, NEW epoch, NEW next \in Nat, NEW items, NEW done,
         NEW x, x.id = next, Asked(W, q, epoch, next, items, done)
  PROVE  Asked(W, q, epoch, next + 1, items \cup {x}, done)
  <2>. USE <1>AskedPut
  <2>1. \A f \in W : f.ack \in Nat /\ f.after \in Nat /\ f.ack < next /\ f.after < next
    BY Zenon DEF Takes, Asked
  <2>2. \A f \in W : f.ack < next + 1 /\ f.after < next + 1 /\ ~(x.id <= f.ack)
    BY <2>1
  <2>3. \A f \in W : \A y \in items \cup {x} : y.id <= f.ack => y.group \in done
    BY <2>2, Zenon DEF Asked
  <2>. QED
    BY <2>2, <2>3, Zenon DEF Asked
\* A frame is known by its fields.
<1>SamePut.
  ASSUME NEW e \in Puts, NEW f \in Puts, e.proc = f.proc, e.seq = f.seq,
         e.group[1] = f.group[1], e.group[2] = f.group[2], e.live, f.live
  PROVE  e = f
  <2>. USE <1>SamePut
  <2>1. /\ e = [kind |-> e.kind, proc |-> e.proc, seq |-> e.seq, group |-> e.group, live |-> e.live]
        /\ f = [kind |-> f.kind, proc |-> f.proc, seq |-> f.seq, group |-> f.group, live |-> f.live]
        /\ e.kind = f.kind
    BY Zenon DEF Puts
  <2>2. e.group = f.group
    BY DEF Puts, Groups
  <2>3. e.live = f.live
    BY Zenon DEF Puts
  <2>. QED
    BY <2>1, <2>2, <2>3, Zenon
\* Process s learns the answer to its frame f, as t, or was not waiting for it.
<1>AnswerIs.
  ASSUME NEW p \in Procs, NEW s \in Processes, NEW last \in Nat, NEW F \in SUBSET Puts,
         NEW items, NEW hand, NEW G, NEW K, NEW f \in F, \A e \in F : e.proc = p,
         Numbered(p, s, last, F), Sourced(p, s, last, F, items, hand, G), Written(p, s, last, K),
         NEW t \in Processes,
         \/ ~f.live /\ t = s
         \/ f.live /\ t.n = s.n /\ t.gaveBack = s.gaveBack /\ t.written = s.written
              /\ ((t.state = "over" /\ t.seq = s.seq) \/ (t.state = "full" /\ t.seq = s.seq - 1))
         \/ f.live /\ t.n = s.n /\ t.gaveBack = s.gaveBack /\ t.state = "idle" /\ t.seq = s.seq
              /\ t.written = s.written \cup {f.group} /\ f.seq <= last
  PROVE  /\ Numbered(p, t, last, F \ {f}) /\ Sourced(p, t, last, F \ {f}, items, hand, G)
         /\ Written(p, t, last, K)
  <2>. USE <1>AnswerIs
  <2>0. s.seq \in Nat /\ t.seq \in Nat /\ s.n \in Nat
    BY RelayAssumption DEF Processes
  <2>1. s.state \in {"put", "connect"} => s.seq >= 1
    BY Zenon DEF Numbered
  <2>2. f.live => s.state = "put"
    BY Zenon DEF Numbered, Fits
  <2>3. Moves(s, t)
    BY <2>0, <2>1, <2>2 DEF Moves, Waits, Number, Top
  <2>4. Thins(F \ {f}, F)
    BY Zenon DEF Thins
  <2>5. ASSUME t.state # "put", NEW e \in F \ {f} PROVE ~e.live
    <3>1. e.live => s.state = "put"
      BY Zenon DEF Numbered, Fits
    <3>2. e.live => f.live
      BY <2>5, <3>1, Zenon
    <3>3. e.live /\ f.live => e.seq = f.seq /\ e.group[1] = f.group[1] /\ e.group[2] = f.group[2]
      BY Zenon DEF Numbered, Fits
    <3>. QED
      BY <2>5, <3>2, <3>3, <1>SamePut, Zenon
  <2>6. Numbered(p, t, last, F \ {f})
    BY <2>3, <2>4, <2>5, NumberMoves, Zenon
  <2>7. Sourced(p, t, last, F \ {f}, items, hand, G)
    BY <2>3, <2>4, SourceMoves, Zenon
  <2>8. Written(p, t, last, K)
    <3>1. CASE f.live
      <4>1. \/ t.written = s.written
            \/ t.written = s.written \cup {f.group} /\ f.seq <= last /\ ~Waits(t)
        BY <3>1, Zenon DEF Waits
      <4>. QED
        BY <2>3, <3>1, <4>1, <1>WrittenAnswered, Zenon
    <3>2. CASE ~f.live
      BY <3>2, Zenon
    <3>. QED
      BY <3>1, <3>2, Zenon
  <2>. QED
    BY <2>6, <2>7, <2>8, Zenon
\* Relay::put stores an item.
<1>StoredIs.
  ASSUME NEW r \in Relays, NEW f \in Puts, PutStatus(r, f) = "stored"
  PROVE  LET x == [id |-> r.next, group |-> f.group]
         IN  /\ AfterPut(r, f) \in Relays /\ x \in Items /\ x.id = r.next /\ x.group = f.group
             /\ AfterPut(r, f).items = r.items \cup {x} /\ AfterPut(r, f).next = r.next + 1
             /\ AfterPut(r, f).last[f.proc] = f.seq /\ AfterPut(r, f).epoch = r.epoch
             /\ \A q \in Procs : q # f.proc => AfterPut(r, f).last[q] = r.last[q]
             /\ r.last[f.proc] < f.seq
  <2>. USE <1>StoredIs
  <2>. DEFINE x == [id |-> r.next, group |-> f.group]
              items == r.items \cup {x}
              next == r.next + 1
              last == [r.last EXCEPT ![f.proc] = f.seq]
  <2>1. f.proc \in Procs /\ f.seq \in Nat /\ f.group \in Groups
    BY Zenon DEF Puts
  <2>2. x \in Items /\ x.id = r.next /\ x.group = f.group
    BY <2>1, Zenon DEF Items, Relays
  <2>3. items \in SUBSET Items /\ next \in Nat \ {0} /\ last \in [Procs -> Nat]
    <3>. HIDE DEF x
    <3>. QED
      BY <2>1, <2>2 DEF Relays
  <2>4. last[f.proc] = f.seq /\ \A q \in Procs : q # f.proc => last[q] = r.last[q]
    BY <2>1, Zenon DEF Relays
  <2>5. AfterPut(r, f) = [r EXCEPT !.items = items, !.next = next, !.last = last]
    BY Zenon DEF AfterPut
  <2>. HIDE DEF items, next, last
  <2>6. AfterPut(r, f) \in Relays
    BY <2>3, <2>5, Zenon DEF Relays
  <2>7. /\ AfterPut(r, f).items = items /\ AfterPut(r, f).next = next /\ AfterPut(r, f).last = last
        /\ AfterPut(r, f).epoch = r.epoch
    BY <2>5 DEF Relays
  <2>8. r.last[f.proc] < f.seq
    <3>1. ~Duplicate(r, f)
      BY Zenon DEF PutStatus
    <3>. QED
      BY <2>1, <3>1 DEF Duplicate, Relays
  <2>. QED
    BY <2>2, <2>4, <2>6, <2>7, <2>8, Zenon DEF items, next
\* The process after the answer.
<1>AnsweredIs.
  ASSUME NEW s \in Processes, NEW status \in {"duplicate", "full", "stored"}, NEW g \in Groups,
         s.seq >= 1
  PROVE  LET t == Answered(s, status, g)
         IN  /\ t \in Processes /\ t.n = s.n /\ t.gaveBack = s.gaveBack
             /\ status = "full" => t.state = "full" /\ t.seq = s.seq - 1 /\ t.written = s.written
             /\ status # "full" => t.state = "idle" /\ t.seq = s.seq /\ t.written = s.written \cup {g}
  <2>. USE <1>AnsweredIs
  <2>. DEFINE k == s.seq - 1
              w == s.written \cup {g}
  <2>1. k \in Nat /\ w \in SUBSET Groups
    BY DEF Processes
  <2>2. CASE status = "full"
    <3>1. Answered(s, status, g) = [s EXCEPT !.state = "full", !.seq = k]
      BY <2>2, Zenon DEF Answered
    <3>. HIDE DEF k
    <3>2. [s EXCEPT !.state = "full", !.seq = k] \in Processes
      BY <2>1, Zenon DEF Processes
    <3>3. /\ Answered(s, status, g).state = "full" /\ Answered(s, status, g).seq = k
          /\ Answered(s, status, g).n = s.n /\ Answered(s, status, g).gaveBack = s.gaveBack
          /\ Answered(s, status, g).written = s.written
      BY <3>1, Zenon DEF Processes
    <3>. QED
      BY <2>2, <3>1, <3>2, <3>3, Zenon DEF k
  <2>3. CASE status # "full"
    <3>1. Answered(s, status, g) = [s EXCEPT !.state = "idle", !.written = w]
      BY <2>3, Zenon DEF Answered
    <3>. HIDE DEF w
    <3>2. [s EXCEPT !.state = "idle", !.written = w] \in Processes
      BY <2>1, Zenon DEF Processes
    <3>3. /\ Answered(s, status, g).state = "idle" /\ Answered(s, status, g).seq = s.seq
          /\ Answered(s, status, g).n = s.n /\ Answered(s, status, g).gaveBack = s.gaveBack
          /\ Answered(s, status, g).written = w
      BY <3>1 DEF Processes
    <3>. QED
      BY <2>3, <3>1, <3>2, <3>3, Zenon DEF w
  <2>. QED
    BY <2>2, <2>3, Zenon
\* What the handling of a PUT does to the process that sent it.
<1>HandledIs.
  ASSUME Inv, NEW f \in wire, HandlePut(f)
  PROVE  /\ f \in Puts /\ f.proc \in Procs /\ f \in FramesOf(f.proc)
         /\ sampler' \in [Procs -> Processes]
         /\ \A q \in Procs : q # f.proc => sampler'[q] = sampler[q] /\ FramesOf(q)' = FramesOf(q)
         /\ FramesOf(f.proc)' = FramesOf(f.proc) \ {f} /\ TakeFrames' = TakeFrames
         /\ wire' \subseteq Puts \cup Takes
         /\ relay' = relay \/ (PutStatus(relay, f) = "stored" /\ relay' = AfterPut(relay, f))
         /\ LET s == sampler[f.proc]  t == sampler'[f.proc]
            IN  \/ ~f.live /\ t = s
                \/ f.live /\ t.n = s.n /\ t.gaveBack = s.gaveBack /\ t.written = s.written
                     /\ ((t.state = "over" /\ t.seq = s.seq) \/ (t.state = "full" /\ t.seq = s.seq - 1))
                \/ f.live /\ t.n = s.n /\ t.gaveBack = s.gaveBack /\ t.state = "idle" /\ t.seq = s.seq
                     /\ t.written = s.written \cup {f.group} /\ relay.current = f.proc
                     /\ PutStatus(relay, f) \in {"stored", "duplicate"}
  <2>. USE <1>HandledIs
  <2>. DEFINE p == f.proc
              s == sampler[p]
              t == sampler'[p]
  <2>1. f \in Puts /\ p \in Procs /\ f.kind = "put" /\ f.group \in Groups /\ f.live \in BOOLEAN
    BY Zenon DEF HandlePut, Inv, TypeInv, Puts, Takes
  <2>2. f \in FramesOf(p) /\ wire' = wire \ {f}
    BY <2>1, Zenon DEF FramesOf, HandlePut
  <2>3. /\ \A q \in Procs : q # p => FramesOf(q)' = FramesOf(q)
        /\ FramesOf(p)' = FramesOf(p) \ {f} /\ TakeFrames' = TakeFrames /\ wire' \subseteq Puts \cup Takes
    BY <2>1, <2>2, Zenon DEF FramesOf, TakeFrames, Inv, TypeInv
  <2>4. sampler \in [Procs -> Processes] /\ s \in Processes
    BY <2>1, Zenon DEF Inv, TypeInv
  <2>5. f.live => s.state = "put" /\ s.seq >= 1
    BY <2>1, <2>2, Zenon DEF Inv, DeliveryInv, NumberInv, Numbered, Fits
  <2>6. PutStatus(relay, f) \in {"duplicate", "full", "stored"}
    BY Zenon DEF PutStatus
  <2>7. relay' = relay \/ (PutStatus(relay, f) = "stored" /\ relay' = AfterPut(relay, f))
    BY Zenon DEF HandlePut, AfterPut
  <2>8. CASE ~f.live
    <3>1. sampler' = sampler
      BY <2>8, Zenon DEF HandlePut
    <3>. QED
      BY <2>1, <2>2, <2>3, <2>4, <2>7, <2>8, <3>1, Zenon
  <2>9. CASE f.live /\ relay.current # p
    <3>. DEFINE v == [s EXCEPT !.state = "over", !.open = FALSE]
    <3>1. sampler' = [sampler EXCEPT ![p] = v]
      BY <2>9, Zenon DEF HandlePut
    <3>2. v \in Processes
      BY <2>4, Zenon DEF Processes
    <3>3. v.n = s.n /\ v.gaveBack = s.gaveBack /\ v.written = s.written /\ v.state = "over" /\ v.seq = s.seq
      BY <2>4, Zenon DEF Processes
    <3>. HIDE DEF v
    <3>4. t = v /\ sampler' \in [Procs -> Processes] /\ \A q \in Procs : q # p => sampler'[q] = sampler[q]
      BY <2>1, <2>4, <3>1, <3>2, Zenon
    <3>. QED
      BY <2>1, <2>2, <2>3, <2>7, <2>9, <3>3, <3>4, Zenon
  <2>10. CASE f.live /\ relay.current = p
    <3>. DEFINE v == Answered(s, PutStatus(relay, f), f.group)
    <3>1. sampler' = [sampler EXCEPT ![p] = v]
      BY <2>10, Zenon DEF HandlePut
    <3>2. /\ v \in Processes /\ v.n = s.n /\ v.gaveBack = s.gaveBack
          /\ PutStatus(relay, f) = "full" => v.state = "full" /\ v.seq = s.seq - 1 /\ v.written = s.written
          /\ PutStatus(relay, f) # "full" => /\ v.state = "idle" /\ v.seq = s.seq
                                             /\ v.written = s.written \cup {f.group}
      BY <2>1, <2>4, <2>5, <2>6, <2>10, <1>AnsweredIs
    <3>. HIDE DEF v
    <3>4. t = v /\ sampler' \in [Procs -> Processes] /\ \A q \in Procs : q # p => sampler'[q] = sampler[q]
      BY <2>1, <2>4, <3>1, <3>2, Zenon
    <3>. QED
      BY <2>1, <2>2, <2>3, <2>6, <2>7, <2>10, <3>2, <3>4, Zenon
  <2>. QED
    BY <2>1, <2>8, <2>9, <2>10, Zenon
\* The head handles a PUT.
<1>HandlePutInv.
  ASSUME Inv, NEW f \in wire, HandlePut(f)
  PROVE  Inv'
  <2>. USE <1>HandlePutInv
  <2>. DEFINE p == f.proc
              s == sampler[p]
              t == sampler'[p]
              F == FramesOf(p)
              E == F \ {f}
  <2>1. /\ f \in Puts /\ p \in Procs /\ f \in F /\ sampler' \in [Procs -> Processes] /\ TakeFrames' = TakeFrames
        /\ \A q \in Procs : q # p => sampler'[q] = sampler[q] /\ FramesOf(q)' = FramesOf(q)
        /\ FramesOf(p)' = E /\ wire' \subseteq Puts \cup Takes
        /\ relay' = relay \/ (PutStatus(relay, f) = "stored" /\ relay' = AfterPut(relay, f))
    BY <1>HandledIs, Zenon
  <2>2. \/ ~f.live /\ t = s
        \/ f.live /\ t.n = s.n /\ t.gaveBack = s.gaveBack /\ t.written = s.written
             /\ ((t.state = "over" /\ t.seq = s.seq) \/ (t.state = "full" /\ t.seq = s.seq - 1))
        \/ f.live /\ t.n = s.n /\ t.gaveBack = s.gaveBack /\ t.state = "idle" /\ t.seq = s.seq
             /\ t.written = s.written \cup {f.group} /\ relay.current = p
             /\ PutStatus(relay, f) \in {"stored", "duplicate"}
    BY <1>HandledIs, Zenon
  <2>3. /\ relay \in Relays /\ s \in Processes /\ t \in Processes /\ F \in SUBSET Puts
        /\ UNCHANGED <<pump, disk, feed, past>>
    BY <2>1, FramesAre, Zenon DEF Inv, TypeInv, HandlePut
  <2>4. \A e \in F : e.proc = p
    BY Zenon DEF FramesOf
  <2>5. /\ Numbered(p, s, relay.last[p], F) /\ Written(p, s, relay.last[p], Safe)
        /\ Sourced(p, s, relay.last[p], F, relay.items, pump.hand, Indexed)
    BY <2>1, Zenon DEF Inv, DeliveryInv, NumberInv, SourceInv, WrittenInv
  <2>6. relay.last[p] \in Nat /\ f.seq \in Nat
    BY <2>1, <2>3, Zenon DEF Relays, Puts
  <2>. HIDE DEF p, s, t, F, E
  <2>7. CASE relay' = relay
    <3>1. TypeInv'
      BY <2>1, <2>3, <2>7, Zenon DEF Inv, TypeInv
    <3>2. PutStatus(relay, f) = "duplicate" => f.seq <= relay.last[p]
      BY Zenon DEF PutStatus, Duplicate, p
    <3>3. PutStatus(relay, f) = "stored" /\ relay.current = p => FALSE
      <4>1. ASSUME PutStatus(relay, f) = "stored", relay.current = p PROVE FALSE
        <5>1. relay' = AfterPut(relay, f)
          BY <4>1, Zenon DEF HandlePut, p
        <5>2. relay'.last[p] = f.seq /\ relay.last[p] < f.seq
          BY <2>1, <2>3, <4>1, <5>1, <1>StoredIs, Zenon DEF p
        <5>. QED
          BY <2>6, <2>7, <5>2
      <4>. QED
        BY <4>1, Zenon
    <3>4. \/ ~f.live /\ t = s
          \/ f.live /\ t.n = s.n /\ t.gaveBack = s.gaveBack /\ t.written = s.written
               /\ ((t.state = "over" /\ t.seq = s.seq) \/ (t.state = "full" /\ t.seq = s.seq - 1))
          \/ f.live /\ t.n = s.n /\ t.gaveBack = s.gaveBack /\ t.state = "idle" /\ t.seq = s.seq
               /\ t.written = s.written \cup {f.group} /\ f.seq <= relay.last[p]
      BY <2>2, <3>2, <3>3, Zenon
    <3>5. /\ Numbered(p, t, relay.last[p], E) /\ Written(p, t, relay.last[p], Safe)
          /\ Sourced(p, t, relay.last[p], E, relay.items, pump.hand, Indexed)
      BY <2>1, <2>3, <2>4, <2>5, <2>6, <3>4, <1>AnswerIs, Zenon DEF E
    <3>6. /\ Numbered(p, sampler'[p], relay.last[p], FramesOf(p)') /\ Written(p, sampler'[p], relay.last[p], Safe)
          /\ Sourced(p, sampler'[p], relay.last[p], FramesOf(p)', relay.items, pump.hand, Indexed)
      BY <2>1, <3>5, Zenon DEF t
    <3>. QED
      BY <2>1, <2>3, <2>7, <3>1, <3>6, ProcessStep, Zenon
  <2>8. CASE PutStatus(relay, f) = "stored" /\ relay' = AfterPut(relay, f)
    <3>. DEFINE x == [id |-> relay.next, group |-> f.group]
                items == relay.items \cup {x}
                safe == Safe \cup {f.group}
    <3>1. /\ relay' \in Relays /\ x \in Items /\ x.id = relay.next /\ x.group = f.group
          /\ relay'.items = items /\ relay'.next = relay.next + 1 /\ relay'.last[p] = f.seq
          /\ relay'.epoch = relay.epoch /\ relay.last[p] < f.seq
          /\ \A q \in Procs : q # p => relay'.last[q] = relay.last[q]
      BY <2>1, <2>3, <2>8, <1>StoredIs, Zenon DEF p
    <3>2. TypeInv'
      BY <2>1, <2>3, <3>1, Zenon DEF Inv, TypeInv
    <3>3. /\ relay.items \in SUBSET Items /\ relay.next \in Nat /\ relay.epoch \in Nat /\ pump \in Pumps
          /\ pump.hand \in SUBSET Items /\ Indexed \in SUBSET Groups /\ Indexed \subseteq Done
          /\ TakeFrames \in SUBSET Takes
      BY PartsAre, FramesAre, Zenon DEF Inv, TypeInv
    <3>4. Indexed' = Indexed /\ Done' = Done
      BY <2>3, Zenon DEF Indexed, Done
    <3>. HIDE DEF x
    <3>5. Safe' = safe
      BY <2>3, <3>1, <3>4 DEF Safe, Queued
    <3>6. Numbered(p, s, f.seq, F)
      BY <2>1, <2>5, Zenon DEF Numbered, Fits
    <3>7. Sourced(p, s, f.seq, F, items, pump.hand, Indexed)
      BY <2>1, <2>3, <2>5, <2>6, <3>1, <3>3, <1>SourcePut, Zenon
    <3>8. Written(p, s, f.seq, safe)
      BY <2>1, <2>3, <2>5, <2>6, <1>WrittenPut, Zenon
    <3>. HIDE DEF items, safe
    <3>9. \/ ~f.live /\ t = s
          \/ f.live /\ t.n = s.n /\ t.gaveBack = s.gaveBack /\ t.written = s.written
               /\ ((t.state = "over" /\ t.seq = s.seq) \/ (t.state = "full" /\ t.seq = s.seq - 1))
          \/ f.live /\ t.n = s.n /\ t.gaveBack = s.gaveBack /\ t.state = "idle" /\ t.seq = s.seq
               /\ t.written = s.written \cup {f.group} /\ f.seq <= f.seq
      BY <2>2, <2>6
    <3>10. /\ Numbered(p, t, f.seq, E) /\ Written(p, t, f.seq, safe)
           /\ Sourced(p, t, f.seq, E, items, pump.hand, Indexed)
      BY <2>1, <2>3, <2>4, <2>6, <3>6, <3>7, <3>8, <3>9, <1>AnswerIs, Zenon DEF E
    <3>11. NumberInv'
      <4>1. \A q \in Procs : Numbered(q, sampler[q], relay.last[q], FramesOf(q))
        BY Zenon DEF Inv, DeliveryInv, NumberInv
      <4>2. \A q \in Procs : Numbered(q, sampler'[q], relay'.last[q], FramesOf(q)')
        BY <2>1, <3>1, <3>10, <4>1, Zenon DEF t
      <4>. QED
        BY <4>2, Zenon DEF NumberInv
    <3>12. SourceInv'
      <4>1. \A q \in Procs : Sourced(q, sampler[q], relay.last[q], FramesOf(q), relay.items, pump.hand, Indexed)
        BY Zenon DEF Inv, DeliveryInv, SourceInv
      <4>2. x.group[1] = p
        BY <2>1, <2>5, <3>1, Zenon DEF Numbered, Fits
      <4>3. ASSUME NEW q \in Procs, q # p
            PROVE  Sourced(q, sampler[q], relay.last[q], FramesOf(q), items, pump.hand, Indexed)
        BY <4>1, <4>2, <4>3, <1>SourceOther, Zenon DEF items
      <4>4. \A q \in Procs :
              Sourced(q, sampler'[q], relay'.last[q], FramesOf(q)', relay'.items, pump'.hand, Indexed')
        BY <2>1, <2>3, <3>1, <3>4, <3>10, <4>3, Zenon DEF t
      <4>. QED
        BY <4>4, Zenon DEF SourceInv
    <3>13. WrittenInv'
      <4>1. \A q \in Procs : Written(q, sampler[q], relay.last[q], Safe)
        BY Zenon DEF Inv, DeliveryInv, WrittenInv
      <4>2. \A q \in Procs : Written(q, sampler[q], relay.last[q], safe)
        <5>1. Safe \subseteq safe
          BY Zenon DEF safe
        <5>. QED
          BY <4>1, <5>1, WrittenMore, Zenon
      <4>3. \A q \in Procs : Written(q, sampler'[q], relay'.last[q], Safe')
        BY <2>1, <3>1, <3>5, <3>10, <4>2, Zenon DEF t
      <4>. QED
        BY <4>3, Zenon DEF WrittenInv
    <3>14. QueueInv'
      <4>1. Queue(relay.items, relay.next, pump.hand, Indexed, Done)
        BY Zenon DEF Inv, DeliveryInv, QueueInv
      <4>2. Behind(x.group[1], x.group[2], relay.items, pump.hand, Indexed)
        BY <2>1, <2>5, <3>1, Zenon DEF Numbered, Fits, Sourced
      <4>3. Queue(items, relay.next + 1, pump.hand, Indexed, Done)
        BY <3>1, <3>3, <4>1, <4>2, <1>QueuePut, Zenon DEF items
      <4>. QED
        BY <2>3, <3>1, <3>4, <4>3, Zenon DEF QueueInv
    <3>15. PumpInv'
      <4>1. Pumped(pump, relay.epoch, relay.next, relay.items, Indexed, Done)
        BY Zenon DEF Inv, DeliveryInv, PumpInv
      <4>2. Pumped(pump, relay.epoch, relay.next + 1, items, Indexed, Done)
        BY <3>1, <3>3, <4>1, <1>PumpPut, Zenon DEF items
      <4>. QED
        BY <2>3, <3>1, <3>4, <4>2, Zenon DEF PumpInv
    <3>16. TakeInv'
      <4>1. Asked(TakeFrames, pump, relay.epoch, relay.next, relay.items, Done)
        BY Zenon DEF Inv, DeliveryInv, TakeInv
      <4>2. Asked(TakeFrames, pump, relay.epoch, relay.next + 1, items, Done)
        BY <3>1, <3>3, <4>1, <1>AskedPut, Zenon DEF items
      <4>. QED
        BY <2>1, <2>3, <3>1, <3>4, <4>2, Zenon DEF TakeInv
    <3>17. TrainingInv'
      BY <2>3, TrainingSame, Zenon DEF Inv
    <3>. QED
      BY <3>2, <3>11, <3>12, <3>13, <3>14, <3>15, <3>16, <3>17, Zenon DEF Inv, DeliveryInv
  <2>. QED
    BY <2>1, <2>7, <2>8, Zenon
<1>. QED
  BY <1>HandlePutInv, Zenon

\* Items are acknowledged, a batch is done with, more is done.
LEMMA QueueLess ==
  ASSUME SetFacts, NEW items, NEW next \in Nat, NEW hand, NEW G, NEW done,
         NEW items2 \in SUBSET items, NEW hand2 \in SUBSET hand, NEW done2,
         Queue(items, next, hand, G, done), done \subseteq done2,
         \A x \in hand \ hand2 : x.group \in done2
  PROVE  Queue(items2, next, hand2, G, done2)
<1>1. IsFiniteSet(items2)
  BY Zenon DEF SetFacts, Queue
<1>2. Ordered(items2) /\ Ordered(hand2)
  BY Zenon DEF Queue, Ordered
<1>3. \A x \in hand2 : Turn(x.group, items2, hand2, done2)
  <2>1. \A x \in hand : Turn(x.group, items, hand, done)
    BY Zenon DEF Queue
  <2>. QED
    BY <2>1, Zenon DEF Turn
<1>4. /\ \A x \in items2 : x.id < next
      /\ \A x \in items2 \cup hand2 : x.group \notin done2 => Above(x.group, G)
  BY Zenon DEF Queue
<1>. QED
  BY <1>1, <1>2, <1>3, <1>4, Zenon DEF Queue

\* The head handles a TAKE.
LEMMA ServeTakeInv ==
  ASSUME SetFacts
  PROVE  \A f \in wire : Inv /\ HandleTake(f) => Inv'
\* The last item of a batch, whose numbers are bounded.
<1>LastIs.
  ASSUME NEW X, NEW b \in Nat, \A x \in X : x.id \in Nat /\ x.id < b, X # {}
  PROVE  LastOf(X) \in X /\ \A y \in X : y.id <= LastOf(X).id
  <2>. USE <1>LastIs
  <2>1. {b - x.id : x \in X} \in SUBSET Nat /\ {b - x.id : x \in X} # {}
    <3>1. \A x \in X : b - x.id \in Nat
      OBVIOUS
    <3>. QED
      BY <3>1, Zenon
  <2>2. PICK m \in {b - x.id : x \in X} : \A n \in {b - x.id : x \in X} : m <= n
    BY <2>1, Zenon DEF SetFacts
  <2>3. PICK x \in X : m = b - x.id
    BY <2>2, Zenon
  <2>4. \A y \in X : y.id <= x.id
    <3>1. \A y \in X : m <= b - y.id
      BY <2>2, Zenon
    <3>2. \A y \in X : b - x.id <= b - y.id /\ y.id \in Nat /\ x.id \in Nat
      BY <2>3, <3>1, Zenon
    <3>. QED
      BY <3>2
  <2>. QED
    BY <2>4, Zenon DEF LastOf
\* Relay::take hands out items of the queue after the cursor, and none before
\* an earlier one.
<1>TakenIs.
  ASSUME NEW r, NEW f, IsFiniteSet(r.items), \A x \in r.items : x.id \in Nat,
         f.max \in Int, f.after \in Nat
  PROVE  /\ Taken(r, f) \subseteq Kept(r, f)
         /\ \A x \in Taken(r, f) : x.id > f.after
         /\ \A x \in Taken(r, f), y \in Kept(r, f) :
              y.id > f.after /\ y.id < x.id => y \in Taken(r, f)
  <2>. USE <1>TakenIs
  <2>. DEFINE new == {x \in Kept(r, f) : x.id > f.after}
              before(x) == {y \in new : y.id < x.id}
  <2>1. Taken(r, f) = {x \in new : Cardinality(before(x)) < f.max}
    BY Zenon DEF Taken
  <2>2. new \subseteq r.items
    BY Zenon DEF Kept
  <2>3. ASSUME NEW x \in Taken(r, f), NEW y \in Kept(r, f), y.id > f.after, y.id < x.id
        PROVE  y \in Taken(r, f)
    <3>1. y \in new /\ x \in new /\ x.id \in Nat /\ y.id \in Nat
      BY <2>1, <2>2, <2>3, Zenon
    <3>2. before(y) \subseteq before(x)
      <4>1. ASSUME NEW z \in before(y) PROVE z \in before(x)
        <5>1. z \in new /\ z.id < y.id /\ z.id \in Nat
          BY <2>2, <4>1, Zenon
        <5>2. z.id < x.id
          BY <2>3, <3>1, <5>1
        <5>. QED
          BY <5>1, <5>2, Zenon
      <4>. QED
        BY <4>1, Zenon
    <3>3. IsFiniteSet(before(x)) /\ before(x) \subseteq r.items
      <4>1. before(x) \subseteq r.items
        BY <2>2, Zenon
      <4>. HIDE DEF before
      <4>. QED
        BY <4>1, Zenon DEF SetFacts
    <3>. HIDE DEF before
    <3>4. /\ Cardinality(before(y)) <= Cardinality(before(x))
          /\ Cardinality(before(y)) \in Nat /\ Cardinality(before(x)) \in Nat
      BY <3>2, <3>3, Zenon DEF SetFacts
    <3>5. Cardinality(before(x)) < f.max
      BY <2>1, Zenon
    <3>. QED
      BY <2>1, <3>1, <3>4, <3>5
  <2>. QED
    BY <2>1, <2>3, Zenon
\* A batch is the first part of what is not done.
<1>QueueTake.
  ASSUME NEW items \in SUBSET Items, NEW next \in Nat, NEW G, NEW done, NEW after \in Nat,
         NEW kept \in SUBSET items, NEW got \in SUBSET kept,
         Queue(items, next, {}, G, done),
         \A y \in items : y.id <= after => y.group \in done,
         \A x \in got, y \in kept : y.id > after /\ y.id < x.id => y \in got
  PROVE  Queue(kept, next, got, G, done)
  <2>. USE <1>QueueTake
  <2>0. \A y \in items : y.id \in Nat /\ y.group[2] \in Nat
    BY ItemIs, Zenon
  <2>1. Queue(kept, next, {}, G, done)
    BY QueueLess
  <2>2. Ordered(kept) /\ Ordered(got)
    BY <2>1, Zenon DEF Queue, Ordered
  <2>3. ASSUME NEW x \in got, NEW y \in kept, y.group[1] = x.group[1], y.group[2] < x.group[2]
        PROVE  y.group \in done \/ \E z \in got : z.group = y.group
    <3>1. y.id < x.id
      <4>1. x.id = y.id => x = y
        BY <2>2, Zenon DEF Ordered
      <4>2. x.id < y.id => x.group[2] < y.group[2]
        BY <2>2, <2>3, Zenon DEF Ordered
      <4>. QED
        BY <2>0, <2>3, <4>1, <4>2
    <3>2. CASE y.id <= after
      BY <3>2, Zenon
    <3>3. CASE y.id > after
      BY <3>1, <3>3, Zenon
    <3>. QED
      BY <2>0, <3>2, <3>3
  <2>4. \A x \in got : Turn(x.group, kept, got, done)
    BY <2>3, Zenon DEF Turn
  <2>. QED
    BY <2>1, <2>2, <2>4, Zenon DEF Queue
\* Items are acknowledged, more is done.
<1>PumpLess.
  ASSUME NEW q, NEW epoch, NEW next, NEW items, NEW G, NEW done, NEW items2 \in SUBSET items,
         NEW done2, done \subseteq done2, Pumped(q, epoch, next, items, G, done)
  PROVE  Pumped(q, epoch, next, items2, G, done2)
  BY <1>PumpLess, Zenon DEF Pumped
\* A batch arrives.
<1>PumpTake.
  ASSUME NEW q \in Pumps, NEW t \in Pumps, NEW epoch, NEW next \in Nat,
         NEW items \in SUBSET Items, NEW G, NEW done,
         NEW kept \in SUBSET items, NEW got \in SUBSET kept, NEW z \in got,
         Pumped(q, epoch, next, items, G, done), q.hand = {}, q.epoch = epoch,
         \A y \in kept : y.id > q.acked /\ y.id < next, \A x \in got : x.id <= z.id /\ x.id > q.after,
         \A x \in got, y \in kept : y.id > q.after /\ y.id < x.id => y \in got,
         Ordered(items),
         t.known = q.known, t.epoch = q.epoch, t.open => q.open, t.acked = q.acked,
         t.at = "item", t.hand = got, t.after = z.id
  PROVE  Pumped(t, epoch, next, kept, G, done)
  <2>. USE <1>PumpTake
  <2>0. \A y \in items : y.id \in Nat
    BY ItemIs, Zenon
  <2>1. q.after \in Nat /\ q.acked \in Nat
    BY Zenon DEF Pumps
  <2>2. ASSUME NEW y \in kept
        PROVE  /\ y.id <= z.id => y.group \in done \/ y \in got
               /\ y.id <= q.acked => y.group \in done
    <3>1. CASE y.id <= q.after
      BY <3>1, Zenon DEF Pumped
    <3>2. CASE y.id > q.after
      <4>1. y.id = z.id => y = z
        BY Zenon DEF Ordered
      <4>2. y.id < z.id => y \in got
        BY <3>2, Zenon
      <4>3. y.id <= z.id => y.id < z.id \/ y.id = z.id
        BY <2>0
      <4>4. ~(y.id <= q.acked)
        BY <2>0, <2>1
      <4>. QED
        BY <4>1, <4>2, <4>3, <4>4, Zenon
    <3>. QED
      BY <2>0, <2>1, <3>1, <3>2
  <2>3. t.acked <= t.after /\ t.after < next
    BY <2>0, <2>1
  <2>4. \A x \in t.hand : t.acked < x.id /\ x.id <= t.after
    BY <2>0, <2>1, Zenon
  <2>5. t.known = G /\ t.epoch <= epoch /\ t.epoch = epoch
    BY Zenon DEF Pumped
  <2>. QED
    BY <2>2, <2>3, <2>4, <2>5, Zenon DEF Pumped
\* What Relay::take leaves and returns.
<1>AfterTakeIs.
  ASSUME NEW r \in Relays, NEW f \in Takes
  PROVE  /\ AfterTake(r, f) \in Relays /\ AfterTake(r, f).items = Kept(r, f)
         /\ AfterTake(r, f).next = r.next /\ AfterTake(r, f).last = r.last
         /\ AfterTake(r, f).epoch = r.epoch
         /\ Kept(r, f) \in SUBSET r.items
         /\ \A y \in r.items : y \notin Kept(r, f) => y.id <= f.ack
         /\ \A y \in Kept(r, f) : y.id > f.ack
  <2>. USE <1>AfterTakeIs
  <2>1. Kept(r, f) \in SUBSET r.items /\ Kept(r, f) \in SUBSET Items
    BY Zenon DEF Kept, Relays
  <2>2. \A y \in r.items : y.id \in Nat
    <3>1. \A y \in r.items : y \in Items
      BY Zenon DEF Relays
    <3>. QED
      BY <3>1, ItemIs, Zenon
  <2>3. f.ack \in Nat
    BY Zenon DEF Takes
  <2>4. /\ \A y \in r.items : y \notin Kept(r, f) => y.id <= f.ack
        /\ \A y \in Kept(r, f) : y.id > f.ack
    BY <2>2, <2>3 DEF Kept
  <2>5. AfterTake(r, f) \in Relays
    BY <2>1, Zenon DEF AfterTake, Relays
  <2>. QED
    BY <2>1, <2>4, <2>5, Zenon DEF AfterTake, Relays
\* The frames after a TAKE was handled, and the pump that waits for it.
<1>TakenFrames.
  ASSUME Inv, NEW f \in wire, HandleTake(f)
  PROVE  /\ f \in Takes /\ f \in TakeFrames /\ TakeFrames' = TakeFrames \ {f}
         /\ wire' \subseteq Puts \cup Takes /\ \A p \in Procs : FramesOf(p)' = FramesOf(p)
         /\ f.live => /\ pump.at = "take" /\ pump.hand = {} /\ pump.epoch = relay.epoch
                      /\ f.after = pump.after /\ f.ack = pump.acked
                      /\ \A h \in TakeFrames' : ~h.live
         /\ \A y \in relay.items : y.id <= f.ack => y.group \in Done
  <2>. USE <1>TakenFrames
  <2>1. f \in Takes /\ f.kind = "take" /\ wire' = wire \ {f} /\ wire \subseteq Puts \cup Takes
    BY Zenon DEF HandleTake, Inv, TypeInv, Puts, Takes
  <2>2. /\ f \in TakeFrames /\ TakeFrames' = TakeFrames \ {f} /\ wire' \subseteq Puts \cup Takes
        /\ \A p \in Procs : FramesOf(p)' = FramesOf(p)
    BY <2>1, Zenon DEF TakeFrames, FramesOf
  <2>3. Asked(TakeFrames, pump, relay.epoch, relay.next, relay.items, Done)
    BY Zenon DEF Inv, DeliveryInv, TakeInv
  <2>4. f.live => /\ pump.at = "take" /\ pump.epoch = relay.epoch
                  /\ f.after = pump.after /\ f.ack = pump.acked
    BY <2>2, <2>3, Zenon DEF Asked
  <2>5. pump.at = "take" => pump.hand = {}
    BY Zenon DEF Inv, DeliveryInv, PumpInv, Pumped
  <2>6. f.live => \A h \in TakeFrames' : ~h.live
    BY <2>2, <2>3, Zenon DEF Asked
  <2>7. \A y \in relay.items : y.id <= f.ack => y.group \in Done
    BY <2>2, <2>3, Zenon DEF Asked
  <2>. QED
    BY <2>1, <2>2, <2>4, <2>5, <2>6, <2>7, Zenon
\* Frames but one, and a pump that answers no other.
<1>AskedHandled.
  ASSUME NEW W, NEW V \in SUBSET W, NEW q, NEW t, NEW epoch, NEW next, NEW items, NEW done,
         NEW items2 \in SUBSET items,
         Asked(W, q, epoch, next, items, done), t = q \/ \A h \in V : ~h.live
  PROVE  Asked(V, t, epoch, next, items2, done)
  BY <1>AskedHandled, Zenon DEF Asked
\* The head handles a TAKE.
<1>HandleTakeInv.
  ASSUME Inv, NEW f \in wire, HandleTake(f)
  PROVE  Inv'
  <2>. USE <1>HandleTakeInv
  <2>. DEFINE kept == Kept(relay, f)
              got == Taken(relay, f)
  <2>1. /\ f \in Takes /\ f \in TakeFrames /\ TakeFrames' \in SUBSET TakeFrames
        /\ wire' \subseteq Puts \cup Takes /\ \A p \in Procs : FramesOf(p)' = FramesOf(p)
        /\ f.live => /\ pump.at = "take" /\ pump.hand = {} /\ pump.epoch = relay.epoch
                     /\ f.after = pump.after /\ f.ack = pump.acked
                     /\ \A h \in TakeFrames' : ~h.live
        /\ \A y \in relay.items : y.id <= f.ack => y.group \in Done
    BY <1>TakenFrames, Zenon
  <2>2. /\ relay \in Relays /\ pump \in Pumps /\ UNCHANGED <<sampler, disk, feed, past>>
        /\ relay.items \in SUBSET Items /\ relay.next \in Nat /\ pump.hand \in SUBSET Items
    BY PartsAre, Zenon DEF Inv, TypeInv, HandleTake
  <2>3. Indexed' = Indexed /\ Done' = Done
    BY <2>2, Zenon DEF Indexed, Done
  <2>4. /\ Queue(relay.items, relay.next, pump.hand, Indexed, Done)
        /\ Pumped(pump, relay.epoch, relay.next, relay.items, Indexed, Done)
        /\ Asked(TakeFrames, pump, relay.epoch, relay.next, relay.items, Done)
    BY Zenon DEF Inv, DeliveryInv, QueueInv, PumpInv, TakeInv
  <2>5. TrainingInv'
    BY <2>2, TrainingSame, Zenon DEF Inv
  <2>6. CASE Refused(relay, f)
    <3>1. relay' = relay /\ pump' = (IF f.live THEN [pump EXCEPT !.at = "idle", !.open = FALSE] ELSE pump)
      BY <2>6, Zenon DEF HandleTake
    <3>2. /\ pump' \in Pumps /\ pump'.known = pump.known /\ pump'.hand = pump.hand /\ pump'.after = pump.after
          /\ pump'.acked = pump.acked /\ pump'.epoch = pump.epoch /\ (pump'.open => pump.open)
          /\ pump'.at = pump.at \/ (pump.at = "take" /\ pump'.at = "idle")
      <4>. DEFINE t == [pump EXCEPT !.at = "idle", !.open = FALSE]
      <4>1. t \in Pumps
        BY <2>2, Zenon DEF Pumps
      <4>2. /\ t.known = pump.known /\ t.hand = pump.hand /\ t.after = pump.after
            /\ t.acked = pump.acked /\ t.epoch = pump.epoch /\ ~t.open /\ t.at = "idle"
        BY <2>2, Zenon DEF Pumps
      <4>3. pump' = pump \/ (f.live /\ pump' = t)
        BY <3>1, Zenon
      <4>. HIDE DEF t
      <4>. QED
        BY <2>1, <2>2, <4>1, <4>2, <4>3, Zenon
    <3>3. TypeInv'
      BY <2>1, <2>2, <3>1, <3>2, Zenon DEF Inv, TypeInv
    <3>4. QueueInv'
      BY <2>3, <2>4, <3>1, <3>2, Zenon DEF QueueInv
    <3>5. PumpInv'
      <4>1. Pumped(pump', relay.epoch, relay.next, relay.items, Indexed, Done)
        BY <2>4, <3>2, PumpWaits, Zenon
      <4>. QED
        BY <2>3, <3>1, <4>1, Zenon DEF PumpInv
    <3>6. TakeInv'
      <4>1. pump' = pump \/ \A h \in TakeFrames' : ~h.live
        BY <2>1, <3>1, Zenon
      <4>2. Asked(TakeFrames', pump', relay.epoch, relay.next, relay.items, Done)
        BY <2>1, <2>4, <4>1, <1>AskedHandled, Zenon
      <4>. QED
        BY <2>3, <3>1, <4>2, Zenon DEF TakeInv
    <3>7. Safe' = Safe
      BY <2>2, <2>3, <3>1, Zenon DEF Safe, Queued
    <3>. QED
      BY <2>1, <2>2, <2>3, <2>5, <3>1, <3>2, <3>3, <3>4, <3>5, <3>6, <3>7, PumpStep, Zenon
  <2>7. CASE ~Refused(relay, f)
    <3>1. /\ relay' \in Relays /\ relay'.items = kept /\ relay'.next = relay.next /\ relay'.last = relay.last
          /\ relay'.epoch = relay.epoch /\ kept \in SUBSET relay.items
          /\ \A y \in relay.items : y \notin kept => y.id <= f.ack
          /\ \A y \in kept : y.id > f.ack
      <4>1. relay' = AfterTake(relay, f)
        BY <2>7, Zenon DEF HandleTake
      <4>. QED
        BY <2>1, <2>2, <4>1, <1>AfterTakeIs, Zenon
    <3>2. /\ got \subseteq kept /\ \A x \in got : x.id > f.after
          /\ \A x \in got, y \in kept : y.id > f.after /\ y.id < x.id => y \in got
      <4>1. IsFiniteSet(relay.items) /\ (\A x \in relay.items : x.id \in Nat) /\ f.max \in Int /\ f.after \in Nat
        BY <2>1, <2>2, <2>4, ItemIs, Zenon DEF Queue, Takes
      <4>. QED
        BY <4>1, <1>TakenIs, Zenon
    <3>3. \A y \in relay.items : y.id \in Nat /\ y.id < relay.next
      BY <2>2, <2>4, ItemIs, Zenon DEF Queue
    <3>4. pump' = CASE ~f.live -> pump
                    [] f.live /\ got = {} -> [pump EXCEPT !.at = "idle"]
                    [] OTHER -> [pump EXCEPT !.at = "item", !.hand = got, !.after = LastOf(got).id]
      BY <2>7, Zenon DEF HandleTake
    <3>. HIDE DEF kept, got
    <3>5. Safe \subseteq Safe'
      <4>1. \A y \in relay.items : y \in kept \/ y.group \in Done
        BY <2>1, <3>1, Zenon
      <4>. QED
        BY <2>2, <2>3, <3>1, <4>1, Zenon DEF Safe, Queued
    <3>6. CASE ~f.live \/ got = {}
      <4>1. /\ pump' \in Pumps /\ pump'.known = pump.known /\ pump'.hand = pump.hand /\ pump'.after = pump.after
            /\ pump'.acked = pump.acked /\ pump'.epoch = pump.epoch /\ (pump'.open => pump.open)
            /\ pump'.at = pump.at \/ (pump.at = "take" /\ pump'.at = "idle")
        <5>. DEFINE t == [pump EXCEPT !.at = "idle"]
        <5>1. t \in Pumps
          BY <2>2, Zenon DEF Pumps
        <5>2. /\ t.known = pump.known /\ t.hand = pump.hand /\ t.after = pump.after
              /\ t.acked = pump.acked /\ t.epoch = pump.epoch /\ t.open = pump.open /\ t.at = "idle"
          BY <2>2, Zenon DEF Pumps
        <5>3. pump' = pump \/ (f.live /\ pump' = t)
          BY <3>4, <3>6, Zenon
        <5>. HIDE DEF t
        <5>. QED
          BY <2>1, <2>2, <5>1, <5>2, <5>3, Zenon
      <4>2. TypeInv'
        BY <2>1, <2>2, <3>1, <4>1, Zenon DEF Inv, TypeInv
      <4>3. QueueInv'
        <5>1. Queue(kept, relay.next, pump.hand, Indexed, Done)
          <6>1. \A x \in pump.hand \ pump.hand : x.group \in Done
            BY Zenon
          <6>2. pump.hand \in SUBSET pump.hand /\ Done \subseteq Done
            BY Zenon
          <6>. QED
            BY <2>2, <2>4, <3>1, <6>1, <6>2, QueueLess, Zenon
        <5>. QED
          BY <2>3, <3>1, <4>1, <5>1, Zenon DEF QueueInv
      <4>4. PumpInv'
        <5>1. Pumped(pump', relay.epoch, relay.next, relay.items, Indexed, Done)
          BY <2>4, <4>1, PumpWaits, Zenon
        <5>2. Pumped(pump', relay.epoch, relay.next, kept, Indexed, Done)
          BY <3>1, <5>1, <1>PumpLess, Zenon
        <5>. QED
          BY <2>3, <3>1, <5>2, Zenon DEF PumpInv
      <4>5. TakeInv'
        <5>1. pump' = pump \/ \A h \in TakeFrames' : ~h.live
          BY <2>1, <3>4, Zenon
        <5>2. Asked(TakeFrames', pump', relay.epoch, relay.next, kept, Done)
          BY <2>1, <2>4, <3>1, <5>1, <1>AskedHandled, Zenon
        <5>. QED
          BY <2>3, <3>1, <5>2, Zenon DEF TakeInv
      <4>. QED
        BY <2>1, <2>2, <2>3, <2>5, <3>1, <3>5, <4>1, <4>2, <4>3, <4>4, <4>5, PumpStep, Zenon
    <3>7. CASE f.live /\ got # {}
      <4>. DEFINE z == LastOf(got)
      <4>1. z \in got /\ \A y \in got : y.id <= z.id
        BY <2>2, <3>1, <3>2, <3>3, <3>7, <1>LastIs, Zenon
      <4>2. pump' = [pump EXCEPT !.at = "item", !.hand = got, !.after = z.id]
        BY <3>4, <3>7, Zenon
      <4>. HIDE DEF z
      <4>3. got \in SUBSET Items /\ z.id \in Nat
        BY <2>2, <3>1, <3>2, <3>3, <4>1, Zenon
      <4>4. pump' \in Pumps
        BY <2>2, <4>2, <4>3, Zenon DEF Pumps
      <4>5. /\ pump'.at = "item" /\ pump'.hand = got /\ pump'.after = z.id /\ pump'.known = pump.known
            /\ pump'.acked = pump.acked /\ pump'.epoch = pump.epoch /\ pump'.open = pump.open
        BY <2>2, <4>2, Zenon DEF Pumps
      <4>6. TypeInv'
        BY <2>1, <2>2, <3>1, <4>4, Zenon DEF Inv, TypeInv
      <4>7. /\ pump.hand = {} /\ pump.epoch = relay.epoch /\ f.after = pump.after /\ f.ack = pump.acked
            /\ pump.after \in Nat /\ \A h \in TakeFrames' : ~h.live
        BY <2>1, <2>2, <3>7, Zenon DEF Pumps
      <4>8. QueueInv'
        <5>1. \A y \in relay.items : y.id <= pump.after => y.group \in Done
          BY <2>4, <4>7, Zenon DEF Pumped
        <5>2. Queue(relay.items, relay.next, {}, Indexed, Done)
          BY <2>4, <4>7, Zenon
        <5>3. Queue(kept, relay.next, got, Indexed, Done)
          BY <2>2, <3>1, <3>2, <4>7, <5>1, <5>2, <1>QueueTake, Zenon
        <5>. QED
          BY <2>3, <3>1, <4>5, <5>3, Zenon DEF QueueInv
      <4>9. PumpInv'
        <5>1. /\ \A y \in kept : y.id > pump.acked /\ y.id < relay.next
              /\ \A x \in got : x.id <= z.id /\ x.id > pump.after
              /\ \A x \in got, y \in kept : y.id > pump.after /\ y.id < x.id => y \in got
              /\ got \in SUBSET kept
          BY <3>1, <3>2, <3>3, <4>1, <4>7, Zenon
        <5>2. Ordered(relay.items)
          BY <2>4, Zenon DEF Queue
        <5>3. Pumped(pump', relay.epoch, relay.next, kept, Indexed, Done)
          BY <2>2, <2>4, <3>1, <4>1, <4>4, <4>5, <4>7, <5>1, <5>2, <1>PumpTake, Zenon
        <5>. QED
          BY <2>3, <3>1, <5>3, Zenon DEF PumpInv
      <4>10. TakeInv'
        <5>1. Asked(TakeFrames', pump', relay.epoch, relay.next, kept, Done)
          BY <2>1, <2>4, <3>1, <4>7, <1>AskedHandled, Zenon
        <5>. QED
          BY <2>3, <3>1, <5>1, Zenon DEF TakeInv
      <4>11. relay'.items \subseteq relay.items /\ pump'.hand \subseteq relay.items \cup pump.hand
        BY <3>1, <3>2, <4>5, Zenon
      <4>. QED
        BY <2>1, <2>2, <2>3, <2>5, <3>1, <3>5, <4>6, <4>8, <4>9, <4>10, <4>11, PumpStep, Zenon
    <3>. QED
      BY <2>1, <3>6, <3>7, Zenon
  <2>. QED
    BY <2>6, <2>7, Zenon
<1>. QED
  BY <1>HandleTakeInv, Zenon

(***************************************************************************)
(* The pump writes its batch to the index.                                 *)
(***************************************************************************)

\* The first item of a batch.
LEMMA FirstIs ==
  ASSUME SetFacts, NEW X, \A x \in X : x.id \in Nat, X # {}
  PROVE  FirstOf(X) \in X /\ \A y \in X : FirstOf(X).id <= y.id
<1>1. {x.id : x \in X} \in SUBSET Nat /\ {x.id : x \in X} # {}
  BY Zenon
<1>2. PICK m \in {x.id : x \in X} : \A n \in {x.id : x \in X} : m <= n
  BY <1>1, Zenon DEF SetFacts
<1>3. PICK x \in X : m = x.id
  BY <1>2, Zenon
<1>4. \A y \in X : x.id <= y.id
  BY <1>2, <1>3, Zenon
<1>. QED
  BY <1>4, Zenon DEF FirstOf

\* A record is written at the end of the index.
LEMMA IndexGrows ==
  ASSUME NEW index \in Seq(Groups), NEW g \in Groups
  PROVE  /\ Append(index, g) \in Seq(Groups)
         /\ Len(Append(index, g)) = Len(index) + 1
         /\ \A i \in 1 .. Len(index) : Append(index, g)[i] = index[i]
         /\ Append(index, g)[Len(index) + 1] = g
         /\ Range(Append(index, g)) = Range(index) \cup {g}
<1>1. /\ Append(index, g) \in Seq(Groups)
      /\ Len(Append(index, g)) = Len(index) + 1
      /\ \A i \in 1 .. Len(index) : Append(index, g)[i] = index[i]
      /\ Append(index, g)[Len(index) + 1] = g
  OBVIOUS
<1>. DEFINE longer == Append(index, g)
<1>2. /\ Range(index) = {index[i] : i \in 1 .. Len(index)} /\ Len(index) \in Nat
      /\ Range(longer) = {longer[i] : i \in 1 .. Len(index) + 1}
  BY <1>1, IndexedIs, Zenon
<1>. HIDE DEF longer
<1>3. \A i \in 1 .. Len(index) + 1 : i \in 1 .. Len(index) \/ i = Len(index) + 1
  BY <1>2
<1>4. \A i \in 1 .. Len(index) : i \in 1 .. Len(index) + 1
  BY <1>2
<1>5. Len(index) + 1 \in 1 .. Len(index) + 1
  BY <1>2
<1>6. Range(longer) = Range(index) \cup {g}
  BY <1>1, <1>2, <1>3, <1>4, <1>5, Zenon DEF longer
<1>. QED
  BY <1>1, <1>6, Zenon DEF longer

\* Index `more` is `index` and group g behind it.
Longer(index, more, g) ==
  /\ Len(index) \in Nat /\ Len(more) = Len(index) + 1
  /\ \A i \in 1 .. Len(index) : more[i] = index[i]
  /\ more[Len(index) + 1] = g

\* Group g is not in the index and may come behind it.
Follows(g, index, skipped) ==
  /\ \A i \in 1 .. Len(index) : index[i] # g
  /\ g \notin skipped => \A i \in 1 .. Len(index) : index[i][1] = g[1] => index[i][2] < g[2]

\* RelayPump.step with the items of a batch.
LEMMA BatchInv ==
  ASSUME SetFacts
  PROVE  Inv /\ (SkipItem \/ Payload \/ IndexEntry \/ PumpFault) => Inv'
\* A TAKE nobody waits for asks for the same whatever the pump does.
<1>AskedNone.
  ASSUME NEW W, NEW q, NEW t, NEW epoch, NEW next, NEW items, NEW done, NEW done2,
         Asked(W, q, epoch, next, items, done), q.at # "take", done \subseteq done2
  PROVE  Asked(W, t, epoch, next, items, done2)
  BY <1>AskedNone, Zenon DEF Asked
\* The item the pump is at.
<1>CurrentIs.
  ASSUME Inv, pump.at \in {"item", "index"}
  PROVE  /\ Current \in pump.hand /\ Current \in Items /\ Current.group \in Groups
         /\ \A y \in pump.hand : Current.id <= y.id
         /\ \A y \in pump.hand : y.id = Current.id => y = Current
         /\ pump.acked < Current.id
  <2>. USE <1>CurrentIs
  <2>1. pump.hand \in SUBSET Items
    BY PartsAre, Zenon DEF Inv
  <2>2. pump.hand # {}
    BY Zenon DEF Inv, DeliveryInv, PumpInv, Pumped
  <2>3. \A y \in pump.hand : y.id \in Nat
    BY <2>1, ItemIs, Zenon
  <2>4. Current \in pump.hand /\ \A y \in pump.hand : Current.id <= y.id
    BY <2>2, <2>3, FirstIs, Zenon DEF Current
  <2>5. Current \in Items /\ Current.group \in Groups
    BY <2>1, <2>4, ItemIs, Zenon
  <2>6. \A y \in pump.hand : y.id = Current.id => y = Current
    BY <2>4, Zenon DEF Inv, DeliveryInv, QueueInv, Queue, Ordered
  <2>7. pump.acked < Current.id
    BY <2>4, Zenon DEF Inv, DeliveryInv, PumpInv, Pumped
  <2>. QED
    BY <2>4, <2>5, <2>6, <2>7, Zenon
\* The pump is done with that item.
<1>ConsumedIs.
  ASSUME Inv, pump.at \in {"item", "index"}
  PROVE  /\ Consumed(pump) \in Pumps /\ Consumed(pump).hand = pump.hand \ {Current}
         /\ Consumed(pump).acked = Current.id /\ Consumed(pump).after = pump.after
         /\ Consumed(pump).known = pump.known /\ Consumed(pump).epoch = pump.epoch
         /\ Consumed(pump).open = pump.open
         /\ Consumed(pump).at = IF pump.hand = {Current} THEN "idle" ELSE "item"
  <2>. USE <1>ConsumedIs
  <2>1. pump \in Pumps /\ Current \in pump.hand /\ Current \in Items /\ pump.acked < Current.id
    BY <1>CurrentIs, Zenon DEF Inv, TypeInv
  <2>. DEFINE h == pump.hand \ {Current}
              k == Current.id
              a == IF pump.hand = {Current} THEN "idle" ELSE "item"
  <2>2. h \in SUBSET Items /\ k \in Nat /\ a \in {"idle", "item"}
    BY <2>1, ItemIs, Zenon DEF Pumps
  <2>3. Consumed(pump) = [pump EXCEPT !.hand = h, !.acked = k, !.at = a]
    BY <2>1, Zenon DEF Consumed, Current
  <2>. HIDE DEF h, k, a
  <2>4. Consumed(pump) \in Pumps
    BY <2>1, <2>2, <2>3, Zenon DEF Pumps
  <2>5. /\ Consumed(pump).hand = h /\ Consumed(pump).acked = k /\ Consumed(pump).at = a
        /\ Consumed(pump).after = pump.after /\ Consumed(pump).known = pump.known
        /\ Consumed(pump).epoch = pump.epoch /\ Consumed(pump).open = pump.open
    BY <2>1, <2>3, Zenon DEF Pumps
  <2>. QED
    BY <2>4, <2>5, Zenon DEF h, k, a
\* The pump is done with the first item of its batch.
<1>PumpConsumed.
  ASSUME NEW q \in Pumps, NEW t \in Pumps, NEW epoch, NEW next, NEW items \in SUBSET Items,
         NEW G, NEW done, NEW G2, NEW done2, NEW x \in q.hand,
         Pumped(q, epoch, next, items, G, done),
         \A y \in q.hand : x.id <= y.id, \A y \in q.hand : y.id = x.id => y = x,
         done \subseteq done2, x.group \in done2,
         t.known = G2, t.epoch = q.epoch, t.open = q.open, t.after = q.after, t.acked = x.id,
         t.hand = q.hand \ {x}, t.at = IF q.hand = {x} THEN "idle" ELSE "item"
  PROVE  Pumped(t, epoch, next, items, G2, done2)
  <2>. USE <1>PumpConsumed
  <2>0. \A y \in items \cup q.hand : y.id \in Nat
    BY ItemIs, Zenon DEF Pumps
  <2>1. q.after \in Nat /\ q.acked \in Nat /\ q.acked < x.id /\ x.id <= q.after
    BY Zenon DEF Pumps, Pumped
  <2>2. \A y \in t.hand : t.acked < y.id /\ y.id <= t.after
    <3>1. ASSUME NEW y \in t.hand PROVE t.acked < y.id /\ y.id <= t.after
      <4>1. x.id <= y.id /\ x.id # y.id /\ y.id <= q.after
        BY Zenon DEF Pumped
      <4>. QED
        BY <2>0, <4>1
    <3>. QED
      BY <3>1, ZenonT(30)
  <2>3. t.at \in {"item", "index"} <=> t.hand # {}
    BY Zenon DEF Pumped
  <2>4. ASSUME q.epoch = epoch, NEW y \in items
        PROVE  /\ y.id <= t.after => y.group \in done2 \/ y \in t.hand
               /\ y.id <= t.acked => y.group \in done2
    <3>1. y.id <= q.after => y.group \in done \/ y \in q.hand
      BY <2>4, Zenon DEF Pumped
    <3>2. y.id <= x.id => y.id <= q.after
      BY <2>0, <2>1
    <3>3. y.id <= x.id /\ y \in q.hand => y = x
      BY <2>0
    <3>. QED
      BY <3>1, <3>2, <3>3, Zenon
  <2>5. t.acked <= t.after /\ t.at # "index"
    BY <2>1, Zenon
  <2>. QED
    BY <2>2, <2>3, <2>4, <2>5, Zenon DEF Pumped
\* RelayPump.step skips a group it has, or rejects.
<1>SkipItemInv.
  ASSUME Inv, SkipItem
  PROVE  Inv'
  <2>. USE <1>SkipItemInv
  <2>. DEFINE x == Current
  <2>1. /\ pump.at = "item" /\ x.group \in pump.known \cup Unfit /\ pump' = Consumed(pump)
        /\ UNCHANGED <<relay, sampler, wire, disk, feed, past>>
    BY Zenon DEF SkipItem
  <2>2. /\ x \in pump.hand /\ \A y \in pump.hand : x.id <= y.id
        /\ \A y \in pump.hand : y.id = x.id => y = x
    BY <2>1, <1>CurrentIs, Zenon
  <2>3. /\ pump' \in Pumps /\ pump'.hand = pump.hand \ {x} /\ pump'.acked = x.id /\ pump'.after = pump.after
        /\ pump'.known = pump.known /\ pump'.epoch = pump.epoch /\ pump'.open = pump.open
        /\ pump'.at = IF pump.hand = {x} THEN "idle" ELSE "item"
    BY <2>1, <1>ConsumedIs, Zenon
  <2>. HIDE DEF x
  <2>4. TypeInv'
    BY <2>1, <2>3, Zenon DEF Inv, TypeInv
  <2>5. /\ Indexed' = Indexed /\ Done' = Done /\ Safe' = Safe /\ TakeFrames' = TakeFrames
        /\ \A p \in Procs : FramesOf(p)' = FramesOf(p)
    BY <2>1, Zenon DEF Indexed, Done, Safe, Queued, TakeFrames, FramesOf
  <2>6. /\ Queue(relay.items, relay.next, pump.hand, Indexed, Done)
        /\ Pumped(pump, relay.epoch, relay.next, relay.items, Indexed, Done)
        /\ Asked(TakeFrames, pump, relay.epoch, relay.next, relay.items, Done)
        /\ pump \in Pumps /\ relay.items \in SUBSET Items /\ relay.next \in Nat
    BY PartsAre, Zenon DEF Inv, TypeInv, DeliveryInv, QueueInv, PumpInv, TakeInv
  <2>7. x.group \in Done /\ pump.known = Indexed
    BY <2>1, <2>6, Zenon DEF Pumped, Done
  <2>8. QueueInv'
    <3>1. /\ relay.items \in SUBSET relay.items /\ pump'.hand \in SUBSET pump.hand /\ Done \subseteq Done
          /\ \A y \in pump.hand \ pump'.hand : y.group \in Done
      BY <2>3, <2>7, Zenon
    <3>2. Queue(relay.items, relay.next, pump'.hand, Indexed, Done)
      BY <2>6, <3>1, QueueLess, Zenon
    <3>. QED
      BY <2>1, <2>5, <3>2, Zenon DEF QueueInv
  <2>9. PumpInv'
    <3>1. Done \subseteq Done /\ pump'.known = Indexed
      BY <2>3, <2>7, Zenon
    <3>2. Pumped(pump', relay.epoch, relay.next, relay.items, Indexed, Done)
      BY <2>2, <2>3, <2>6, <2>7, <3>1, <1>PumpConsumed, Zenon
    <3>. QED
      BY <2>1, <2>5, <3>2, Zenon DEF PumpInv
  <2>10. TakeInv'
    <3>1. Asked(TakeFrames, pump', relay.epoch, relay.next, relay.items, Done)
      BY <2>1, <2>6, <1>AskedNone, Zenon
    <3>. QED
      BY <2>1, <2>5, <3>1, Zenon DEF TakeInv
  <2>11. TrainingInv'
    BY <2>1, TrainingSame, Zenon DEF Inv
  <2>. QED
    BY <2>1, <2>3, <2>4, <2>5, <2>8, <2>9, <2>10, <2>11, PumpStep, Zenon
\* RelayPump.step writes a payload.
<1>PayloadInv.
  ASSUME Inv, Payload
  PROVE  Inv'
  <2>. USE <1>PayloadInv
  <2>1. /\ pump.at = "item" /\ Current.group \notin pump.known \cup Unfit
        /\ pump' = [pump EXCEPT !.at = "index"] /\ disk' = [disk EXCEPT !.payloads = @ \cup {Current.group}]
        /\ UNCHANGED <<relay, sampler, wire, feed, past>>
    BY Zenon DEF Payload
  <2>2. pump \in Pumps /\ disk \in Disks /\ Current.group \in Groups
    BY <2>1, <1>CurrentIs, Zenon DEF Inv, TypeInv
  <2>3. pump' \in Pumps
    BY <2>1, <2>2, Zenon DEF Pumps
  <2>4. /\ pump'.at = "index" /\ pump'.hand = pump.hand /\ pump'.acked = pump.acked /\ pump'.after = pump.after
        /\ pump'.known = pump.known /\ pump'.epoch = pump.epoch /\ pump'.open = pump.open
    BY <2>1, <2>2, Zenon DEF Pumps
  <2>5. disk' \in Disks /\ disk'.index = disk.index /\ disk'.cursor = disk.cursor /\ disk'.tail = disk.tail
    <3>. DEFINE P == disk.payloads \cup {Current.group}
    <3>1. P \in SUBSET Groups
      BY <2>2, Zenon DEF Disks
    <3>2. disk' = [disk EXCEPT !.payloads = P]
      BY <2>1, Zenon
    <3>. HIDE DEF P
    <3>3. disk' \in Disks
      BY <2>2, <3>1, <3>2, Zenon DEF Disks
    <3>. QED
      BY <2>2, <3>2, <3>3, Zenon DEF Disks
  <2>6. TypeInv'
    BY <2>1, <2>3, <2>5, Zenon DEF Inv, TypeInv
  <2>7. /\ Indexed' = Indexed /\ Done' = Done /\ Safe' = Safe /\ TakeFrames' = TakeFrames
        /\ \A p \in Procs : FramesOf(p)' = FramesOf(p)
    BY <2>1, <2>5, Zenon DEF Indexed, Done, Safe, Queued, TakeFrames, FramesOf
  <2>8. QueueInv'
    BY <2>1, <2>4, <2>7, Zenon DEF Inv, DeliveryInv, QueueInv
  <2>9. PumpInv'
    <3>1. Pumped(pump, relay.epoch, relay.next, relay.items, Indexed, Done)
      BY Zenon DEF Inv, DeliveryInv, PumpInv
    <3>2. FirstOf(pump.hand).group \notin Indexed \cup Unfit
      BY <2>1, <3>1, Zenon DEF Pumped, Current
    <3>3. Pumped(pump', relay.epoch, relay.next, relay.items, Indexed, Done)
      BY <2>1, <2>4, <3>1, <3>2, Zenon DEF Pumped
    <3>. QED
      BY <2>1, <2>7, <3>3, Zenon DEF PumpInv
  <2>10. TakeInv'
    <3>1. Asked(TakeFrames, pump, relay.epoch, relay.next, relay.items, Done)
      BY Zenon DEF Inv, DeliveryInv, TakeInv
    <3>2. Asked(TakeFrames, pump', relay.epoch, relay.next, relay.items, Done)
      BY <2>1, <3>1, <1>AskedNone, Zenon
    <3>. QED
      BY <2>1, <2>7, <3>2, Zenon DEF TakeInv
  <2>11. TrainingInv'
    BY <2>1, <2>5, TrainingSame, Zenon DEF Inv
  <2>. QED
    BY <2>1, <2>4, <2>6, <2>7, <2>8, <2>9, <2>10, <2>11, PumpStep, Zenon
\* Writing a batch fails.
<1>PumpFaultInv.
  ASSUME Inv, PumpFault
  PROVE  Inv'
  <2>. USE <1>PumpFaultInv
  <2>. DEFINE H == {x.group : x \in pump.hand}
              S == past.skipped \cup H
  <2>1. /\ pump.at \in {"item", "index"}
        /\ disk' = disk \/ \E t \in {disk.torn, TRUE} : disk' = [disk EXCEPT !.torn = t]
        /\ pump' = [pump EXCEPT !.at = "idle", !.hand = {}] /\ past' = [past EXCEPT !.skipped = S]
        /\ UNCHANGED <<relay, sampler, wire, feed>>
    BY Zenon DEF PumpFault
  <2>2. pump \in Pumps /\ pump.hand \in SUBSET Items /\ disk \in Disks /\ past \in Pasts
    BY PartsAre, Zenon DEF Inv, TypeInv
  <2>3. pump' \in Pumps
    BY <2>1, <2>2, Zenon DEF Pumps
  <2>4. /\ pump'.at = "idle" /\ pump'.hand = {} /\ pump'.acked = pump.acked /\ pump'.after = pump.after
        /\ pump'.known = pump.known /\ pump'.epoch = pump.epoch /\ pump'.open = pump.open
    BY <2>1, <2>2, Zenon DEF Pumps
  <2>5. disk' \in Disks
    <3>1. disk.torn \in BOOLEAN
      BY <2>2, Zenon DEF Disks
    <3>2. CASE disk' = disk
      BY <2>2, <3>2, Zenon
    <3>3. ASSUME NEW t \in {disk.torn, TRUE}, disk' = [disk EXCEPT !.torn = t]
          PROVE  disk' \in Disks
      <4>1. t \in BOOLEAN
        BY <3>1, Zenon
      <4>. QED
        BY <2>2, <3>3, <4>1, Zenon DEF Disks
    <3>. QED
      BY <2>1, <3>2, <3>3, Zenon
  <2>6. disk'.index = disk.index /\ disk'.cursor = disk.cursor /\ disk'.tail = disk.tail
    BY <2>1, <2>2, Zenon DEF Disks
  <2>7. H \in SUBSET Groups /\ S \in SUBSET Groups
    BY <2>2, ItemIs DEF Pasts
  <2>8. /\ past' \in Pasts /\ past'.skipped = past.skipped \cup H /\ past'.trained = past.trained
        /\ past'.dropped = past.dropped /\ past'.lost = past.lost /\ past'.window = past.window
    <3>. HIDE DEF S
    <3>1. past' \in Pasts
      BY <2>1, <2>2, <2>7, Zenon DEF Pasts
    <3>2. /\ past'.skipped = S /\ past'.trained = past.trained
          /\ past'.dropped = past.dropped /\ past'.lost = past.lost /\ past'.window = past.window
      BY <2>1, <2>2, Zenon DEF Pasts
    <3>. QED
      BY <3>1, <3>2, Zenon DEF S
  <2>9. TypeInv'
    BY <2>1, <2>3, <2>5, <2>8, Zenon DEF Inv, TypeInv
  <2>10. /\ Indexed' = Indexed /\ Done \subseteq Done' /\ Safe \subseteq Safe' /\ TakeFrames' = TakeFrames
         /\ \A p \in Procs : FramesOf(p)' = FramesOf(p)
         /\ \A x \in pump.hand : x.group \in Done'
    BY <2>1, <2>6, <2>8, Zenon DEF Indexed, Done, Safe, Queued, TakeFrames, FramesOf
  <2>11. /\ Queue(relay.items, relay.next, pump.hand, Indexed, Done)
         /\ Pumped(pump, relay.epoch, relay.next, relay.items, Indexed, Done)
         /\ Asked(TakeFrames, pump, relay.epoch, relay.next, relay.items, Done)
         /\ relay.items \in SUBSET Items /\ relay.next \in Nat
    BY PartsAre, Zenon DEF Inv, DeliveryInv, QueueInv, PumpInv, TakeInv
  <2>12. QueueInv'
    <3>1. /\ relay.items \in SUBSET relay.items /\ pump'.hand \in SUBSET pump.hand
          /\ \A y \in pump.hand \ pump'.hand : y.group \in Done'
      BY <2>4, <2>10, Zenon
    <3>2. Queue(relay.items, relay.next, pump'.hand, Indexed, Done')
      BY <2>10, <2>11, <3>1, QueueLess
    <3>. QED
      BY <2>1, <2>10, <3>2, Zenon DEF QueueInv
  <2>13. PumpInv'
    <3>1. Pumped(pump', relay.epoch, relay.next, relay.items, Indexed, Done')
      BY <2>4, <2>10, <2>11, Zenon DEF Pumped
    <3>. QED
      BY <2>1, <2>10, <3>1, Zenon DEF PumpInv
  <2>14. TakeInv'
    <3>1. Asked(TakeFrames, pump', relay.epoch, relay.next, relay.items, Done')
      BY <2>1, <2>10, <2>11, <1>AskedNone, Zenon
    <3>. QED
      BY <2>1, <2>10, <3>1, Zenon DEF TakeInv
  <2>15. TrainingInv'
    <3>1. past.skipped \subseteq past'.skipped
      BY <2>8, Zenon
    <3>. QED
      BY <2>1, <2>6, <2>8, <3>1, TrainingSame, Zenon DEF Inv
  <2>16. Indexed' \subseteq Indexed \cup H /\ pump'.hand \subseteq relay.items \cup pump.hand
    BY <2>4, <2>10, Zenon
  <2>. QED
    BY <2>1, <2>9, <2>10, <2>12, <2>13, <2>14, <2>15, <2>16, PumpStep, Zenon
\* The first group of the batch comes into the index.
<1>QueueIndex.
  ASSUME NEW items \in SUBSET Items, NEW next \in Nat, NEW hand \in SUBSET Items,
         NEW G \in SUBSET Groups, NEW done, NEW x \in hand,
         Queue(items, next, hand, G, done), \A y \in hand : x.id <= y.id
  PROVE  Queue(items, next, hand \ {x}, G \cup {x.group}, done \cup {x.group})
  <2>. USE <1>QueueIndex
  <2>0. \A y \in items \cup hand : y.id \in Nat /\ y.group[2] \in Nat /\ y.group = <<y.group[1], y.group[2]>>
    BY ItemIs, Zenon
  <2>1. Queue(items, next, hand \ {x}, G, done \cup {x.group})
    BY QueueLess
  <2>2. \A y \in hand \ {x} : y.group[1] = x.group[1] => x.group[2] < y.group[2]
    <3>1. Ordered(hand)
      BY Zenon DEF Queue
    <3>. QED
      BY <2>0, <3>1 DEF Ordered
  <2>3. ASSUME NEW y \in items, y.group \notin done \cup {x.group}, y.group[1] = x.group[1]
        PROVE  x.group[2] < y.group[2]
    <3>1. y.group[2] # x.group[2]
      BY <2>0, <2>3, Zenon
    <3>2. ASSUME y.group[2] < x.group[2] PROVE FALSE
      <4>1. Turn(x.group, items, hand, done)
        BY Zenon DEF Queue
      <4>2. PICK z \in hand : z.group = y.group
        BY <2>3, <3>2, <4>1, Zenon DEF Turn
      <4>3. z # x
        BY <2>3, <4>2, Zenon
      <4>4. x.group[2] < y.group[2]
        BY <2>2, <2>3, <4>2, <4>3, Zenon
      <4>. QED
        BY <2>0, <3>2, <4>4
    <3>. QED
      BY <2>0, <3>1, <3>2
  <2>4. \A y \in items \cup (hand \ {x}) :
          y.group \notin done \cup {x.group} => Above(y.group, G \cup {x.group})
    <3>1. \A y \in items \cup (hand \ {x}) : y.group \notin done \cup {x.group} => Above(y.group, G)
      BY <2>1, Zenon DEF Queue
    <3>. QED
      BY <2>2, <2>3, <3>1, Zenon DEF Above
  <2>. QED
    BY <2>1, <2>4, Zenon DEF Queue
\* A group that may be indexed next, and is not yet, keeps the index in order.
<1>OrderMore.
  ASSUME NEW index, NEW more, NEW g, NEW skipped, Longer(index, more, g), Follows(g, index, skipped),
         Distinct(index), InOrder(index, skipped)
  PROVE  Distinct(more) /\ InOrder(more, skipped)
  <2>. USE <1>OrderMore
  <2>. DEFINE n == Len(index)
  <2>0. /\ n \in Nat /\ Len(more) = n + 1 /\ more[n + 1] = g /\ \A i \in 1 .. n : more[i] = index[i]
        /\ \A i \in 1 .. n : index[i] # g
        /\ g \notin skipped => \A i \in 1 .. n : index[i][1] = g[1] => index[i][2] < g[2]
    BY Zenon DEF Longer, Follows
  <2>1. \A i \in 1 .. n + 1 : i \in 1 .. n \/ i = n + 1
    BY <2>0
  <2>3. /\ \A i, j \in 1 .. n : index[i] = index[j] => i = j
        /\ \A i, j \in 1 .. n :
             i < j /\ index[i][1] = index[j][1] /\ index[j] \notin skipped => index[i][2] < index[j][2]
    BY Zenon DEF Distinct, InOrder
  <2>. HIDE DEF n
  <2>4. \A i, j \in 1 .. n + 1 : more[i] = more[j] => i = j
    BY <2>0, <2>1, <2>3, Zenon
  <2>5. ASSUME NEW i \in 1 .. n + 1, NEW j \in 1 .. n + 1,
               i < j, more[i][1] = more[j][1], more[j] \notin skipped
        PROVE  more[i][2] < more[j][2]
    <3>1. i \in 1 .. n
      BY <2>0, <2>5
    <3>2. CASE j \in 1 .. n
      BY <2>0, <2>3, <2>5, <3>1, <3>2, Zenon
    <3>3. CASE j = n + 1
      BY <2>0, <2>5, <3>1, <3>3, Zenon
    <3>. QED
      BY <2>1, <3>2, <3>3, Zenon
  <2>. QED
    BY <2>0, <2>4, <2>5, Zenon DEF Distinct, InOrder
\* The index gets longer behind the feed, and more groups are settled.
<1>FedMore.
  ASSUME NEW index, NEW more, NEW cursor \in Nat, NEW tail \in Nat \cup {-1}, NEW at, NEW read \in Nat,
         NEW kept, NEW settled, NEW settled2, settled \subseteq settled2,
         Len(index) \in Nat, Len(more) \in Nat, Len(index) <= Len(more),
         \A i \in 1 .. Len(index) : more[i] = index[i],
         Fed(index, cursor, tail, at, read, kept, settled)
  PROVE  Fed(more, cursor, tail, at, read, kept, settled2)
  <2>. USE <1>FedMore
  <2>1. cursor <= read /\ tail <= read /\ read <= Len(index)
    BY Zenon DEF Fed
  <2>2. read <= Len(more)
    BY <2>1
  <2>3. \A i \in 1 .. read : more[i] = index[i]
    BY <2>1
  <2>4. \A i \in 1 .. cursor : more[i] = index[i]
    BY <2>1
  <2>5. \A i \in 1 .. tail : more[i] = index[i]
    BY <2>1
  <2>. QED
    BY <2>2, <2>3, <2>4, <2>5, Zenon DEF Fed
\* A group that was never trained is indexed.
<1>SingleMore.
  ASSUME NEW index, NEW more, NEW g, NEW cursor, NEW at, NEW read, NEW kept, NEW trained,
         Longer(index, more, g), trained[g] = 0, Single(index, cursor, at, read, kept, trained)
  PROVE  Single(more, cursor, at, read, kept, trained)
  <2>. USE <1>SingleMore
  <2>. DEFINE n == Len(index)
  <2>0. n \in Nat /\ Len(more) = n + 1 /\ more[n + 1] = g /\ \A i \in 1 .. n : more[i] = index[i]
    BY Zenon DEF Longer
  <2>1. \A i \in 1 .. n + 1 : i \in 1 .. n \/ i = n + 1
    BY <2>0
  <2>2. \A i \in 1 .. n : i \in 1 .. n + 1
    BY <2>0
  <2>3. \A h \in Groups : trained[h] = 1 => \E i \in 1 .. n + 1 : more[i] = h
    BY <2>0, <2>2 DEF Single
  <2>4. \A i \in 1 .. n + 1 : i > read => trained[more[i]] = 0
    BY <2>0, <2>1, Zenon DEF Single
  <2>5. at # "record" => \A i \in 1 .. n + 1 : i > cursor => trained[more[i]] = 0
    BY <2>0, <2>1, Zenon DEF Single
  <2>. QED
    BY <2>0, <2>3, <2>4, <2>5, Zenon DEF Single
\* Training, when a group is indexed that is not yet.
<1>TrainingIndex.
  ASSUME Inv, NEW g \in Groups, g \notin Indexed, g \notin past.skipped => Above(g, Indexed),
         disk'.index = Append(disk.index, g), disk'.cursor = disk.cursor, disk'.tail = disk.tail,
         feed' = feed, past' = past
  PROVE  TrainingInv'
  <2>. USE <1>TrainingIndex
  <2>. DEFINE index == disk.index
              more == disk'.index
              n == Len(index)
  <2>1. /\ index \in Seq(Groups) /\ feed.read \in Nat /\ disk.cursor \in Nat /\ disk.tail \in Nat \cup {-1}
        /\ past.trained \in [Groups -> Nat]
    BY Zenon DEF Inv, TypeInv, Disks, Feeds, Pasts
  <2>2. /\ n \in Nat /\ Len(more) = n + 1 /\ \A i \in 1 .. n : more[i] = index[i]
        /\ more[n + 1] = g
    BY <2>1, IndexGrows
  <2>3. (\A i \in 1 .. n : index[i] \in Indexed) /\ Longer(index, more, g)
    BY <2>1, <2>2, IndexedIs DEF Indexed, Longer
  <2>4. OrderInv /\ FeedInv /\ OnceInv
    BY Zenon DEF Inv, TrainingInv
  <2>5. OrderInv'
    <3>1. Follows(g, index, past.skipped)
      BY <2>3, Zenon DEF Above, Follows
    <3>2. Distinct(index) /\ InOrder(index, past.skipped)
      BY <2>4, Zenon DEF OrderInv
    <3>. HIDE DEF index, more, n
    <3>4. Distinct(more) /\ InOrder(more, past.skipped)
      BY <2>3, <3>1, <3>2, <1>OrderMore, Zenon
    <3>. QED
      BY <3>4, Zenon DEF OrderInv, more
  <2>6. FeedInv'
    <3>1. Fed(index, disk.cursor, disk.tail, feed.at, feed.read, feed.kept, Settled)
      BY <2>4, Zenon DEF FeedInv
    <3>2. Settled' = Settled
      BY Zenon DEF Settled
    <3>3. Len(index) \in Nat /\ Len(more) \in Nat /\ Len(index) <= Len(more)
      BY <2>2
    <3>4. \A i \in 1 .. Len(index) : more[i] = index[i]
      BY <2>2, Zenon
    <3>. HIDE DEF index, more, n
    <3>5. Fed(more, disk.cursor, disk.tail, feed.at, feed.read, feed.kept, Settled)
      BY <2>1, <3>1, <3>3, <3>4, <1>FedMore, Zenon
    <3>. QED
      BY <3>2, <3>5, Zenon DEF FeedInv, more
  <2>7. OnceInv'
    <3>1. ASSUME ~past.window
          PROVE  disk.tail = -1 /\ Single(more, disk.cursor, feed.at, feed.read, feed.kept, past.trained)
      <4>1. disk.tail = -1 /\ Single(index, disk.cursor, feed.at, feed.read, feed.kept, past.trained)
        BY <2>4, <3>1, Zenon DEF OnceInv
      <4>2. past.trained[g] \in Nat
        BY <2>1, Zenon
      <4>3. \A i \in 1 .. n : index[i] # g
        BY <2>3, Zenon
      <4>4. past.trained[g] = 0
        BY <4>1, <4>2, <4>3 DEF Single
      <4>. HIDE DEF index, more, n
      <4>. QED
        BY <2>3, <4>1, <4>4, <1>SingleMore, Zenon
    <3>. QED
      BY <3>1, Zenon DEF OnceInv, more
  <2>. QED
    BY <2>5, <2>6, <2>7, Zenon DEF TrainingInv
\* RelayPump.step writes a record to the index.
<1>IndexEntryInv.
  ASSUME Inv, IndexEntry
  PROVE  Inv'
  <2>. USE <1>IndexEntryInv
  <2>. DEFINE x == Current
              g == x.group
  <2>1. /\ pump.at = "index" /\ disk' = [disk EXCEPT !.index = Append(disk.index, g), !.torn = FALSE]
        /\ pump' = [Consumed(pump) EXCEPT !.known = Consumed(pump).known \cup {g}]
        /\ UNCHANGED <<relay, sampler, wire, feed, past>>
    BY Zenon DEF IndexEntry
  <2>2. /\ x \in pump.hand /\ g \in Groups /\ \A y \in pump.hand : x.id <= y.id
        /\ \A y \in pump.hand : y.id = x.id => y = x
    BY <2>1, <1>CurrentIs, Zenon
  <2>3. /\ pump' \in Pumps /\ pump'.hand = pump.hand \ {x} /\ pump'.acked = x.id /\ pump'.after = pump.after
        /\ pump'.known = pump.known \cup {g} /\ pump'.epoch = pump.epoch /\ pump'.open = pump.open
        /\ pump'.at = IF pump.hand = {x} THEN "idle" ELSE "item"
    <3>. DEFINE c == Consumed(pump)
                K == c.known \cup {g}
    <3>1. /\ c \in Pumps /\ c.hand = pump.hand \ {x} /\ c.acked = x.id /\ c.after = pump.after
          /\ c.known = pump.known /\ c.epoch = pump.epoch /\ c.open = pump.open
          /\ c.at = IF pump.hand = {x} THEN "idle" ELSE "item"
      BY <2>1, <1>ConsumedIs, Zenon
    <3>2. K \in SUBSET Groups /\ pump' = [c EXCEPT !.known = K] /\ K = pump.known \cup {g}
      BY <2>1, <2>2, <3>1, Zenon DEF Pumps
    <3>. HIDE DEF c, K, x, g
    <3>3. pump' \in Pumps
      BY <3>1, <3>2, Zenon DEF Pumps
    <3>4. /\ pump'.known = K /\ pump'.hand = c.hand /\ pump'.acked = c.acked /\ pump'.after = c.after
          /\ pump'.epoch = c.epoch /\ pump'.open = c.open /\ pump'.at = c.at
      BY <3>1, <3>2, Zenon DEF Pumps
    <3>. QED
      BY <3>1, <3>2, <3>3, <3>4, Zenon
  <2>. HIDE DEF x, g
  <2>4. disk \in Disks /\ disk.index \in Seq(Groups)
    BY Zenon DEF Inv, TypeInv, Disks
  <2>5. /\ disk' \in Disks /\ disk'.index = Append(disk.index, g) /\ disk'.cursor = disk.cursor
        /\ disk'.tail = disk.tail
    <3>. DEFINE longer == Append(disk.index, g)
    <3>1. longer \in Seq(Groups)
      BY <2>2, <2>4, IndexGrows, Zenon
    <3>2. disk' = [disk EXCEPT !.index = longer, !.torn = FALSE]
      BY <2>1, Zenon
    <3>. HIDE DEF longer
    <3>3. disk' \in Disks
      BY <2>4, <3>1, <3>2, Zenon DEF Disks
    <3>4. disk'.index = longer /\ disk'.cursor = disk.cursor /\ disk'.tail = disk.tail
      BY <2>4, <3>2, Zenon DEF Disks
    <3>. QED
      BY <3>3, <3>4, Zenon DEF longer
  <2>6. TypeInv'
    BY <2>1, <2>3, <2>5, Zenon DEF Inv, TypeInv
  <2>7. Indexed' = Indexed \cup {g}
    BY <2>2, <2>4, <2>5, IndexGrows DEF Indexed
  <2>8. Done' = Done \cup {g} /\ Safe \subseteq Safe'
    BY <2>1, <2>7, Zenon DEF Done, Safe, Queued
  <2>9. TakeFrames' = TakeFrames /\ \A p \in Procs : FramesOf(p)' = FramesOf(p)
    BY <2>1, Zenon DEF TakeFrames, FramesOf
  <2>10. /\ Queue(relay.items, relay.next, pump.hand, Indexed, Done)
         /\ Pumped(pump, relay.epoch, relay.next, relay.items, Indexed, Done)
         /\ Asked(TakeFrames, pump, relay.epoch, relay.next, relay.items, Done)
         /\ pump \in Pumps /\ relay.items \in SUBSET Items /\ relay.next \in Nat
         /\ pump.hand \in SUBSET Items /\ Indexed \in SUBSET Groups
    BY PartsAre, Zenon DEF Inv, TypeInv, DeliveryInv, QueueInv, PumpInv, TakeInv
  <2>11. g \notin Indexed \cup Unfit /\ pump.known = Indexed
    BY <2>1, <2>10, Zenon DEF Pumped, g, x, Current
  <2>12. QueueInv'
    <3>1. Queue(relay.items, relay.next, pump.hand \ {x}, Indexed \cup {x.group}, Done \cup {x.group})
      BY <2>2, <2>10, <1>QueueIndex, Zenon
    <3>2. /\ relay'.items = relay.items /\ relay'.next = relay.next /\ pump'.hand = pump.hand \ {x}
          /\ Indexed' = Indexed \cup {x.group} /\ Done' = Done \cup {x.group}
      BY <2>1, <2>3, <2>7, <2>8, Zenon DEF g
    <3>. QED
      BY <3>1, <3>2, Zenon DEF QueueInv
  <2>13. PumpInv'
    <3>1. Done \subseteq Done' /\ x.group \in Done' /\ pump'.known = Indexed'
      BY <2>3, <2>7, <2>8, <2>11, Zenon DEF g
    <3>2. Pumped(pump', relay.epoch, relay.next, relay.items, Indexed', Done')
      BY <2>2, <2>3, <2>10, <3>1, <1>PumpConsumed
    <3>. QED
      BY <2>1, <3>2, Zenon DEF PumpInv
  <2>14. TakeInv'
    <3>1. Done \subseteq Done'
      BY <2>8, Zenon
    <3>2. Asked(TakeFrames, pump', relay.epoch, relay.next, relay.items, Done')
      BY <2>1, <2>10, <3>1, <1>AskedNone, Zenon
    <3>. QED
      BY <2>1, <2>9, <3>2, Zenon DEF TakeInv
  <2>15. TrainingInv'
    <3>1. g \notin past.skipped => Above(g, Indexed)
      BY <2>2, <2>10, <2>11, Zenon DEF Queue, Done, g
    <3>. QED
      BY <2>1, <2>2, <2>5, <2>11, <3>1, <1>TrainingIndex, Zenon
  <2>16. /\ Indexed' \subseteq Indexed \cup {y.group : y \in pump.hand}
         /\ pump'.hand \subseteq relay.items \cup pump.hand
    BY <2>2, <2>3, <2>7, Zenon DEF g
  <2>. QED
    BY <2>1, <2>6, <2>8, <2>9, <2>12, <2>13, <2>14, <2>15, <2>16, PumpStep, Zenon
<1>. QED
  BY <1>SkipItemInv, <1>PayloadInv, <1>IndexEntryInv, <1>PumpFaultInv, Zenon

(***************************************************************************)
(* The invariant, and what it says.                                        *)
(***************************************************************************)

INSTANCE FiniteSetTheorems

\* A nonempty set of numbers has a least one.
LEMMA LeastNat ==
  ASSUME NEW S \in SUBSET Nat, S # {}
  PROVE  \E m \in S : \A n \in S : m <= n
<1>1. PICK m \in S : \A n \in S : ~(<<n, m>> \in OpToRel(<, Nat))
  BY NatLessThanWellFounded, WFMin, Zenon
<1>2. \A n \in S : ~(n < m)
  BY <1>1, Zenon DEF OpToRel
<1>. QED
  BY <1>2

\* What the steps of the head and of the pump use holds.
LEMMA SetFactsHold == SetFacts
BY FS_EmptySet, FS_AddElement, FS_Subset, FS_CardinalityType, LeastNat, Zenon DEF SetFacts

\* It holds at the start.
LEMMA InitInv == Init => Inv
<1>. SUFFICES ASSUME Init PROVE Inv
  BY Zenon
<1>1. /\ relay = FreshRelay(1, {}) /\ wire = {} /\ pump = FreshPump(<<>>) /\ feed = FreshFeed(0)
      /\ sampler = [p \in Procs |-> Process(IF p = 1 THEN "idle" ELSE "off")]
      /\ disk = [index |-> <<>>, torn |-> FALSE, payloads |-> {}, cursor |-> 0, tail |-> -1]
      /\ past = [trained |-> [g \in Groups |-> 0], dropped |-> {}, lost |-> {}, skipped |-> {},
                 window |-> FALSE]
  BY Zenon DEF Init
<1>2. Indexed = {} /\ disk.index = <<>> /\ Len(disk.index) = 0 /\ Range(<<>>) = {}
  BY <1>1 DEF Indexed, Range
<1>3. TypeInv
  <2>1. relay \in Relays
    BY <1>1 DEF FreshRelay, Relays
  <2>2. sampler \in [Procs -> Processes]
    BY <1>1, RelayAssumption DEF Process, Processes
  <2>3. pump \in Pumps
    BY <1>1, <1>2, ZenonT(30) DEF FreshPump, Pumps
  <2>4. disk \in Disks
    BY <1>1 DEF Disks
  <2>5. feed \in Feeds
    BY <1>1, Zenon DEF FreshFeed, Feeds
  <2>6. past \in Pasts
    BY <1>1, Zenon DEF Pasts
  <2>. QED
    BY <1>1, <2>1, <2>2, <2>3, <2>4, <2>5, <2>6, Zenon DEF TypeInv
<1>4. /\ relay.items = {} /\ relay.next = 1 /\ relay.epoch = 1 /\ relay.last = [p \in Procs |-> 0]
      /\ pump.hand = {} /\ pump.known = {} /\ pump.at = "idle" /\ ~pump.open
      /\ pump.epoch = 0 /\ pump.after = 0 /\ pump.acked = 0
      /\ TakeFrames = {} /\ \A p \in Procs : FramesOf(p) = {}
  BY <1>1, <1>2, Zenon DEF FreshRelay, FreshPump, TakeFrames, FramesOf
<1>5. \A p \in Procs : /\ ~Waits(sampler[p]) /\ sampler[p].seq = 0 /\ sampler[p].n = 0
                       /\ sampler[p].written = {} /\ ~sampler[p].gaveBack /\ Top(sampler[p]) = 0
  BY <1>1, Zenon DEF Process, Waits, Top
<1>6. NumberInv
  <2>1. \A p \in Procs : relay.last[p] <= Top(sampler[p])
    BY <1>4, <1>5
  <2>. QED
    BY <1>4, <1>5, <2>1, ZenonT(30) DEF NumberInv, Numbered, Waits
<1>7. SourceInv
  BY <1>2, <1>4, <1>5, Zenon DEF SourceInv, Sourced, Behind
<1>8. WrittenInv
  BY <1>5, Zenon DEF WrittenInv, Written
<1>9. QueueInv
  BY <1>2, <1>4, FS_EmptySet, Zenon DEF QueueInv, Queue, Ordered
<1>10. PumpInv
  BY <1>2, <1>4 DEF PumpInv, Pumped
<1>11. TakeInv
  BY <1>4, Zenon DEF TakeInv, Asked
<1>12. TrainingInv
  <2>1. /\ disk.cursor = 0 /\ disk.tail = -1 /\ feed.read = 0 /\ feed.kept = {} /\ feed.at = "collect"
        /\ past.trained = [g \in Groups |-> 0]
    BY <1>1, Zenon DEF FreshFeed
  <2>2. OrderInv
    BY <1>2 DEF OrderInv, InOrder, Distinct
  <2>3. FeedInv
    BY <1>2, <2>1 DEF FeedInv, Fed
  <2>4. OnceInv
    BY <1>2, <2>1 DEF OnceInv, Single
  <2>. QED
    BY <2>2, <2>3, <2>4, Zenon DEF TrainingInv
<1>. QED
  BY <1>3, <1>6, <1>7, <1>8, <1>9, <1>10, <1>11, <1>12, Zenon DEF Inv, DeliveryInv

\* Every step keeps the invariant.
LEMMA NextInv == Inv /\ [Next]_vars => Inv'
<1>. SUFFICES ASSUME Inv, [Next]_vars
              PROVE  Inv'
  BY Zenon
<1>1. CASE Producing \/ \E p \in Procs : Break(p) \/ Stop(p) \/ Relaunch(p)
  BY <1>1, SamplerInv, Zenon
<1>2. CASE Serving
  BY <1>2, SetFactsHold, ServePutInv, ServeTakeInv, Zenon DEF Serving
<1>3. CASE Take
  BY <1>3, TakeStepInv, Zenon
<1>4. CASE SkipItem \/ Payload \/ IndexEntry \/ PumpFault
  BY <1>4, SetFactsHold, BatchInv, Zenon
<1>5. CASE Training
  BY <1>5, TrainingStepInv, Zenon
<1>6. CASE Expire \/ TakeOver
  BY <1>6, MembersInv, Zenon
<1>7. CASE Restart
  BY <1>7, SetFactsHold, RestartInv, Zenon
<1>8. CASE Cut \/ Crash
  BY <1>8, TrainerFaultInv, Zenon
<1>9. CASE UNCHANGED vars
  <2>1. UNCHANGED <<relay, sampler, wire, pump, disk, feed, past>>
    BY <1>9, Zenon DEF vars
  <2>2. DeliveryInv' /\ TrainingInv'
    BY <2>1, DeliverySame, TrainingSame, Zenon DEF Inv
  <2>. QED
    BY <2>1, <2>2, Zenon DEF Inv, TypeInv
<1>. QED
  BY <1>1, <1>2, <1>3, <1>4, <1>5, <1>6, <1>7, <1>8, <1>9, Zenon DEF Next, Pumping

\* The invariant holds in every behaviour.
LEMMA AlwaysInv == Spec => []Inv
BY InitInv, NextInv, PTL DEF Spec

\* RelayPump.step and JsonlIndex.append_many: a group enters the trainer's
\* index once, and the groups of a sampler process in the order they were
\* written, whatever PUTs are sent again or handled late, whatever batches are
\* taken again, and whoever restarts; only a batch whose writing failed may
\* come late.
THEOREM IndexAlwaysInOrder == Spec => []IndexInOrder
<1>1. Inv => IndexInOrder
  <2>1. ASSUME Inv, NEW i \in 1 .. Len(disk.index), NEW j \in 1 .. Len(disk.index), i < j
        PROVE  disk.index[i] # disk.index[j]
    <3>1. Distinct(disk.index) /\ Len(disk.index) \in Nat
      BY <2>1, FeedIs, Zenon
    <3>2. i # j
      BY <2>1, <3>1
    <3>. QED
      BY <3>1, <3>2, Zenon DEF Distinct
  <2>. QED
    BY <2>1, Zenon DEF Inv, TrainingInv, OrderInv, InOrder, IndexInOrder
<1>. QED
  BY <1>1, AlwaysInv, PTL

\* Relay::put, Relay::take and RelayPump.step: a group that the sampler counts
\* as written is in the relay's queue or in the trainer's index, unless the
\* head restarted with it, the pump rejected it, its batch could not be
\* written, or its process gave a number back.
THEOREM WrittenAlwaysKept == Spec => []WrittenIsKept
<1>1. Inv => WrittenIsKept
  <2>1. ASSUME Inv, NEW p \in Procs, NEW g \in sampler[p].written
        PROVE  g \in Queued \cup Indexed \/ Excused(g)
    <3>1. g[1] = p /\ (g \in Safe \/ sampler[p].gaveBack)
      BY <2>1, Zenon DEF Inv, DeliveryInv, WrittenInv, Written
    <3>. QED
      BY <3>1, Zenon DEF Safe, Done, Excused
  <2>. QED
    BY <2>1, Zenon DEF WrittenIsKept
<1>. QED
  BY <1>1, AlwaysInv, PTL

\* LaneCursorLog.last_cursor: a trainer that starts again skips no group that
\* was neither trained nor dropped, wherever its predecessor died.
THEOREM CursorNeverSkips == Spec => []CursorSkipsNothing
<1>1. Inv => CursorSkipsNothing
  <2>1. ASSUME Inv, NEW i \in 1 .. LastCursor(disk)
        PROVE  past.trained[disk.index[i]] > 0 \/ disk.index[i] \in past.dropped
    <3>1. i \in 1 .. disk.tail \/ i \in 1 .. disk.cursor
      BY <2>1, Zenon DEF LastCursor
    <3>2. disk.index[i] \in Settled
      BY <2>1, <3>1, FeedIs, Zenon DEF Fed
    <3>. QED
      BY <3>2, Zenon DEF Settled
  <2>. QED
    BY <2>1, Zenon DEF CursorSkipsNothing
<1>. QED
  BY <1>1, AlwaysInv, PTL

\* BufferFeed and commit_round: a group is trained at most once, unless the
\* trainer died between the train call and the record of a round.
THEOREM AlwaysTrainedOnce == Spec => []TrainedOnce
<1>1. Inv => TrainedOnce
  <2>1. ASSUME Inv, ~past.window, NEW g \in Groups
        PROVE  ~(past.trained[g] > 1)
    BY <2>1, FeedIs DEF Single
  <2>. QED
    BY <2>1, Zenon DEF TrainedOnce
<1>. QED
  BY <1>1, AlwaysInv, PTL

=============================================================================
