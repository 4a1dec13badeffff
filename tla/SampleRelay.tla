---------------------------- MODULE SampleRelay ----------------------------
(***************************************************************************)
(* The way of a rollout group from a sampler to a training round: the      *)
(* sampler's producer (relay.py, relay_buffer.py), the sample relay in the *)
(* head's memory (sample_relay.rs), the trainer's pump (relay_buffer.py),  *)
(* its sample index on disk (sample_buffer.py) and the feed that reads the *)
(* index and records how far it trained (buffer_feed.py,                   *)
(* merged_release.py).  One channel, one sampler id, whose processes are   *)
(* numbered in the order of their start, and one trainer process at a      *)
(* time.  A group is a process and the number of the group in it.          *)
(***************************************************************************)
EXTENDS Integers, Sequences, FiniteSets, Functions

CONSTANTS Procs,      \* the sampler's processes, 1 .. n
          PerProc,    \* groups a process writes
          MaxItems,   \* --sample-relay-items
          Prefetch,   \* prefetch_groups of the pump
          Required,   \* groups of a training round
          Unfit,      \* groups whose item the pump rejects
          Scenarios   \* how often each event may happen in a behaviour

ASSUME RelayAssumption ==
  /\ Procs = 1..Cardinality(Procs)
  /\ PerProc \in Nat \ {0} /\ MaxItems \in Nat \ {0}
  /\ Prefetch \in Nat \ {0} /\ Required \in Nat \ {0}

VARIABLES relay,    \* Relay and the member table of the head
          sampler,  \* the processes of the sampler
          wire,     \* PUT and TAKE frames the head has not handled
          pump,     \* the pump thread of the trainer
          disk,     \* the trainer's directory: sample index, payloads, cursor log
          feed,     \* BufferFeed in the trainer process
          past,     \* history: what was trained, dropped and lost
          left      \* event -> how often it may still happen

vars == <<relay, sampler, wire, pump, disk, feed, past, left>>

Groups == Procs \X (1..PerProc)
Events == {"break", "cut", "takeover", "restart", "relaunch", "expire", "stop", "crash", "fault", "drop"}

\* Items are queued and handed out in the order of their numbers.
FirstOf(X) == CHOOSE x \in X : \A y \in X : x.id <= y.id
LastOf(X) == CHOOSE x \in X : \A y \in X : y.id <= x.id

Happens(e) == left[e] > 0 /\ left' = [left EXCEPT ![e] = @ - 1]
Quiet == UNCHANGED left

\* The relay of a head that just started: nothing of it is on disk, but the
\* dispenser's record may name processes that are fenced since.
FreshRelay(epoch, retired) ==
  [epoch |-> epoch, next |-> 1, items |-> {}, last |-> [p \in Procs |-> 0],
   consumer |-> 0, tokens |-> 0, current |-> 0, retired |-> retired]

\* A pump thread that just started on the index of the trainer's directory.
FreshPump(index) ==
  [at |-> "idle", open |-> FALSE, epoch |-> 0, token |-> 0, after |-> 0, acked |-> 0,
   known |-> Range(index), hand |-> {}]

\* A feed that continues at position `cursor`.
FreshFeed(cursor) == [at |-> "collect", read |-> cursor, kept |-> {}]

Process(state) ==
  [state |-> state, n |-> 0, seq |-> 0, open |-> FALSE, written |-> {}, stopping |-> FALSE,
   gaveBack |-> FALSE]

Init ==
  /\ relay = FreshRelay(1, {})
  /\ sampler = [p \in Procs |-> Process(IF p = 1 THEN "idle" ELSE "off")]
  /\ wire = {}
  /\ disk = [index |-> <<>>, torn |-> FALSE, payloads |-> {}, cursor |-> 0, tail |-> -1]
  /\ pump = FreshPump(<<>>)
  /\ feed = FreshFeed(0)
  /\ past = [trained |-> [g \in Groups |-> 0], dropped |-> {}, lost |-> {}, skipped |-> {},
             window |-> FALSE]
  /\ left \in Scenarios

-----------------------------------------------------------------------------
(* The producer: RelaySampleBuffer.append and RelayProducer *)

PutFrame(p) == [kind |-> "put", proc |-> p, seq |-> sampler'[p].seq, group |-> <<p, sampler'[p].n>>,
                live |-> TRUE]

\* RelayProducer.put: take the next number, send the PUT if there is a
\* connection, else connect first.
Sends(p, s) ==
  /\ sampler' = [sampler EXCEPT ![p] = [s EXCEPT !.seq = @ + 1,
                                                 !.state = IF s.open THEN "put" ELSE "connect"]]
  /\ wire' = IF sampler[p].open THEN wire \cup {PutFrame(p)} ELSE wire

\* RelaySampleBuffer.append: the next group of the process.
WriteGroup(p) ==
  /\ sampler[p].state = "idle" /\ sampler[p].n < PerProc
  /\ Sends(p, [sampler[p] EXCEPT !.n = @ + 1])
  /\ UNCHANGED <<relay, pump, disk, feed, past>> /\ Quiet

\* put_blocking after FULL: give the group up when stopping, else try again.
WaitFull(p) ==
  /\ sampler[p].state = "full"
  /\ IF sampler[p].stopping
     THEN /\ sampler' = [sampler EXCEPT ![p] = [sampler[p] EXCEPT !.state = "idle",
                                                                   !.gaveBack = TRUE]]
          /\ UNCHANGED wire
     ELSE Sends(p, sampler[p])
  /\ UNCHANGED <<relay, pump, disk, feed, past>> /\ Quiet

\* Members::join: a process that is not the current one supersedes it.
Joined(r, p) ==
  IF r.current = p THEN r
  ELSE [r EXCEPT !.retired = IF r.current = 0 THEN @ ELSE @ \cup {r.current}, !.current = p]

\* RelayConnection.connect and RELAY_HELLO of a producer; a retired process is
\* refused, which ends it (RelayFenced).
ConnectProducer(p) ==
  /\ sampler[p].state = "connect"
  /\ IF p \in relay.retired
     THEN /\ sampler' = [sampler EXCEPT ![p].state = "over"]
          /\ UNCHANGED <<relay, wire>>
     ELSE /\ sampler' = [sampler EXCEPT ![p] = [sampler[p] EXCEPT !.state = "put", !.open = TRUE]]
          /\ relay' = Joined(relay, p)
          /\ wire' = wire \cup {PutFrame(p)}
  /\ UNCHANGED <<pump, disk, feed, past>> /\ Quiet

\* A process whose connection is gone sends its PUT again over a new one, or
\* drops its group when it is stopping (_with_retry, RelayStopped).
Unlinked(s) ==
  [s EXCEPT !.open = FALSE,
            !.state = CASE s.state # "put"               -> s.state
                        [] s.state = "put" /\ s.stopping -> "idle"
                        [] OTHER                         -> "connect"]

\* The link breaks.  A PUT on it is lost, or the head handles it later.
Break(p) ==
  /\ sampler[p].open /\ Happens("break")
  /\ sampler' = [sampler EXCEPT ![p] = Unlinked(sampler[p])]
  /\ LET mine == {f \in wire : f.kind = "put" /\ f.proc = p /\ f.live}
     IN  \/ wire' = wire \ mine
         \/ mine # {} /\ wire' = (wire \ mine) \cup {[f EXCEPT !.live = FALSE] : f \in mine}
  /\ UNCHANGED <<relay, pump, disk, feed, past>>

\* The sampler is asked to stop (run finished, syncer lost, board regressed).
Stop(p) ==
  /\ sampler[p].state \notin {"off", "over"} /\ ~sampler[p].stopping /\ Happens("stop")
  /\ sampler' = [sampler EXCEPT ![p].stopping = TRUE]
  /\ UNCHANGED <<relay, wire, pump, disk, feed, past>>

\* A new process of the sampler starts; the old one may still be there.
Relaunch(p) ==
  /\ sampler[p].state = "off" /\ sampler[p - 1].state # "off" /\ Happens("relaunch")
  /\ sampler' = [sampler EXCEPT ![p].state = "idle"]
  /\ UNCHANGED <<relay, wire, pump, disk, feed, past>>

-----------------------------------------------------------------------------
(* The head: Relay::put, Relay::take and serve *)

\* Mutant: only the last number is known as a duplicate.
DuplicateLast(r, f) == f.seq = r.last[f.proc]

Duplicate(r, f) == f.seq <= r.last[f.proc]

\* The answer of Relay::put.
PutStatus(r, f) ==
  CASE Duplicate(r, f)                  -> "duplicate"
    [] Cardinality(r.items) >= MaxItems -> "full"
    [] OTHER                            -> "stored"

\* The relay after Relay::put: only a stored item changes it.
AfterPut(r, f) ==
  IF PutStatus(r, f) # "stored" THEN r
  ELSE [r EXCEPT !.items = @ \cup {[id |-> r.next, group |-> f.group]},
                 !.next = @ + 1, !.last = [r.last EXCEPT ![f.proc] = f.seq]]

\* RelayProducer.put and RelaySampleBuffer.append with the answer: FULL gives
\* the number back, STORED and DUPLICATE count the group as written.
Answered(s, status, group) ==
  IF status = "full" THEN [s EXCEPT !.state = "full", !.seq = @ - 1]
  ELSE [s EXCEPT !.state = "idle", !.written = @ \cup {group}]

\* The head handles a PUT.  A process that is not live is fenced.
HandlePut(f) ==
  LET p == f.proc
  IN  /\ f.kind = "put"
      /\ IF relay.current # p
         THEN /\ sampler' = IF f.live
                            THEN [sampler EXCEPT ![p] = [sampler[p] EXCEPT !.state = "over",
                                                                           !.open = FALSE]]
                            ELSE sampler
              /\ UNCHANGED relay
         ELSE /\ sampler' = IF f.live
                            THEN [sampler EXCEPT ![p] = Answered(sampler[p], PutStatus(relay, f), f.group)]
                            ELSE sampler
              /\ relay' = AfterPut(relay, f)
      /\ wire' = wire \ {f}
      /\ UNCHANGED <<pump, disk, feed, past>> /\ Quiet

\* Relay::take refuses a superseded consumer and a cursor past the last item.
Refused(r, f) == f.token # r.consumer \/ f.ack >= r.next \/ f.after >= r.next

\* What Relay::take returns: the first items after the cursor that are not
\* acknowledged.
Kept(r, f) == {x \in r.items : x.id > f.ack}
Taken(r, f) ==
  LET new == {x \in Kept(r, f) : x.id > f.after}
  IN  {x \in new : Cardinality({y \in new : y.id < x.id}) < f.max}

\* Mutant: an item is deleted when it is handed out.
AfterTakeDelivered(r, f) ==
  [r EXCEPT !.items = Kept(r, f) \ Taken(r, f)]

\* What Relay::take leaves: acknowledged items are deleted.
AfterTake(r, f) == [r EXCEPT !.items = Kept(r, f)]

\* The head handles a TAKE; the pump gets the items, or the error that closes
\* its connection (RelayPump.run starts the next step after it).
HandleTake(f) ==
  /\ f.kind = "take"
  /\ wire' = wire \ {f}
  /\ IF Refused(relay, f)
     THEN /\ pump' = IF f.live THEN [pump EXCEPT !.at = "idle", !.open = FALSE] ELSE pump
          /\ UNCHANGED relay
     ELSE LET got == Taken(relay, f)
          IN  /\ relay' = AfterTake(relay, f)
              /\ pump' = CASE ~f.live  -> pump
                           [] f.live /\ got = {} -> [pump EXCEPT !.at = "idle"]
                           [] OTHER -> [pump EXCEPT !.at = "item", !.hand = got,
                                                    !.after = LastOf(got).id]
  /\ UNCHANGED <<sampler, disk, feed, past>> /\ Quiet

\* Members::expire: the process was silent for its lease.
Expire ==
  /\ relay.current # 0 /\ Happens("expire")
  /\ relay' = [relay EXCEPT !.retired = @ \cup {relay.current}, !.current = 0]
  /\ UNCHANGED <<sampler, wire, pump, disk, feed, past>>

\* A pump whose connection is gone; RelayConsumer.take connects again.
Unplugged(q) == [q EXCEPT !.open = FALSE, !.at = IF q.at = "take" THEN "idle" ELSE q.at]

\* The head restarts: queue, numbers, member table and connections are gone.
Restart ==
  /\ Happens("restart")
  /\ \E old \in {{}, relay.retired \cup ({relay.current} \ {0})} :
       relay' = FreshRelay(relay.epoch + 1, old)
  /\ past' = [past EXCEPT !.lost = @ \cup {x.group : x \in relay.items}]
  /\ wire' = {}
  /\ sampler' = [p \in Procs |-> Unlinked(sampler[p])]
  /\ pump' = Unplugged(pump)
  /\ UNCHANGED <<disk, feed>>

-----------------------------------------------------------------------------
(* The trainer's pump: RelayConsumer and RelayPump.step *)

\* RelayConsumer._connect: a new relay starts from nothing, the same one goes
\* on after what was acknowledged.
Resumed(q, epoch) ==
  LET cursor == IF epoch = q.epoch THEN q.acked ELSE 0
  IN  [q EXCEPT !.after = cursor, !.acked = cursor, !.epoch = epoch]

Attached(q) ==
  IF q.open THEN q
  ELSE [Resumed(q, relay.epoch) EXCEPT !.open = TRUE, !.token = relay.tokens + 1]

Room == Prefetch - (Len(disk.index) - feed.read)

\* RelayPump.step up to its TAKE: connect if there is no connection (a new
\* consumer supersedes the one before), and ask for what fits.  (A retry inside
\* RelayConsumer.take asks for the room of its first attempt, never more.)
Take ==
  /\ pump.at = "idle" /\ Room > 0
  /\ LET q == Attached(pump)
     IN  /\ pump' = [q EXCEPT !.at = "take"]
         /\ relay' = IF pump.open THEN relay
                     ELSE [relay EXCEPT !.consumer = q.token, !.tokens = q.token]
         /\ wire' = wire \cup {[kind |-> "take", token |-> q.token, after |-> q.after,
                                ack |-> q.acked, max |-> Room, live |-> TRUE]}
  /\ UNCHANGED <<sampler, disk, feed, past>> /\ Quiet

\* The next item of the batch is done.
Consumed(q) ==
  LET x == FirstOf(q.hand)
  IN  [q EXCEPT !.hand = @ \ {x}, !.acked = IF @ < x.id THEN x.id ELSE @,
                !.at = IF q.hand = {x} THEN "idle" ELSE "item"]

\* The item of the batch that RelayPump.step is at.
Current == FirstOf(pump.hand)

\* RelayPump.step: a group of the index and a group it rejects are acknowledged.
SkipItem ==
  /\ pump.at = "item"
  /\ Current.group \in pump.known \cup Unfit
  /\ pump' = Consumed(pump)
  /\ UNCHANGED <<relay, sampler, wire, disk, feed, past>> /\ Quiet

\* RelayPump.step: write the payload; one an earlier pump left is used.
Payload ==
  /\ pump.at = "item"
  /\ Current.group \notin pump.known \cup Unfit
  /\ disk' = [disk EXCEPT !.payloads = @ \cup {Current.group}]
  /\ pump' = [pump EXCEPT !.at = "index"]
  /\ UNCHANGED <<relay, sampler, wire, feed, past>> /\ Quiet

\* Mutant: the record is written behind a torn line, which spoils it.
IndexEntryGlued ==
  /\ pump.at = "index"
  /\ disk' = IF disk.torn THEN [disk EXCEPT !.torn = FALSE]
             ELSE [disk EXCEPT !.index = Append(@, Current.group)]
  /\ pump' = [Consumed(pump) EXCEPT !.known = @ \cup {Current.group}]
  /\ UNCHANGED <<relay, sampler, wire, feed, past>> /\ Quiet

\* JsonlIndex.append_many: cut a torn last line off, write the record, fsync;
\* then RelayPump.step acknowledges the item.
IndexEntry ==
  /\ pump.at = "index" /\ Current.group \in disk.payloads
  /\ disk' = [disk EXCEPT !.index = Append(@, Current.group), !.torn = FALSE]
  /\ pump' = [Consumed(pump) EXCEPT !.known = @ \cup {Current.group}]
  /\ UNCHANGED <<relay, sampler, wire, feed, past>> /\ Quiet

\* Writing the payload or the record (all or part of it) fails: RelayPump.run
\* drops the rest of the batch and starts the next step, whose TAKE goes on
\* after the batch.
PumpFault ==
  /\ Happens("fault")
  /\ \/ pump.at = "item" /\ Current.group \notin pump.known \cup Unfit /\ UNCHANGED disk
     \/ pump.at = "index" /\ \E t \in {disk.torn, TRUE} : disk' = [disk EXCEPT !.torn = t]
  /\ pump' = [pump EXCEPT !.at = "idle", !.hand = {}]
  /\ past' = [past EXCEPT !.skipped = @ \cup {x.group : x \in pump.hand}]
  /\ UNCHANGED <<relay, sampler, wire, feed>>

\* The frames of the pump, once nobody waits for their answer.
Abandoned(frames) ==
  LET mine == {f \in frames : f.kind = "take" /\ f.live}
  IN  {frames \ mine, (frames \ mine) \cup {[f EXCEPT !.live = FALSE] : f \in mine}}

\* The pump's link breaks.
Cut ==
  /\ pump.open /\ Happens("cut")
  /\ pump' = Unplugged(pump)
  /\ wire' \in Abandoned(wire)
  /\ UNCHANGED <<relay, sampler, disk, feed, past>>

\* The hello of an abandoned consumer connection arrives late.
TakeOver ==
  /\ relay.tokens > 0 /\ Happens("takeover")
  /\ relay' = [relay EXCEPT !.consumer = relay.tokens + 1, !.tokens = @ + 1]
  /\ UNCHANGED <<sampler, wire, pump, disk, feed, past>>

-----------------------------------------------------------------------------
(* The trainer's feed: BufferFeed, BufferCall and LaneCursorLog *)

\* pull, then keep or drop (the feed's own checks, or the collector's).
Collect ==
  /\ feed.at = "collect" /\ Cardinality(feed.kept) < Required /\ feed.read < Len(disk.index)
  /\ LET group == disk.index[feed.read + 1]
     IN  \/ /\ feed' = [feed EXCEPT !.read = @ + 1, !.kept = @ \cup {group}]
            /\ UNCHANGED past /\ Quiet
         \/ /\ Happens("drop")
            /\ feed' = [feed EXCEPT !.read = @ + 1]
            /\ past' = [past EXCEPT !.dropped = @ \cup {group}]
  /\ UNCHANGED <<relay, sampler, wire, pump, disk>>

\* LaneCursorLog.append: a record behind a line that did not end is unreadable,
\* and so is that line.
Logged(d, cursor) == IF d.tail = -1 THEN [d EXCEPT !.cursor = cursor] ELSE [d EXCEPT !.tail = -1]

\* Mutant: the record is written when the round is collected.
AssembleRecorded ==
  /\ feed.at = "collect" /\ Cardinality(feed.kept) = Required
  /\ feed' = [feed EXCEPT !.at = "train"]
  /\ disk' = Logged(disk, feed.read)
  /\ UNCHANGED <<relay, sampler, wire, pump, past>> /\ Quiet

\* yeto_assemble: close_round holds the record of the round.
Assemble ==
  /\ feed.at = "collect" /\ Cardinality(feed.kept) = Required
  /\ feed' = [feed EXCEPT !.at = "train"]
  /\ UNCHANGED <<relay, sampler, wire, pump, disk, past>> /\ Quiet

\* yeto_train_step returns.
Train ==
  /\ feed.at = "train"
  /\ past' = [past EXCEPT !.trained = [g \in Groups |-> @[g] + IF g \in feed.kept THEN 1 ELSE 0]]
  /\ feed' = [feed EXCEPT !.at = "record"]
  /\ UNCHANGED <<relay, sampler, wire, pump, disk>> /\ Quiet

\* commit_round: the round trained, and its record is written.
CommitRound ==
  /\ feed.at = "record"
  /\ disk' = Logged(disk, feed.read)
  /\ feed' = FreshFeed(feed.read)
  /\ UNCHANGED <<relay, sampler, wire, pump, past>> /\ Quiet

\* Mutant: the last record is taken for the next position's predecessor.
LastCursorBehind(d) == IF d.cursor > 0 THEN d.cursor - 1 ELSE 0

\* LaneCursorLog.last_cursor: a last line without its end counts if it is whole.
LastCursor(d) == IF d.tail > 0 THEN d.tail ELSE d.cursor

\* What a crash leaves of the files: a record that was being written is
\* missing, cut short, or (in the cursor log) lacks only the end of its line.
IndexEnds == IF pump.at = "index" THEN {disk.torn, TRUE} ELSE {disk.torn}
CursorEnds ==
  CASE feed.at # "record" -> {disk.tail}
    [] feed.at = "record" /\ disk.tail = -1 -> {-1, 0, feed.read}
    [] OTHER -> {disk.tail, 0}

\* The trainer process dies and is started again on its directory.
Crash ==
  /\ Happens("crash")
  /\ \E t \in IndexEnds, c \in CursorEnds : disk' = [disk EXCEPT !.torn = t, !.tail = c]
  /\ pump' = FreshPump(disk'.index)
  /\ feed' = FreshFeed(LastCursor(disk'))
  /\ past' = [past EXCEPT !.window = @ \/ feed.at = "record"]
  /\ wire' \in Abandoned(wire)
  /\ UNCHANGED <<relay, sampler>>

-----------------------------------------------------------------------------

Producing == \E p \in Procs : WriteGroup(p) \/ WaitFull(p) \/ ConnectProducer(p)
Serving == \E f \in wire : HandlePut(f) \/ HandleTake(f)
Pumping == Take \/ SkipItem \/ Payload \/ IndexEntry
Training == Collect \/ Assemble \/ Train \/ CommitRound

Next ==
  \/ Producing \/ Serving \/ Pumping \/ Training
  \/ (\E p \in Procs : Break(p) \/ Stop(p) \/ Relaunch(p))
  \/ Expire \/ Restart \/ PumpFault \/ Cut \/ TakeOver \/ Crash

\* The head answers a TAKE, and the trainer's threads go on.
Fairness ==
  /\ WF_vars(\E f \in wire : f.live /\ HandleTake(f))
  /\ WF_vars(Pumping) /\ WF_vars(Training)

Spec == Init /\ [][Next]_vars /\ Fairness

-----------------------------------------------------------------------------
(* Properties *)

Queued == {x.group : x \in relay.items}
Indexed == Range(disk.index)

\* What a group may be instead of delivered: in a head that restarted,
\* rejected by the pump, in a batch whose writing failed, or numbered by a
\* process that gave a number back (put after FULL) while it was stopping.
Excused(g) ==
  g \in past.lost \cup Unfit \cup past.skipped \/ sampler[g[1]].gaveBack

\* A group enters the index once, and the groups of a process in its order,
\* whatever is sent again, handled late, taken again or taken over; a batch
\* whose writing failed may come again behind its successors.
IndexInOrder ==
  \A i, j \in 1..Len(disk.index) :
    i < j => /\ disk.index[i] # disk.index[j]
             /\ disk.index[i][1] = disk.index[j][1] /\ disk.index[j] \notin past.skipped
                  => disk.index[i][2] < disk.index[j][2]

\* "Acknowledges them only after the append" (relay_buffer.py), "only
\* acknowledged items are deleted" (sample_relay.rs): a group its sampler
\* counts as written is in the channel or in the index.
WrittenIsKept ==
  \A p \in Procs : \A g \in sampler[p].written : g \in Queued \cup Indexed \/ Excused(g)

\* The cursor record skips nothing: every group a relaunched trainer does not
\* read again was trained or dropped (commit_round after the train call).
CursorSkipsNothing ==
  \A i \in 1..LastCursor(disk) :
    past.trained[disk.index[i]] > 0 \/ disk.index[i] \in past.dropped

\* "Trained at most once unless the island dies in that window"
\* (buffer_feed.py): between the train call and the record of a round.
TrainedOnce == (\E g \in Groups : past.trained[g] > 1) => past.window

\* A group its sampler counts as written is read by the trainer, in the end.
WrittenIsRead ==
  \A g \in Groups :
    (g \in sampler[g[1]].written) ~>
       (g \in Range(SubSeq(disk.index, 1, feed.read)) \/ Excused(g))

=============================================================================
