---------------------------- MODULE TaskDispense ----------------------------
(***************************************************************************)
(* The dispenser, the island processes that take rows from it, their       *)
(* connections, and the syncer's checkpoint: DispenseService and serve of  *)
(* syncer/src/dispense_service.rs, TaskSource of                           *)
(* yeto/rl/engine/task_dispense.py, CheckpointSnapshot::save of            *)
(* syncer/src/state.rs.                                                    *)
(*                                                                         *)
(* A process has one request on the wire at a time.  A connection that     *)
(* breaks loses the answer, but the syncer may still read a request sent   *)
(* on it, however late.  Clocks are left out: a member may be found silent *)
(* for its lease by any request, and a process may take a ready row at any *)
(* time, so nothing below rests on the lease being longer than a delay.    *)
(***************************************************************************)
EXTENDS Dispenser, Bags

CONSTANTS
    Block,          \* island -> positions it claims at a time
    Prefetch,       \* prefetch_blocks
    Reports,        \* island -> the kinds its rollout reports
    Unsteady,       \* bound: islands that break, are relaunched, give up or close
    Scenarios       \* bounds: how often each event may happen, and the numbered
                    \* requests of one process of each island

\* An expired lease, a join on another channel, a cut and a crash of the syncer;
\* a rollout that gives up or closes, a connection that breaks, a relaunch.
Events == {"expire", "elsewhere", "cut", "crash", "give up", "close", "break", "relaunch"}

ASSUME TaskDispenseAssumption ==
    /\ Block \in [Islands -> Nat \ {0}]
    /\ Prefetch \in Nat \ {0}
    /\ Unsteady \subseteq Islands
    /\ Reports \in [Islands -> SUBSET Kinds]
    /\ Scenarios \subseteq [events : [Events -> Nat], requests : [Islands -> Nat]]

VARIABLES
    d,          \* the dispenser of the running syncer
    client,     \* island -> its current process
    wire,       \* island -> request on its connection, or Nothing
    reply,      \* island -> answer on its connection, or Nothing
    late,       \* requests of broken connections: [from, request]
    saving,     \* checkpoint being saved: [stage, record, trained]
    disk,       \* the files: the record, and the rows trained into the checkpoint
    epoch,      \* syncer processes so far (history)
    left        \* what the scenario still allows

vars == <<d, client, wire, reply, late, saving, disk, epoch, left>>

syncer == <<d, saving, disk, epoch>>

Nothing == [type |-> "nothing"]

\* A TaskSource as its constructor leaves it.
Process(n) ==
    [inc      |-> n,
     conn     |-> "none",           \* _conn: none, opening or open
     ready    |-> EmptyBag,         \* _ready: <<position, block>>
     owner    |-> [p \in {} |-> 0], \* _owner: position -> block
     pending  |-> EmptyBag,         \* _pending: [block, kind, pos]
     inflight |-> Nothing,          \* _inflight
     seq      |-> 0,                \* _seq
     ended    |-> 0,                \* _ended: the epoch that answered END, or 0
     closing  |-> "no",             \* _closing: no, closing, released
     status   |-> "starting",       \* then running; fenced, refused, failed, stopped
     orphan   |-> FALSE]            \* a restarted syncer does not know it (history)

Holder(i) == <<i, client[i].inc>>

Running(i) == client[i].status = "running"

\* The leases of the holders in gone run out; event e happens as well.
Expires(gone) == left' = [left EXCEPT !.events["expire"] = @ - Cardinality(gone)]

HappensAs(e, gone) ==
    left.events[e] > 0 /\ left' = [left EXCEPT !.events[e] = @ - 1, !.events["expire"] = @ - Cardinality(gone)]

Happens(e) == HappensAs(e, {})

----------------------------------------------------------------------------
(* The syncer.                                                             *)

\* The holders whose lease a request may find run out.
MayExpire == {gone \in SUBSET d.members : Cardinality(gone) <= left.events["expire"]}

Handle(e, h, m) ==
    CASE m.type = "hello"     -> Open(e, h)
      [] m.type = "claim"     -> Claim(e, h, m.seq, m.count)
      [] m.type = "report"    -> Report(e, h, m.seq, m.body)
      [] m.type = "heartbeat" -> Heartbeat(e, h)

\* DispenseService::with: silent members expire, then the request is handled.
Answered(h, m, gone) == Handle(Expire(d, gone), h, m)

\* serve: the next request of island i's connection.
Serve(i) ==
    /\ wire[i] # Nothing
    /\ \E gone \in MayExpire :
        /\ d' = Answered(Holder(i), wire[i], gone).d
        /\ reply' = [reply EXCEPT ![i] = Answered(Holder(i), wire[i], gone).ans]
        /\ Expires(gone)
    /\ wire' = [wire EXCEPT ![i] = Nothing]
    /\ UNCHANGED <<client, late, saving, disk, epoch>>

\* serve: a request the client no longer waits for; its answer goes nowhere.
ServeLate(m) ==
    /\ \E gone \in MayExpire :
        /\ d' = Answered(m.from, m.request, gone).d
        /\ Expires(gone)
    /\ late' = late \ {m}
    /\ UNCHANGED <<client, wire, reply, saving, disk, epoch>>

\* A process joins the member table on its subscriber or relay connection,
\* which also expires silent members but returns no rows.
JoinElsewhere(i) ==
    /\ i \in Unsteady
    /\ client[i].status \in {"starting", "running"}
    /\ Holder(i) \notin d.members
    /\ \E gone \in MayExpire :
        LET e == Retire(d, gone, "expired")
        IN  /\ ~IsRetired(e, Holder(i))
            /\ d' = Join(e, Holder(i))
            /\ HappensAs("elsewhere", gone)
    /\ UNCHANGED <<client, wire, reply, late, saving, disk, epoch>>

\* The task of run() that reclaims the rows of holders retired elsewhere.
Reap ==
    /\ \E h \in d.live : IsRetired(d, h)
    /\ \E gone \in MayExpire :
        /\ d' = Expire(d, gone)
        /\ Expires(gone)
    /\ UNCHANGED <<client, wire, reply, late, saving, disk, epoch>>

\* The cut of a checkpoint: the record is captured with the model state.
Cut ==
    /\ saving = Nothing
    /\ \E gone \in MayExpire :
        LET e == Expire(d, gone)
        IN  /\ d' = e
            /\ saving' = [type |-> "record", record |-> Encode(e), trained |-> e.trained]
            /\ HappensAs("cut", gone)
    /\ UNCHANGED <<client, wire, reply, late, disk, epoch>>

\* Mutant: the checkpoint is renamed into place before the record.
SaveCheckpointFirst ==
    /\ saving.type = "record"
    /\ disk' = [disk EXCEPT !.trained = saving.trained]
    /\ saving' = [saving EXCEPT !.type = "checkpoint"]
    /\ UNCHANGED <<d, client, wire, reply, late, epoch, left>>

\* CheckpointSnapshot::save: the record is renamed into place first ...
SaveRecord ==
    /\ saving.type = "record"
    /\ disk' = [disk EXCEPT !.record = saving.record]
    /\ saving' = [saving EXCEPT !.type = "checkpoint"]
    /\ UNCHANGED <<d, client, wire, reply, late, epoch, left>>

\* ... then the checkpoint.
SaveCheckpoint ==
    /\ saving.type = "checkpoint"
    /\ disk' = [disk EXCEPT !.trained = saving.trained]
    /\ saving' = Nothing
    /\ UNCHANGED <<d, client, wire, reply, late, epoch, left>>

\* The syncer dies and is started again with --resume (initial_dispense):
\* the record on disk, the model of the checkpoint on disk.
Crash ==
    /\ Happens("crash")
    /\ epoch' = epoch + 1
    /\ d' = [Restore(disk.record) EXCEPT !.trained = disk.trained]
    /\ client' = [i \in Islands |->
                    [client[i] EXCEPT !.conn = "none",
                                      !.orphan = @ \/ (Running(i) /\ Holder(i) \notin disk.record.fence)]]
    /\ wire' = [i \in Islands |-> Nothing]
    /\ reply' = [i \in Islands |-> Nothing]
    /\ late' = {}
    /\ saving' = Nothing
    /\ UNCHANGED disk

----------------------------------------------------------------------------
(* The worker thread of an island process (TaskSource._run).               *)

Idle(i) == wire[i] = Nothing /\ reply[i] = Nothing

\* _open: connect and send TASK_HELLO.
Connect(i) ==
    /\ client[i].status \in {"starting", "running"}
    /\ client[i].conn = "none"
    /\ client' = [client EXCEPT ![i].conn = "opening"]
    /\ wire' = [wire EXCEPT ![i] = [type |-> "hello"]]
    /\ UNCHANGED <<reply, late, syncer, left>>

WantClaim(i) ==
    LET c == client[i]
    IN  c.ended = 0 /\ c.closing = "no" /\ BagCardinality(c.ready) < Block[i] * Prefetch

\* Mutant: a request is not sent again after a reconnect.
NextRequestAnew(i) ==
    LET c == client[i]
    IN  IF c.pending # EmptyBag THEN [type |-> "report", seq |-> c.seq + 1, body |-> c.pending]
        ELSE IF WantClaim(i) THEN [type |-> "claim", seq |-> c.seq + 1, count |-> Block[i]]
        ELSE [type |-> "heartbeat", seq |-> c.seq]

\* The request _step sends: the one on the wire before a reconnect, the
\* queued reports, a claim, or a heartbeat.
NextRequest(i) ==
    LET c == client[i]
    IN  IF c.inflight # Nothing THEN c.inflight
        ELSE IF c.pending # EmptyBag THEN [type |-> "report", seq |-> c.seq + 1, body |-> c.pending]
        ELSE IF WantClaim(i) THEN [type |-> "claim", seq |-> c.seq + 1, count |-> Block[i]]
        ELSE [type |-> "heartbeat", seq |-> c.seq]

\* _step up to the blocking call.
Send(i) ==
    LET c == client[i]
        m == NextRequest(i)
    IN  /\ Running(i)
        /\ c.conn = "open"
        /\ Idle(i)
        /\ m.seq <= left.requests[i]
        /\ wire' = [wire EXCEPT ![i] = m]
        /\ client' = [client EXCEPT ![i] =
                IF m.type = "heartbeat" \/ m = c.inflight THEN c
                ELSE [c EXCEPT !.inflight = m,
                               !.seq = m.seq,
                               !.pending = IF m.type = "report" THEN EmptyBag ELSE c.pending]]
        /\ UNCHANGED <<reply, late, syncer, left>>

\* An answer of the given type arrives; the process becomes c.
Receive(i, type, c) ==
    /\ reply[i].type = type
    /\ reply' = [reply EXCEPT ![i] = Nothing]
    /\ client' = [client EXCEPT ![i] = c]
    /\ UNCHANGED <<wire, late, syncer, left>>

Welcomed(i) ==
    Receive(i, "welcome", [client[i] EXCEPT !.conn = "open", !.status = "running"])

Granted(i) ==
    Receive(i, "grant",
        [client[i] EXCEPT !.inflight = Nothing,
                          !.ready = @ (+) SetToBag({<<p, reply[i].block>> : p \in reply[i].given})])

Waits(i) ==
    Receive(i, "wait", [client[i] EXCEPT !.inflight = Nothing])

Ends(i) ==
    Receive(i, "end", [client[i] EXCEPT !.inflight = Nothing, !.ended = epoch])

Acked(i) ==
    Receive(i, "ack", [client[i] EXCEPT !.inflight = Nothing])

\* A fence as superseded, or of the first connection (start), is final.
FencedForGood(i) ==
    /\ reply[i].type = "fenced"
    /\ reply[i].why = "superseded" \/ ~Running(i)
    /\ Receive(i, "fenced", [client[i] EXCEPT !.conn = "none", !.status = "fenced"])

\* _reset_after_fence: drop the blocks, go on as a new incarnation.
ResetAfterFence(i) ==
    /\ reply[i].type = "fenced"
    /\ reply[i].why # "superseded"
    /\ Running(i)
    /\ client[i].inc < MaxIncarnation
    /\ Receive(i, "fenced",
        [Process(client[i].inc + 1) EXCEPT !.status = "running",
                                           !.seq = client[i].seq,
                                           !.ended = client[i].ended,
                                           !.closing = client[i].closing])

\* Any other refusal is fatal.
Refused(i) ==
    Receive(i, "refused", [client[i] EXCEPT !.conn = "none", !.status = "refused"])

----------------------------------------------------------------------------
(* The rollout's calls (TaskSource.take, report, release_ready and close). *)

\* report(kind = P) for taken positions P.
Reported(c, kind, P) ==
    [c EXCEPT !.owner = [p \in DOMAIN @ \ P |-> @[p]],
              !.pending = @ (+) SetToBag({[block |-> c.owner[p], kind |-> kind, pos |-> p] : p \in P})]

\* release_ready moves the ready positions to the taken ones, then releases them.
ReadyReleased(c) ==
    LET R     == {e[1] : e \in BagToSet(c.ready)}
        taken == [p \in DOMAIN c.owner \cup R |->
                    IF p \in R THEN (CHOOSE e \in BagToSet(c.ready) : e[1] = p)[2] ELSE c.owner[p]]
    IN  Reported([c EXCEPT !.ready = EmptyBag, !.owner = taken], "release", R)

Take(i) ==
    LET c == client[i]
    IN  /\ Running(i)
        /\ \E e \in BagToSet(c.ready) :
            client' = [client EXCEPT ![i] =
                [c EXCEPT
                    !.ready = c.ready (-) SetToBag({e}),
                    !.owner = [p \in DOMAIN c.owner \cup {e[1]} |-> IF p = e[1] THEN e[2] ELSE c.owner[p]]]]
        /\ UNCHANGED <<wire, reply, late, syncer, left>>

ReportOne(i) ==
    /\ Running(i)
    /\ \E p \in DOMAIN client[i].owner, kind \in Reports[i] :
        client' = [client EXCEPT ![i] = Reported(@, kind, {p})]
    /\ UNCHANGED <<wire, reply, late, syncer, left>>

\* DispensedRows._give_up: release_ready(stop_claims=True), then the taken
\* positions P that do not wait for a commit.
GiveUp(i) ==
    /\ i \in Unsteady
    /\ Running(i)
    /\ client[i].closing = "no"
    /\ LET c == ReadyReleased([client[i] EXCEPT !.closing = "closing"])
       IN  \E P \in SUBSET DOMAIN c.owner :
            client' = [client EXCEPT ![i] = Reported(c, "release", P)]
    /\ Happens("give up")
    /\ UNCHANGED <<wire, reply, late, syncer>>

\* close: no more claims ...
CloseStart(i) ==
    /\ i \in Unsteady
    /\ Running(i)
    /\ client[i].closing = "no"
    /\ client' = [client EXCEPT ![i].closing = "closing"]
    /\ Happens("close")
    /\ UNCHANGED <<wire, reply, late, syncer>>

\* Mutant: a claim on the wire is not waited for.
CloseReleaseAtOnce(i) ==
    LET c == ReadyReleased(client[i])
    IN  /\ Running(i)
        /\ client[i].closing = "closing"
        /\ client' = [client EXCEPT ![i] =
                        [Reported(c, "release", DOMAIN c.owner) EXCEPT !.closing = "released"]]
        /\ UNCHANGED <<wire, reply, late, syncer, left>>

\* ... then, with no claim on the wire, everything unreported is released ...
CloseRelease(i) ==
    LET c == ReadyReleased(client[i])
    IN  /\ Running(i)
        /\ client[i].closing = "closing"
        /\ client[i].inflight.type # "claim"
        /\ client' = [client EXCEPT ![i] =
                        [Reported(c, "release", DOMAIN c.owner) EXCEPT !.closing = "released"]]
        /\ UNCHANGED <<wire, reply, late, syncer, left>>

Abandoned(i) ==
    IF wire[i] = Nothing THEN {} ELSE {[from |-> Holder(i), request |-> wire[i]]}

\* The connection of island i is gone and its process becomes c.
Disconnect(i, c) ==
    /\ client' = [client EXCEPT ![i] = c]
    /\ late' = late \cup Abandoned(i)
    /\ wire' = [wire EXCEPT ![i] = Nothing]
    /\ reply' = [reply EXCEPT ![i] = Nothing]
    /\ UNCHANGED <<d, saving, disk, epoch>>

\* ... and once every report is acknowledged the process stops.
Stop(i) ==
    /\ Running(i)
    /\ client[i].closing = "released"
    /\ client[i].pending = EmptyBag
    /\ client[i].inflight = Nothing
    /\ Disconnect(i, [client[i] EXCEPT !.conn = "none", !.status = "stopped"])
    /\ UNCHANGED left

----------------------------------------------------------------------------
(* Faults of the network and of the islands.                               *)

\* A connection error: the worker reconnects, the first connection fails.
Break(i) ==
    /\ i \in Unsteady
    /\ client[i].conn # "none"
    /\ Happens("break")
    /\ Disconnect(i, [client[i] EXCEPT !.conn = "none",
                                       !.status = IF Running(i) THEN @ ELSE "failed"])

\* The process dies, or has ended, and the island is started again.
Relaunch(i) ==
    /\ i \in Unsteady
    /\ client[i].inc < MaxIncarnation
    /\ Happens("relaunch")
    /\ Disconnect(i, Process(client[i].inc + 1))

----------------------------------------------------------------------------

Init ==
    /\ d = Fresh
    /\ client = [i \in Islands |-> Process(1)]
    /\ wire = [i \in Islands |-> Nothing]
    /\ reply = [i \in Islands |-> Nothing]
    /\ late = {}
    /\ saving = Nothing
    /\ disk = [record |-> Encode(Fresh), trained |-> Fresh.trained]
    /\ epoch = 1
    /\ left \in Scenarios

Worker(i) ==
    \/ Connect(i) \/ Send(i)
    \/ Welcomed(i) \/ Granted(i) \/ Waits(i) \/ Ends(i) \/ Acked(i)
    \/ FencedForGood(i) \/ ResetAfterFence(i) \/ Refused(i)

Rollout(i) ==
    Take(i) \/ ReportOne(i) \/ GiveUp(i) \/ CloseStart(i) \/ CloseRelease(i) \/ Stop(i)

Next ==
    \/ \E i \in Islands :
        \/ Serve(i) \/ JoinElsewhere(i)
        \/ Worker(i)
        \/ Rollout(i)
        \/ Break(i) \/ Relaunch(i)
    \/ \E m \in late : ServeLate(m)
    \/ Reap
    \/ Cut \/ SaveRecord \/ SaveCheckpoint
    \/ Crash

Spec == Init /\ [][Next]_vars

----------------------------------------------------------------------------
(* Properties.                                                             *)


Queued == DOMAIN d.queue

Held == {x.pos : x \in d.held}

Given == {p \in Position : p[2] < d.next[p[1]]}

\* The <<position, block>> pairs a process has been granted and has not had
\* acknowledged.
Known(i) ==
    LET c       == client[i]
        reports == BagToSet(c.pending)
                     \cup (IF c.inflight.type = "report" THEN BagToSet(c.inflight.body) ELSE {})
    IN  BagToSet(c.ready)
          \cup {<<p, c.owner[p]>> : p \in DOMAIN c.owner}
          \cup {<<e.pos, e.block>> : e \in reports}

\* The answer to the request island i waits for, if it has been handled.
Handled(i) ==
    LET last == d.last[Holder(i)]
    IN  IF client[i].inflight # Nothing /\ last.seq = client[i].inflight.seq
        THEN last.ans
        ELSE [type |-> "none"]

HeldBy(h) == {<<x.pos, x.block>> : x \in {y \in d.held : y.holder = h}}

(***************************************************************************)
(* Dispenser::check_invariants: every position given out is settled,       *)
(* queued or held by one live holder, exactly once, and the queues have no *)
(* gaps; after any mix of expiries, supersessions, resent and late         *)
(* requests and restarts.                                                  *)
(***************************************************************************)
Accounted ==
    /\ \A x, y \in d.held : x.pos = y.pos => x = y
    /\ Held \cap Queued = {}
    /\ Held \cup Queued \subseteq Given
    /\ \A x \in d.held : x.holder \in d.live
    /\ d.settled + Cardinality(Held) + Cardinality(Queued) = Cardinality(Given)
    /\ \A s \in Streams :
        LET Q == {p \in Queued : p[1] = s}
        IN  {d.queue[p] : p \in Q} = 1 .. Cardinality(Q)

(***************************************************************************)
(* "Reported trained at most once": in the history of the model the        *)
(* learners train, restarts included, no row's report as trained is        *)
(* accepted twice, and a trained row is never given out again.             *)
(***************************************************************************)
TrainedOnce ==
    \A p \in Position :
        /\ d.trained[p] <= 1
        /\ d.trained[p] = 1 => p \in Given \ (Held \cup Queued)

(***************************************************************************)
(* Every holder that keeps rows can lose them: it has a lease in the       *)
(* member table, or the table retired it on some channel and the next      *)
(* request returns its rows.                                               *)
(***************************************************************************)
LiveIsTracked ==
    \A h \in d.live : h \in d.members \/ IsRetired(d, h)

(***************************************************************************)
(* The dispenser and a process that renews its lease agree on what the     *)
(* process holds.  No lost grant: whatever is held for it is known to it,  *)
(* or is in the stored answer it gets when it resends its claim; otherwise *)
(* the row would never be reported.  And a row it believes it holds is     *)
(* held for it, unless its report was applied and only the answer is       *)
(* missing.  Both as long as it is not fenced and no restarted syncer      *)
(* forgot it.                                                              *)
(***************************************************************************)
HoldingsAgree ==
    \A i \in Islands :
        Running(i) /\ RequireLive(d, Holder(i)) /\ ~client[i].orphan =>
            /\ HeldBy(Holder(i)) \subseteq
                  Known(i) \cup (IF Handled(i).type = "grant"
                                 THEN {<<p, Handled(i).block>> : p \in Handled(i).given}
                                 ELSE {})
            /\ Handled(i).type # "ack" => Known(i) \subseteq HeldBy(Holder(i))

(***************************************************************************)
(* A process is refused for good only after a restart of the syncer from a *)
(* record that does not know it: resent and late requests of a connection  *)
(* that broke are never taken for impossible ones.                         *)
(***************************************************************************)
RefusedOnlyOrphans ==
    \A i \in Islands : client[i].status = "refused" => client[i].orphan

(***************************************************************************)
(* END means the data ended: while the syncer that said so runs, every row *)
(* of the island's streams has been given out and settled.                 *)
(***************************************************************************)
EndMeansDone ==
    \A i \in Islands :
        client[i].ended = epoch =>
            \A p \in Position : p[1] \in Accept[i] => p \in Given \ (Held \cup Queued)

(***************************************************************************)
(* TaskSource.close: a process that stopped cleanly left nothing behind.   *)
(***************************************************************************)
CloseGivesBack ==
    \A i \in Islands : client[i].status = "stopped" => HeldBy(Holder(i)) = {}

=============================================================================
