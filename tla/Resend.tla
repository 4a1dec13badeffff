------------------------------- MODULE Resend -------------------------------
(***************************************************************************)
(* How one learner connection receives fragment versions.  The scheduler   *)
(* broadcasts a published version inline when the connection's writer      *)
(* queues have room; otherwise, and while the connection is being caught   *)
(* up, a forwarder task sends it (syncer/src/resend.rs, and ResendConn,    *)
(* resend_forwarder and BulkResends of syncer/src/server.rs).              *)
(*                                                                         *)
(* Versions are the global steps of the merges; None (-1) is "no version". *)
(* A frame is <<fragment, version>>.  The tensors, their dtype and the     *)
(* downlink headers are left out.                                          *)
(***************************************************************************)
EXTENDS Schedule, Sequences, FiniteSets

CONSTANTS
    TotalSteps,     \* --total-steps
    QueueCap        \* frames the writer queues of the connection hold

ASSUME ResendAssumption ==
    /\ TotalSteps \in Nat
    /\ QueueCap \in Nat \ {0}

VARIABLES
    step,           \* st.global_step: every commit up to it is published
    cut,            \* owned fragments before `cut` were sent as the initial cut
    current,        \* this connection is its learner's current generation
    open,           \* its streams are open
    events,         \* scheduler events about it not handled yet
    entry,          \* it has a BulkResends entry
    tail,           \* the tails the entry still owes ({}: none)
    pending,        \* Pending.entries: fragment -> version or None
    sent,           \* Pending.sent
    target,         \* Pending.targets
    prelude,        \* exact frames sent before anything pending
    flight,         \* the frames popped and not yet in the writer queues (<= 1)
    targetInFlight, \* that frame met a target
    task,           \* the forwarder: "none", "running", "stopping" or "ended"
    writer,         \* the frames in the writer queues, oldest first
    got,            \* fragment -> newest version the learner received
    floor,          \* Membership catch-up versions recorded by the tail
    owed,           \* history: the versions owed when the last catch-up began
    sends,          \* history: frames popped since then
    budget          \* history: preludes and targets there were then

connVars == <<pending, sent, target, prelude, flight, targetInFlight, task>>

history == <<owed, sends, budget>>

vars == <<step, cut, current, open, events, entry, tail, connVars, writer,
          got, floor, history>>

None == -1

LastStep == LastStepOf(TotalSteps)

Versions == 0 .. LastStep

Version(p) == ExpectedVersion(p, step)

NoVersions == [p \in Owned |-> None]

MaxOf(a, b) == IF a >= b THEN a ELSE b

(***************************************************************************)
(* Pending (resend.rs).                                                    *)
(***************************************************************************)

\* Mutant: a pending version is kept although a newer one is offered.
OfferedKeepingOldest(offers) ==
    [p \in Owned |->
        IF p \in DOMAIN offers /\ offers[p] > sent[p] /\ pending[p] = None
        THEN offers[p] ELSE pending[p]]

\* Pending::offer of version v of every fragment p in `offers` (p -> v).
Offered(offers) ==
    [p \in Owned |->
        IF p \in DOMAIN offers /\ offers[p] > sent[p] /\ offers[p] > pending[p]
        THEN offers[p] ELSE pending[p]]

\* Mutant: a catch-up sets no targets.
RequiredNothing(entries) == target

\* Pending::require_pending, after `entries` was offered.
Required(entries) ==
    [p \in Owned |-> IF entries[p] = None THEN target[p]
                     ELSE MaxOf(target[p], entries[p])]

HasPending == \E p \in Owned : pending[p] # None

\* The order of Pending::pop: targets first, then the oldest version, then the
\* lowest fragment.
Before(p, q) ==
    \/ target[p] # None /\ target[q] = None
    \/ /\ (target[p] = None) <=> (target[q] = None)
       /\ \/ pending[p] < pending[q]
          \/ pending[p] = pending[q] /\ p < q

NextToPop ==
    CHOOSE p \in Owned :
        /\ pending[p] # None
        /\ \A q \in Owned \ {p} : pending[q] # None => Before(p, q)

\* Mutant: a target is met only by a newer version.
MeetsStrictly(p) == target[p] # None /\ pending[p] > target[p]

\* Popping fragment p's entry meets its target.
Meets(p) == target[p] # None /\ pending[p] >= target[p]

Unmet == {p \in Owned : target[p] # None}

(***************************************************************************)
(* ResendConn.                                                             *)
(***************************************************************************)

NewConn ==
    /\ pending' = NoVersions
    /\ sent' = NoVersions
    /\ target' = NoVersions
    /\ prelude' = <<>>
    /\ flight' = {}
    /\ targetInFlight' = FALSE
    /\ task' = "none"

CaughtUp == task = "ended" \/ (Unmet = {} /\ ~targetInFlight)

Drained == task = "ended" \/ (prelude = <<>> /\ ~HasPending /\ flight = {})

HandedOver ==
    [p \in Owned |-> IF pending[p] # None THEN MaxOf(sent[p], 0) ELSE Version(p)]

QueueRoom == Len(writer) < QueueCap

\* Mutant: a forwarder with nothing pending does not count as a sender.
ForwarderOwnsPending == entry /\ HasPending

\* Publications go to the connection's forwarder (Registry.resends has it).
ForwarderOwns == entry

(***************************************************************************)
(* The scheduler.  It never waits on the connection's link.                *)
(***************************************************************************)

Init ==
    /\ step = 0
    /\ cut \in {First, End}
    /\ current = TRUE
    /\ open = TRUE
    \* A learner that was there for the initial cut may still have its HELLO
    \* queued; one that came later always has.
    /\ events \in SUBSET {"hello", "disconnected"}
    /\ cut = End => "hello" \in events
    /\ entry = FALSE
    /\ tail = {}
    /\ pending = NoVersions /\ sent = NoVersions /\ target = NoVersions
    /\ prelude = <<>>
    /\ flight = {}
    /\ targetInFlight = FALSE
    /\ task = "none"
    /\ writer = <<>>
    /\ got = NoVersions
    /\ floor = NoVersions
    /\ owed = NoVersions
    /\ sends = 0
    /\ budget = 0

\* BulkResends::spill and spill_initial push an entry without a tail.
NewEntry ==
    /\ entry' = TRUE
    /\ task' = "running"

\* One fragment of broadcast_initial_cut.
SendInitial ==
    LET frame == <<cut, Version(cut)>>
    IN  /\ cut < End
        /\ cut' = cut + 1
        /\ \/ /\ entry
              /\ prelude' = IF task = "ended" THEN prelude ELSE Append(prelude, frame)
              /\ UNCHANGED <<writer, entry, task>>
           \/ /\ ~entry /\ open /\ QueueRoom
              /\ writer' = Append(writer, frame)
              /\ UNCHANGED <<prelude, entry, task>>
           \/ /\ ~entry /\ open /\ ~QueueRoom
              /\ NewEntry
              /\ prelude' = <<frame>>
              /\ UNCHANGED writer
           \/ /\ ~entry /\ ~open
              /\ UNCHANGED <<writer, prelude, entry, task>>
        /\ UNCHANGED <<step, current, open, events, tail, pending, sent, target,
                       flight, targetInFlight, got, floor, history>>

\* apply_round_commit and publish_round of the next step.  broadcast_round
\* offers the version to the forwarder, sends it inline or spills; the last
\* step is not broadcast.
Publish ==
    LET t == StepAfter(step)
        p == FragmentForStep(t)
    IN  /\ cut = End
        /\ t <= LastStep
        /\ step' = t
        /\ \/ /\ t < LastStep /\ ForwarderOwns
              /\ pending' = IF task = "ended" THEN pending
                            ELSE Offered([q \in {p} |-> t])
              /\ UNCHANGED <<writer, entry, task>>
           \/ /\ t < LastStep /\ ~ForwarderOwns /\ current /\ open /\ QueueRoom
              /\ writer' = Append(writer, <<p, t>>)
              /\ UNCHANGED <<pending, entry, task>>
           \/ /\ t < LastStep /\ ~ForwarderOwns /\ current /\ open /\ ~QueueRoom
              /\ NewEntry
              /\ pending' = Offered([q \in {p} |-> t])
              /\ UNCHANGED writer
           \/ /\ t = LastStep \/ (~ForwarderOwns /\ ~(current /\ open))
              /\ UNCHANGED <<writer, pending, entry, task>>
        /\ UNCHANGED <<cut, current, open, events, tail, sent, target, prelude,
                       flight, targetInFlight, got, floor, history>>

\* BulkResends::start: owe the current version of every owned fragment (none
\* after the last step) and make everything pending a target.
Start(kind) ==
    LET owing   == IF step < LastStep THEN Owned ELSE {}
        entries == Offered([p \in owing |-> Version(p)])
        targets == Required(entries)
    IN  /\ tail' = tail \cup {kind}
        /\ entry' = TRUE
        /\ task' = IF entry THEN task ELSE "running"
        /\ pending' = entries
        /\ target' = targets
        /\ owed' = [p \in Owned |-> IF p \in owing THEN Version(p) ELSE owed[p]]
        /\ sends' = 0
        /\ budget' = Len(prelude) + Cardinality({p \in Owned : targets[p] # None})
        /\ UNCHANGED <<sent, prelude, flight, targetInFlight>>

\* Event::Hello of this generation (REJOIN), and Event::Disconnected of the
\* generation it replaced (REBIND).  Both are ignored when it is not current.
HandleEvent(event) ==
    /\ cut = End
    /\ event \in events
    /\ events' = events \ {event}
    /\ \/ current /\ Start(IF event = "hello" THEN "rejoin" ELSE "rebind")
       \/ ~current /\ UNCHANGED <<entry, tail, connVars, history>>
    /\ UNCHANGED <<step, cut, current, open, writer, got, floor>>

\* BulkResends::drop_superseded.
DropSuperseded ==
    /\ entry
    /\ ~current
    /\ entry' = FALSE
    /\ tail' = {}
    /\ task' = IF task = "running" THEN "stopping" ELSE task
    /\ UNCHANGED <<step, cut, current, open, events, pending, sent, target,
                   prelude, flight, targetInFlight, writer, got, floor, history>>

\* BulkResends::take_due and the tail it returns: finish_catch_up records the
\* floor of a rejoin.  A resend with nothing left to send is then removed.
TakeDue ==
    /\ entry /\ current
    /\ tail # {} => CaughtUp
    /\ tail' = {}
    /\ floor' = IF "rejoin" \in tail THEN HandedOver ELSE floor
    /\ \/ /\ Drained /\ (task = "ended" \/ QueueRoom)
          /\ entry' = FALSE
          /\ NewConn
       \/ /\ ~(Drained /\ (task = "ended" \/ QueueRoom))
          /\ tail # {}
          /\ UNCHANGED <<entry, connVars>>
    /\ UNCHANGED <<step, cut, current, open, events, writer, got, history>>

\* BulkResends::stop at the end of the round loop.
Stop ==
    /\ entry
    /\ step = LastStep
    /\ entry' = FALSE
    /\ tail' = {}
    /\ task' = IF task = "running" THEN "stopping" ELSE task
    /\ events' = {}
    /\ UNCHANGED <<step, cut, current, open, pending, sent, target, prelude,
                   flight, targetInFlight, writer, got, floor, history>>

(***************************************************************************)
(* resend_forwarder.                                                       *)
(***************************************************************************)

ForwardPrelude ==
    LET frame == Head(prelude)
    IN  /\ task = "running" /\ flight = {}
        /\ prelude # <<>>
        /\ prelude' = Tail(prelude)
        /\ sent' = [sent EXCEPT ![frame[1]] = MaxOf(@, frame[2])]
        /\ flight' = {frame}
        /\ targetInFlight' = FALSE
        /\ sends' = sends + 1
        /\ UNCHANGED <<step, cut, current, open, events, entry, tail, pending,
                       target, task, writer, got, floor, owed, budget>>

ForwardPending ==
    LET p   == NextToPop
        met == Meets(p)
    IN  /\ task = "running" /\ flight = {}
        /\ prelude = <<>>
        /\ HasPending
        /\ pending' = [pending EXCEPT ![p] = None]
        /\ sent' = [sent EXCEPT ![p] = pending[p]]
        /\ target' = IF met THEN [target EXCEPT ![p] = None] ELSE target
        /\ flight' = {<<p, pending[p]>>}
        /\ targetInFlight' = met
        /\ sends' = sends + 1
        /\ UNCHANGED <<step, cut, current, open, events, entry, tail, prelude,
                       task, writer, got, floor, owed, budget>>

\* send_tensor_large returned: the frame is in the writer queues, or the
\* stream is closed and the forwarder ends.
HandOver ==
    /\ flight # {}
    /\ \/ /\ open /\ QueueRoom
          /\ \E frame \in flight : writer' = Append(writer, frame)
          /\ UNCHANGED task
       \/ /\ ~open
          /\ task' = "ended"
          /\ UNCHANGED writer
    /\ flight' = {}
    /\ targetInFlight' = FALSE
    /\ UNCHANGED <<step, cut, current, open, events, entry, tail, pending, sent,
                   target, prelude, got, floor, history>>

ForwarderStops ==
    /\ task = "stopping" /\ flight = {}
    /\ task' = "ended"
    /\ UNCHANGED <<step, cut, current, open, events, entry, tail, pending, sent,
                   target, prelude, flight, targetInFlight, writer, got, floor,
                   history>>

(***************************************************************************)
(* The link and the connection.                                            *)
(***************************************************************************)

\* The learner keeps the newest version (yeto/protocol.py ignores an older
\* BCAST); the streams of a connection may deliver out of order.
Deliver ==
    /\ open
    /\ \E i \in 1 .. Len(writer) :
          LET frame == writer[i]
          IN  /\ writer' = SubSeq(writer, 1, i - 1) \o SubSeq(writer, i + 1, Len(writer))
              /\ got' = [got EXCEPT ![frame[1]] = MaxOf(@, frame[2])]
    /\ UNCHANGED <<step, cut, current, open, events, entry, tail, connVars,
                   floor, history>>

\* The streams fail.
Close ==
    /\ open
    /\ open' = FALSE
    /\ writer' = <<>>
    /\ UNCHANGED <<step, cut, current, events, entry, tail, connVars, got, floor,
                   history>>

\* The connection is unregistered, or a newer generation registers.
Superseded ==
    /\ current
    /\ current' = FALSE
    /\ UNCHANGED <<step, cut, open, events, entry, tail, connVars, writer, got,
                   floor, history>>

Forwarder == ForwardPrelude \/ ForwardPending \/ HandOver \/ ForwarderStops

Scheduler ==
    \/ SendInitial
    \/ Publish
    \/ \E event \in {"hello", "disconnected"} : HandleEvent(event)
    \/ DropSuperseded
    \/ TakeDue
    \/ Stop

Next == Scheduler \/ Forwarder \/ Deliver \/ Close \/ Superseded

\* The forwarder task and the connection's writers are always scheduled, and
\* the scheduler looks at its events and resends at least every
\* RESEND_CHECK_INTERVAL.  Nothing forces a merge, a failure or a reconnect.
Fairness ==
    /\ WF_vars(Forwarder)
    /\ WF_vars(Deliver)
    /\ WF_vars(SendInitial)
    /\ WF_vars(\E event \in {"hello", "disconnected"} : HandleEvent(event))
    /\ WF_vars(DropSuperseded)
    /\ WF_vars(TakeDue)

Spec == Init /\ [][Next]_vars /\ Fairness

(***************************************************************************)
(* Properties.                                                             *)
(***************************************************************************)

\* What the connection was given of fragment p: received, queued, in flight.
Given(p) ==
    {got[p]} \cup {f[2] : f \in {g \in flight : g[1] = p}}
             \cup {writer[i][2] : i \in {j \in 1 .. Len(writer) : writer[j][1] = p}}

\* "An entry is never older than its fragment's target" (Pending::pop): an
\* unmet target always has a pending entry that will meet it, so the tail
\* cannot wait for a version nobody is going to send.
TargetsCovered ==
    \A p \in Owned : target[p] # None => pending[p] >= target[p]

\* One sender per learner: whatever mix of initial cut, inline broadcasts,
\* spills and catch-ups it went through, the connection is never handed a
\* version of a fragment older than one it was handed before.
NeverBackwards ==
    /\ \A i, j \in 1 .. Len(writer) :
          i < j /\ writer[i][1] = writer[j][1] => writer[i][2] <= writer[j][2]
    /\ \A i \in 1 .. Len(writer) : \A f \in flight :
          f[1] = writer[i][1] => writer[i][2] <= f[2]

\* The tail of a catch-up (finish_catch_up: record the floor, replay and
\* rebind pulls) runs only once every version owed at its start, or a newer
\* one, was given to the connection, unless the connection failed.  So the
\* floor it records, which fences pushes from older bases, never fences a
\* caught-up learner: it has been given every fragment at its floor or newer.
TailAfterOwed ==
    /\ [][ (tail # {} /\ tail' = {} /\ current /\ open /\ step < LastStep)
              => \A p \in Owned : \E v \in Given(p) : v >= owed[p] ]_vars
    /\ [](open /\ current /\ step < LastStep =>
              \A p \in Owned : \E v \in Given(p) : v >= floor[p])

\* A catch-up always ends: its tail runs, or the connection is no longer the
\* learner's current one.  And it ends soon: "the tail needs at most one send
\* per target however fast merges publish" (resend.rs): until the targets are
\* handed over, the forwarder has popped no more frames than there were exact
\* frames and targets when the catch-up began.
CatchUpEnds ==
    /\ (tail # {}) ~> (tail = {})
    /\ [](tail # {} /\ ~CaughtUp => sends <= budget)

\* Coalescing loses nothing: every broadcast version reaches the learner, or a
\* newer one does, or the connection fails, is replaced or training ends.
EveryVersionArrives ==
    \A p \in Owned : \A v \in Versions :
        (cut = End /\ Version(p) = v) ~>
            (got[p] >= v \/ ~open \/ ~current \/ step = LastStep)

=============================================================================
