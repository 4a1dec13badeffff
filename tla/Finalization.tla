---------------------------- MODULE Finalization ----------------------------
(***************************************************************************)
(* The end of a run: the syncer freezes the final cut, sends it to every   *)
(* learner, and stays until they have installed and acknowledged it        *)
(* (finalize_learners_after in server.rs; finalization.py and the client   *)
(* of protocol.py on the island's side).                                   *)
(*                                                                         *)
(* A member is a learner and the generation of its connection.  Every      *)
(* connection has its task in the syncer, which registers the member,      *)
(* queues what it reads, and queues Disconnected after it unregistered.    *)
(***************************************************************************)
EXTENDS Integers, FiniteSets, Sequences

CONSTANTS
    Learners,       \* the learners, by number
    NumFragments,   \* fragments of the final cut
    Scenarios,      \* the cases explored, see Scenario
    MaxGen,         \* bound on the connection generations of a learner
    Restless        \* the learners that leave, lose a connection or are killed

\* grace: --final-grace-s is given; lease: members hold leases; inline:
\* --inline-broadcast; fixed: the roster is fixed; manifest: the cut is its
\* manifest alone (--final-cut-payload manifest).
Mode == [grace : BOOLEAN, lease : BOOLEAN, inline : BOOLEAN, fixed : BOOLEAN,
         manifest : BOOLEAN]

\* A learner is connected, its Hello handled or still queued; or it has gone,
\* its Disconnected still queued or handled.
Start == [Learners -> {"up", "greeting", "closing", "gone"}]

\* A configuration, a start, and a bound on lost connections and killed islands.
Scenario == [mode : Mode, start : Start, faults : Nat]

ASSUME FinalizationAssumption ==
    /\ Learners \subseteq Nat /\ IsFiniteSet(Learners)
    /\ NumFragments \in Nat \ {0}
    /\ MaxGen \in Nat \ {0} /\ Restless \subseteq Learners
    /\ \A s \in Scenarios :
          /\ s \in Scenario
          /\ s.mode.fixed => ~s.mode.grace /\ ~s.mode.lease

VARIABLES
    mode,       \* the configuration of this run
    expected,   \* learners whose acknowledgement is awaited
    eligible,   \* members that were sent the cut
    acked,      \* the generation each learner acknowledged under, 0 if none
    dropped,    \* learners given up as absent
    since,      \* learners with an entry in disconnected_since
    sends,      \* sends under way: to whom, and whether the first one
    awaited,    \* first_sends: sends the wait for acknowledgements starts after
    result,     \* of finalize_learners_after
    groups,     \* registered members
    current,    \* the current generation of each learner, 0 if none
    live,       \* members that hold a lease
    draining,   \* unregistered, Disconnected not queued yet
    queue,      \* events of the scheduler
    island,     \* each learner's process
    frames,     \* frames to members, from the begin of their send to their arrival
    acks,       \* members whose FINAL_ACK is under way
    broken,     \* members whose connection failed
    closed,     \* members whose island closed the connection
    installed,  \* history: learners that installed the whole cut
    faults      \* connections and islands that may still fail

headVars == <<expected, eligible, acked, dropped, since, sends, awaited, result>>
registryVars == <<groups, current, live, draining>>
linkVars == <<frames, acks, broken, closed>>
vars == <<mode, headVars, registryVars, queue, island, linkVars, installed, faults>>

None == 0
Manifest == NumFragments + 1
Shutdown == NumFragments + 2
Event(type, m) == [type |-> type, member |-> m]

\* FinalCut::new: the fragments of the cut; the manifest is sent last.
Fragments == IF mode.manifest THEN {} ELSE 1 .. NumFragments

Acknowledged == {l \in Learners : acked[l] # None}

\* Learners the loop still waits for.
Pending == expected \ (dropped \cup Acknowledged)

In(q, e) == \E i \in 1 .. Len(q) : q[i] = e

\* The queues that hold every event of S once; S has at most one per learner.
Arranged(S) ==
    {q \in UNION {[1 .. n -> S] : n \in 0 .. Cardinality(Learners)} :
        /\ \A e \in S : In(q, e)
        /\ \A i, j \in 1 .. Len(q) : q[i] = q[j] => i = j}

IsCurrent(m) == current[m[1]] = m[2]

(***************************************************************************)
(* Sending the cut.  Each member has a send task of its own; with inline   *)
(* broadcasts the scheduler sends in turn and handles nothing meanwhile.   *)
(***************************************************************************)

InTurn(s) == mode.inline => \A r \in sends : s.to[1] <= r.to[1]

\* The send to m, if there is one, has begun.
Begun(m) == \A s \in sends : s.to = m => InTurn(s)

Send(m, first) == [to |-> m, first |-> first]

\* Connections that take frames.
Open(members) == (members \cap groups) \ (broken \cup closed)

FragmentsTo(members) == Open(members) \X Fragments

(***************************************************************************)
(* Initial states: training is over, some learners are connected, some     *)
(* have gone, and the last event of either may still be queued.            *)
(***************************************************************************)

\* gen is the generation it dialed last, conn that of its open connection.
FreshProcess(gen, conn) ==
    [gen |-> gen, conn |-> conn, stage |-> "run", got |-> {}, ackGen |-> None]

Init ==
    \E sc \in Scenarios :
        LET where == sc.start
            here == {l \in Learners : where[l] \in {"up", "greeting"}}
            last == {IF l \in here THEN Event("Hello", <<l, 1>>)
                                   ELSE Event("Disconnected", <<l, 1>>) :
                         l \in {k \in Learners : where[k] \in {"greeting", "closing"}}}
        IN  /\ mode = sc.mode /\ faults = sc.faults
            /\ queue \in Arranged(last)
            /\ expected = IF mode.fixed THEN Learners ELSE here
            /\ result = IF expected = {} THEN "failed" ELSE "running"
            /\ eligible = IF mode.inline THEN {} ELSE here \X {1}
            /\ sends = {Send(<<l, 1>>, TRUE) : l \in here}
            /\ awaited = Cardinality(here)
            /\ groups = here \X {1}
            /\ current = [l \in Learners |-> IF l \in here THEN 1 ELSE None]
            /\ live = IF mode.lease THEN here \X {1} ELSE {}
            /\ island = [l \in Learners |-> FreshProcess(1, current[l])]
            /\ acked = [l \in Learners |-> None]
            /\ dropped = {} /\ since = {} /\ draining = {}
            /\ acks = {} /\ broken = {} /\ closed = {} /\ frames = FragmentsTo(groups)
            /\ installed = {}

\* Mutant: a first send counts only when it succeeded.
AwaitedOnSuccess(s, ok) == awaited - (IF s.first /\ ok THEN 1 ELSE 0)

Awaited(s, ok) == awaited - (IF s.first THEN 1 ELSE 0)

\* Who is absent when the absences are first looked at, after inline sends.
AbsentNow == {l \in expected : current[l] = None}

\* A send has ended: the manifest is queued behind the fragments, or the
\* connection is gone.
SendEnded(s) ==
    \E ok \in BOOLEAN :
        /\ result = "running" /\ Pending # {} /\ InTurn(s)
        /\ ok \/ Open({s.to}) = {}
        /\ sends' = sends \ {s}
        /\ frames' = IF ok THEN frames \cup (Open({s.to}) \X {Manifest}) ELSE frames
        /\ awaited' = Awaited(s, ok)
        /\ eligible' = IF ok THEN eligible \cup {s.to}
                       ELSE IF mode.inline THEN eligible ELSE eligible \ {s.to}
        /\ since' = IF mode.inline /\ mode.lease /\ s.first /\ awaited' = 0
                    THEN AbsentNow ELSE since
        /\ UNCHANGED <<mode, expected, acked, dropped, result, registryVars, queue,
                       island, acks, broken, closed, installed, faults>>

(***************************************************************************)
(* The loop of finalize_learners_after.                                    *)
(***************************************************************************)

Waiting == result = "running" /\ Pending # {} /\ (mode.inline => sends = {})

Handles(type) == Waiting /\ queue # <<>> /\ Head(queue).type = type

\* record_final_ack.
Accepts(m) == m[1] \in expected /\ m \in eligible /\ acked[m[1]] = None

HandleFinalAck ==
    /\ Handles("FinalAck")
    /\ LET m == Head(queue).member
       IN  acked' = IF Accepts(m) THEN [acked EXCEPT ![m[1]] = m[2]] ELSE acked
    /\ queue' = Tail(queue)
    /\ UNCHANGED <<mode, expected, eligible, dropped, since, sends, awaited, result,
                   registryVars, island, linkVars, installed, faults>>

HandleHello ==
    /\ Handles("Hello")
    /\ LET m == Head(queue).member
           l == m[1]
           sendsTo == IsCurrent(m) /\ l \in expected' /\ acked[l] = None
       IN  /\ since' = since \ {l}
           /\ expected' = IF mode.grace /\ IsCurrent(m) THEN expected \cup {l}
                          ELSE expected
           /\ eligible' = IF sendsTo /\ ~mode.inline THEN eligible \cup {m}
                          ELSE eligible
           /\ sends' = IF sendsTo THEN sends \cup {Send(m, FALSE)} ELSE sends
           /\ frames' = IF sendsTo THEN frames \cup FragmentsTo({m}) ELSE frames
    /\ queue' = Tail(queue)
    /\ UNCHANGED <<mode, acked, dropped, awaited, result, registryVars, island,
                   acks, broken, closed, installed, faults>>

\* Mutant: a learner has left although it is connected again.
LeftDisconnected(l) == mode.grace /\ acked[l] = None

Left(l) == mode.grace /\ acked[l] = None /\ current[l] = None

HandleDisconnected ==
    /\ Handles("Disconnected")
    /\ LET l == Head(queue).member[1]
       IN  /\ since' = IF mode.lease /\ current[l] \in {None, Head(queue).member[2]}
                       THEN since \cup {l} ELSE since
           /\ expected' = IF Left(l) THEN expected \ {l} ELSE expected
    /\ queue' = Tail(queue)
    /\ UNCHANGED <<mode, eligible, acked, dropped, sends, awaited, result, registryVars,
                   island, linkVars, installed, faults>>

\* The select is biased: a timer is looked at when nothing else is ready.
TimerTurn == Waiting /\ queue = <<>>

\* drop_expired: the leases of E have run out, those of S are absent too long.
\* It fails the run when nobody is left to wait for and nobody acknowledged.
DropExpired ==
    /\ TimerTurn /\ mode.lease
    /\ \E E \in SUBSET live, S \in SUBSET since :
          LET gone == ({m[1] : m \in E} \cup S) \cap (expected \ dropped)
          IN  /\ E # {} \/ S # {}
              /\ live' = live \ E
              /\ current' = [l \in Learners |-> IF <<l, current[l]>> \in E THEN None
                                                ELSE current[l]]
              /\ dropped' = dropped \cup gone
              /\ since' = since \ gone
    /\ result' = IF Acknowledged = {} /\ expected \subseteq dropped' THEN "failed"
                 ELSE result
    /\ UNCHANGED <<mode, expected, eligible, acked, sends, awaited, groups, draining,
                   queue, island, linkVars, installed, faults>>

\* SHUTDOWN goes to the connection each learner acknowledged on, if it is open.
ShutdownFrames ==
    Open({<<l, acked[l]>> : l \in Acknowledged}) \X {Shutdown}

\* The wait for acknowledgements is over; it began when the first sends ended.
Deadline ==
    /\ TimerTurn /\ awaited = 0
    /\ result' = IF mode.grace THEN "ok" ELSE "failed"
    /\ frames' = IF mode.grace THEN frames \cup ShutdownFrames ELSE frames
    /\ UNCHANGED <<mode, expected, eligible, acked, dropped, since, sends, awaited,
                   registryVars, queue, island, acks, broken, closed, installed, faults>>

Finish ==
    /\ result = "running" /\ Pending = {} /\ (mode.inline => sends = {})
    /\ result' = "ok"
    /\ frames' = frames \cup ShutdownFrames
    /\ UNCHANGED <<mode, expected, eligible, acked, dropped, since, sends, awaited,
                   registryVars, queue, island, acks, broken, closed, installed, faults>>

(***************************************************************************)
(* The connection task of a member.                                        *)
(***************************************************************************)

ReadAck(m) ==
    /\ result = "running"
    /\ m \in acks \cap groups
    /\ acks' = acks \ {m}
    /\ queue' = Append(queue, Event("FinalAck", m))
    /\ UNCHANGED <<mode, headVars, registryVars, island, frames, broken, closed,
                   installed, faults>>

\* The control connection ended: at once when it failed, and behind what the
\* island sent when the island closed it.
Unregister(m) ==
    /\ result = "running"
    /\ m \in groups
    /\ m \in broken \/ (m \in closed /\ m \notin acks)
    /\ groups' = groups \ {m}
    /\ draining' = draining \cup {m}
    /\ current' = IF IsCurrent(m) THEN [current EXCEPT ![m[1]] = None] ELSE current
    /\ live' = live \ {m}
    /\ acks' = acks \ {m} /\ broken' = broken \ {m} /\ closed' = closed \ {m}
    /\ UNCHANGED <<mode, headVars, queue, island, frames, installed, faults>>

\* The data readers are done: Disconnected is queued.
Drained(m) ==
    /\ result = "running"
    /\ m \in draining
    /\ draining' = draining \ {m}
    /\ queue' = Append(queue, Event("Disconnected", m))
    /\ UNCHANGED <<mode, headVars, groups, current, live, island, linkVars, installed, faults>>

(***************************************************************************)
(* The island.                                                             *)
(***************************************************************************)

Member(l) == <<l, island[l].gen>>

Up(l) == island[l].conn # None

\* The client dials again, also while its island saves; the island's lease is
\* admitted and Hello queued.
Connect(l) ==
    LET m == <<l, island[l].gen + 1>>
    IN  /\ result = "running"
        /\ ~Up(l) /\ island[l].stage # "left"
        /\ island[l].gen < MaxGen
        /\ island' = [island EXCEPT ![l].gen = m[2], ![l].conn = m[2]]
        /\ groups' = groups \cup {m}
        /\ current' = [current EXCEPT ![l] = m[2]]
        /\ live' = IF mode.lease THEN {n \in live : n[1] # l} \cup {m} ELSE live
        /\ queue' = Append(queue, Event("Hello", m))
        /\ UNCHANGED <<mode, headVars, draining, linkVars, installed, faults>>

\* A frame of the cut is cached, over redials.
Receive(l) ==
    \E f \in frames :
        /\ result = "running" /\ f[2] # Shutdown
        /\ f[1] = Member(l) /\ Up(l) /\ Begun(f[1])
        /\ island' = [island EXCEPT ![l].got = @ \cup {f[2]}]
        /\ frames' = frames \ {f}
        /\ UNCHANGED <<mode, headVars, registryVars, queue, acks, broken, closed,
                       installed, faults>>

\* SHUTDOWN confirms an acknowledgement; before one it is a protocol error.
ReceiveShutdown(l) ==
    LET f == <<Member(l), Shutdown>>
    IN  /\ f \in frames /\ Up(l)
        /\ island' = [island EXCEPT ![l].stage =
                         IF island[l].stage = "run" THEN "error" ELSE "final"]
        /\ frames' = frames \ {f}
        /\ UNCHANGED <<mode, headVars, registryVars, queue, acks, broken, closed,
                       installed, faults>>

\* Mutant: the manifest alone starts the installation.
CompleteByManifest(l) == Manifest \in island[l].got

Complete(l) == Fragments \cup {Manifest} \subseteq island[l].got

\* The island overwrites its parameters with the cut, and FINAL_ACK goes out,
\* once on every connection until it is known to be sent.
Acknowledge(l) ==
    /\ result = "running" /\ Up(l)
    /\ \/ island[l].stage = "run" /\ Complete(l)
       \/ island[l].stage = "ack" /\ island[l].ackGen # island[l].gen
    /\ island' = [island EXCEPT ![l].stage = "ack", ![l].ackGen = island[l].gen]
    /\ installed' = IF Fragments \cup {Manifest} \subseteq island[l].got
                    THEN installed \cup {l} ELSE installed
    /\ acks' = acks \cup {Member(l)}
    /\ UNCHANGED <<mode, headVars, registryVars, queue, frames, broken, closed, faults>>

\* The sender thread reports the bytes as sent, before a new connection exists.
AckSent(l) ==
    /\ result = "running"
    /\ island[l].stage = "ack" /\ island[l].ackGen = island[l].gen
    /\ island' = [island EXCEPT ![l].stage = "final"]
    /\ UNCHANGED <<mode, headVars, registryVars, queue, linkVars, installed, faults>>

\* The island has saved and closes its client.
Leave(l) ==
    /\ result = "running" /\ l \in Restless
    /\ island[l].stage = "final"
    /\ island' = [island EXCEPT ![l].stage = "left", ![l].conn = None]
    /\ closed' = IF Up(l) THEN closed \cup {Member(l)} ELSE closed
    /\ frames' = {f \in frames : f[1] # Member(l)}
    /\ UNCHANGED <<mode, headVars, registryVars, queue, acks, broken, installed, faults>>

Lost(l) ==
    /\ result = "running" /\ l \in Restless /\ faults > 0 /\ faults' = faults - 1
    /\ broken' = IF Up(l) THEN broken \cup {Member(l)} ELSE broken
    /\ frames' = {f \in frames : f[1] # Member(l)}
    /\ UNCHANGED <<mode, headVars, registryVars, queue, acks, closed, installed>>

\* The connection fails.
Break(l) ==
    /\ Up(l)
    /\ island' = [island EXCEPT ![l].conn = None]
    /\ Lost(l)

\* The island is killed, or gives up; it may be launched again, from nothing.
Kill(l) ==
    /\ island[l].stage \in {"run", "ack"}
    /\ island' = [island EXCEPT ![l] = FreshProcess(island[l].gen, None)]
    /\ Lost(l)

(***************************************************************************)
(* Specification.                                                          *)
(***************************************************************************)

Sends == \E s \in sends : SendEnded(s)
Loop == HandleFinalAck \/ HandleHello \/ HandleDisconnected \/ Finish
Timers == DropExpired \/ Deadline
Connections == \E m \in Learners \X (1 .. MaxGen) : ReadAck(m) \/ Unregister(m) \/ Drained(m)
Islands ==
    \E l \in Learners :
        \/ Connect(l) \/ Receive(l) \/ ReceiveShutdown(l)
        \/ Acknowledge(l) \/ AckSent(l) \/ Leave(l) \/ Break(l) \/ Kill(l)

\* The syncer has returned.
Done == result # "running" /\ UNCHANGED vars

Next == Sends \/ Loop \/ Timers \/ Connections \/ Islands \/ Done

\* Sends end, the loop takes what is ready, and time passes.
Spec == Init /\ [][Next]_vars /\ WF_vars(Sends) /\ WF_vars(Loop) /\ WF_vars(Deadline)

(***************************************************************************)
(* Properties.                                                             *)
(***************************************************************************)

\* Whoever counts as acknowledged is still one of the expected learners (the
\* count `expected.len() - acknowledged.len()` of finalize_learners_after
\* cannot underflow) and has installed every frame of the cut, over any
\* reordering of its frames, reconnects, and acknowledgements sent again.
AckedIsFinal == Acknowledged \subseteq expected \cap installed

\* In a grace window the loop waits for every learner that is connected and
\* was greeted, whatever order the ends of its older connections arrive in:
\* Event::Disconnected of an old generation never removes a learner that is back.
NoneOverlooked ==
    mode.grace =>
        \A l \in Learners :
            current[l] # None /\ ~In(queue, Event("Hello", <<l, current[l]>>))
                => l \in expected

\* Finalization always ends: the wait for acknowledgements starts although
\* sends of the cut fail, and then it is bounded (finalize_learners_after).
FinalizationEnds == <>(result # "running")

=============================================================================
