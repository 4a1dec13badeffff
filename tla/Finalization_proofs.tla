------------------------ MODULE Finalization_proofs -------------------------
(***************************************************************************)
(* An acknowledgement counts only when its learner installed the whole     *)
(* cut, and a grace window overlooks nobody who is connected: for every    *)
(* number of learners, fragments, generations and failures.                *)
(***************************************************************************)
EXTENDS Finalization, FiniteSetTheorems, TLAPS

Members == Learners \X Nat
Events == [type : {"Hello", "FinalAck", "Disconnected"}, member : Members]
Processes == [gen : Nat, conn : Nat, stage : {"run", "ack", "final", "left", "error"},
              got : SUBSET Nat, ackGen : Nat]

\* The types the arguments below need.
TypeInv ==
    /\ mode \in Mode
    /\ queue \in Seq(Events)
    /\ current \in [Learners -> Nat]
    /\ acked \in [Learners -> Nat]
    /\ island \in [Learners -> Processes]
    /\ \A s \in sends : s.to \in Members
    /\ frames \subseteq Members \X Nat
    /\ acks \subseteq Members
    /\ draining \subseteq Members

\* Whoever acknowledges has installed the cut: in its process, in an
\* acknowledgement under way, and in a queued one.
AckInv ==
    /\ AckedIsFinal
    /\ \A l \in Learners : island[l].stage = "ack" => l \in installed
    /\ \A m \in acks : m[1] \in installed
    /\ \A e \in Events : In(queue, e) /\ e.type = "FinalAck" => e.member[1] \in installed

(***************************************************************************)
(* Queues.                                                                 *)
(***************************************************************************)

\* What a queue holds after its first event was taken.
LEMMA TailHolds ==
    ASSUME NEW S, NEW q \in Seq(S), q # <<>>
    PROVE  /\ Tail(q) \in Seq(S)
           /\ Head(q) \in S
           /\ In(q, Head(q))
           /\ \A e : In(Tail(q), e) => In(q, e)
           /\ \A e : In(q, e) => e = Head(q) \/ In(Tail(q), e)
<1>1. /\ Tail(q) \in Seq(S) /\ Head(q) \in S
      /\ Len(q) \in Nat /\ Len(q) > 0
      /\ Len(Tail(q)) = Len(q) - 1
      /\ Head(q) = q[1]
      /\ \A i \in 1 .. Len(q) - 1 : Tail(q)[i] = q[i + 1]
  OBVIOUS
<1>2. In(q, Head(q))
  BY <1>1 DEF In
<1>3. ASSUME NEW e, In(Tail(q), e) PROVE In(q, e)
  <2>1. PICK i \in 1 .. Len(Tail(q)) : Tail(q)[i] = e  BY <1>3 DEF In
  <2>2. i + 1 \in 1 .. Len(q) /\ q[i + 1] = e  BY <1>1, <2>1
  <2> QED  BY <2>2 DEF In
<1>4. ASSUME NEW e, In(q, e) PROVE e = Head(q) \/ In(Tail(q), e)
  <2>1. PICK i \in 1 .. Len(q) : q[i] = e  BY <1>4 DEF In
  <2>2. CASE i = 1  BY <1>1, <2>1, <2>2
  <2>3. CASE i # 1
    <3>1. i - 1 \in 1 .. Len(Tail(q)) /\ i - 1 \in 1 .. Len(q) - 1 /\ (i - 1) + 1 = i
      BY <1>1, <2>1, <2>3
    <3>2. Tail(q)[i - 1] = e  BY <1>1, <2>1, <3>1
    <3> QED  BY <3>1, <3>2, Zenon DEF In
  <2> QED  BY <2>2, <2>3
<1> QED  BY <1>1, <1>2, <1>3, <1>4

\* What a queue holds after an event was added.
LEMMA AppendHolds ==
    ASSUME NEW S, NEW q \in Seq(S), NEW x \in S
    PROVE  /\ Append(q, x) \in Seq(S)
           /\ In(Append(q, x), x)
           /\ \A e : In(q, e) => In(Append(q, x), e)
           /\ \A e : In(Append(q, x), e) => e = x \/ In(q, e)
<1>1. /\ Append(q, x) \in Seq(S)
      /\ Len(q) \in Nat /\ Len(Append(q, x)) = Len(q) + 1
      /\ \A i \in 1 .. Len(q) : Append(q, x)[i] = q[i]
      /\ Append(q, x)[Len(q) + 1] = x
  OBVIOUS
<1>2. In(Append(q, x), x)
  <2>1. Len(q) + 1 \in 1 .. Len(Append(q, x))  BY <1>1
  <2> QED  BY <1>1, <2>1 DEF In
<1>3. ASSUME NEW e, In(q, e) PROVE In(Append(q, x), e)
  <2>1. PICK i \in 1 .. Len(q) : q[i] = e  BY <1>3 DEF In
  <2>2. i \in 1 .. Len(Append(q, x)) /\ Append(q, x)[i] = e  BY <1>1, <2>1
  <2> QED  BY <2>2 DEF In
<1>4. ASSUME NEW e, In(Append(q, x), e) PROVE e = x \/ In(q, e)
  <2>1. PICK i \in 1 .. Len(Append(q, x)) : Append(q, x)[i] = e  BY <1>4 DEF In
  <2>2. CASE i = Len(q) + 1  BY <1>1, <2>1, <2>2
  <2>3. CASE i # Len(q) + 1
    <3>1. i \in 1 .. Len(q)  BY <1>1, <2>1, <2>3
    <3> QED  BY <1>1, <2>1, <3>1 DEF In
  <2> QED  BY <2>2, <2>3
<1> QED  BY <1>1, <1>2, <1>3, <1>4

(***************************************************************************)
(* Types.                                                                  *)
(***************************************************************************)

\* The record of a process just started is a well-formed one.
\* A process that just started is a process.
LEMMA FreshType ==
    ASSUME NEW g \in Nat, NEW c \in Nat
    PROVE  FreshProcess(g, c) \in Processes
BY Zenon DEF FreshProcess, Processes, None

\* Every state the shutdown may begin in is well typed.
\* The types hold in every initial state: whoever is connected, greeting or closing.
LEMMA InitTypes == Init => TypeInv
<1> SUFFICES ASSUME Init PROVE TypeInv
  BY Zenon
<1> USE FinalizationAssumption
<1>0. PICK sc \in Scenarios :
        LET here == {l \in Learners : sc.start[l] \in {"up", "greeting"}}
            last == {IF l \in here THEN Event("Hello", <<l, 1>>)
                                   ELSE Event("Disconnected", <<l, 1>>) :
                         l \in {k \in Learners : sc.start[k] \in {"greeting", "closing"}}}
        IN  /\ mode = sc.mode
            /\ queue \in Arranged(last)
            /\ sends = {Send(<<l, 1>>, TRUE) : l \in here}
            /\ groups = here \X {1}
            /\ current = [l \in Learners |-> IF l \in here THEN 1 ELSE None]
            /\ island = [l \in Learners |-> FreshProcess(1, current[l])]
            /\ acked = [l \in Learners |-> None]
            /\ draining = {} /\ acks = {}
            /\ frames = FragmentsTo(groups)
  BY Zenon DEF Init
<1> DEFINE here == {l \in Learners : sc.start[l] \in {"up", "greeting"}}
           last == {IF l \in here THEN Event("Hello", <<l, 1>>)
                                  ELSE Event("Disconnected", <<l, 1>>) :
                        l \in {k \in Learners : sc.start[k] \in {"greeting", "closing"}}}
<1>1. mode \in Mode
  BY <1>0, Zenon DEF Scenario
<1>2. queue \in Seq(Events)
  <2>1. Cardinality(Learners) \in Nat
    BY FS_CardinalityType, Zenon
  <2>2. PICK n \in 0 .. Cardinality(Learners) : queue \in [1 .. n -> last]
    BY <1>0, Zenon DEF Arranged
  <2>3. last \subseteq Events
    BY DEF Event, Events, Members
  <2>4. n \in Nat
    BY <2>1, <2>2
  <2>5. queue \in [1 .. n -> Events]
    BY <2>2, <2>3, Zenon
  <2> HIDE DEF last
  <2> QED
    BY <2>4, <2>5
<1>3. current \in [Learners -> Nat] /\ acked \in [Learners -> Nat]
  BY <1>0, Zenon DEF None
<1>4. island \in [Learners -> Processes]
  BY <1>0, <1>3, FreshType, Zenon
<1>5. \A s \in sends : s.to \in Members
  BY <1>0 DEF Send, Members
<1>6. frames \subseteq Members \X Nat
  BY <1>0 DEF FragmentsTo, Open, Fragments, Members
<1> QED
  BY <1>0, <1>1, <1>2, <1>3, <1>4, <1>5, <1>6, Zenon DEF TypeInv

\* Every step of the syncer, of an island or of a connection keeps the types.
\* Every step of the syncer, its tasks and the learners keeps the types.
LEMMA StepTypes == TypeInv /\ [Next]_vars => TypeInv'
<1> SUFFICES ASSUME TypeInv, [Next]_vars PROVE TypeInv'
  BY Zenon
<1> USE FinalizationAssumption
<1>1. ASSUME NEW s \in sends, SendEnded(s) PROVE TypeInv'
  <2>1. /\ UNCHANGED <<mode, queue, current, acked, island, acks, draining>>
        /\ sends' \subseteq sends
        /\ frames' \subseteq frames \cup ({s.to} \X {Manifest})
    BY <1>1, Zenon DEF SendEnded, Open, registryVars
  <2>2. Manifest \in Nat /\ s.to \in Members
    BY DEF Manifest, TypeInv
  <2> QED
    BY <2>1, <2>2, Zenon DEF TypeInv
<1>2. CASE HandleFinalAck
  <2>1. Tail(queue) \in Seq(Events) /\ Head(queue) \in Events
    BY <1>2, TailHolds, Zenon DEF TypeInv, HandleFinalAck, Handles
  <2>2. acked' \in [Learners -> Nat]
    BY <1>2, <2>1, Zenon DEF TypeInv, HandleFinalAck, Events, Members
  <2> QED
    BY <1>2, <2>1, <2>2, ZenonT(30) DEF TypeInv, HandleFinalAck, registryVars, linkVars
<1>3. CASE HandleHello
  <2>1. Tail(queue) \in Seq(Events) /\ Head(queue) \in Events
    BY <1>3, TailHolds, Zenon DEF TypeInv, HandleHello, Handles
  <2> DEFINE m == Head(queue).member
  <2>2. m \in Members
    BY <2>1, Zenon DEF Events
  <2>3. /\ UNCHANGED <<mode, current, acked, island, acks, draining>>
        /\ queue' = Tail(queue)
        /\ sends' \subseteq sends \cup {Send(m, FALSE)}
        /\ frames' \subseteq frames \cup FragmentsTo({m})
    BY <1>3, Zenon DEF HandleHello, registryVars
  <2>4. FragmentsTo({m}) \subseteq Members \X Nat
    BY <2>2 DEF FragmentsTo, Open, Fragments
  <2>5. Send(m, FALSE).to \in Members
    BY <2>2, Zenon DEF Send
  <2> HIDE DEF m
  <2> QED
    BY <2>1, <2>3, <2>4, <2>5, Zenon DEF TypeInv
<1>4. CASE HandleDisconnected
  <2>1. Tail(queue) \in Seq(Events)
    BY <1>4, TailHolds, Zenon DEF TypeInv, HandleDisconnected, Handles
  <2> QED
    BY <1>4, <2>1, Zenon DEF TypeInv, HandleDisconnected, registryVars, linkVars
<1>5. CASE DropExpired
  BY <1>5 DEF TypeInv, DropExpired, linkVars, None
<1>6. CASE Deadline \/ Finish
  <2>1. /\ UNCHANGED <<mode, queue, current, acked, island, acks, draining, sends>>
        /\ frames' \subseteq frames \cup ShutdownFrames
    BY <1>6, Zenon DEF Deadline, Finish, registryVars
  <2>2. ShutdownFrames \subseteq Members \X Nat
    <3>1. {<<l, acked[l]>> : l \in Acknowledged} \subseteq Members
      <4>1. \A l \in Acknowledged : l \in Learners /\ acked[l] \in Nat
        BY Zenon DEF Acknowledged, TypeInv
      <4> QED
        BY <4>1 DEF Members
    <3>2. Shutdown \in Nat
      BY DEF Shutdown
    <3> QED
      BY <3>1, <3>2, Zenon DEF ShutdownFrames, Open
  <2> QED
    BY <2>1, <2>2, Zenon DEF TypeInv
<1>7. ASSUME NEW m \in Learners \X (1 .. MaxGen), ReadAck(m) \/ Unregister(m) \/ Drained(m)
      PROVE  TypeInv'
  <2>1. m \in Members
    BY DEF Members
  <2>2. CASE ReadAck(m)
    <3>1. Event("FinalAck", m) \in Events
      BY <2>1, Zenon DEF Event, Events
    <3>2. queue' \in Seq(Events)
      BY <2>2, <3>1, AppendHolds, Zenon DEF TypeInv, ReadAck
    <3> QED
      BY <2>2, <3>2, Zenon DEF TypeInv, ReadAck, headVars, registryVars
  <2>3. CASE Unregister(m)
    <3>1. current' \in [Learners -> Nat]
      BY <2>3, Zenon DEF TypeInv, Unregister, None
    <3> QED
      BY <2>1, <2>3, <3>1, Zenon DEF TypeInv, Unregister, headVars
  <2>4. CASE Drained(m)
    <3>1. Event("Disconnected", m) \in Events
      BY <2>1, Zenon DEF Event, Events
    <3>2. queue' \in Seq(Events)
      BY <2>4, <3>1, AppendHolds, Zenon DEF TypeInv, Drained
    <3> QED
      BY <2>4, <3>2, Zenon DEF TypeInv, Drained, headVars, linkVars
  <2> QED
    BY <1>7, <2>2, <2>3, <2>4, Zenon
<1>8. ASSUME NEW l \in Learners, Connect(l) PROVE TypeInv'
  <2> DEFINE g == island[l].gen + 1
  <2>1. g \in Nat
    BY DEF TypeInv, Processes
  <2>2. <<l, g>> \in Members /\ Event("Hello", <<l, g>>) \in Events
    BY <2>1, Zenon DEF Members, Event, Events
  <2>3. /\ UNCHANGED <<mode, acked, sends, frames, acks, draining>>
        /\ queue' = Append(queue, Event("Hello", <<l, g>>))
        /\ current' = [current EXCEPT ![l] = g]
        /\ island' = [island EXCEPT ![l].gen = g, ![l].conn = g]
    BY <1>8, Zenon DEF Connect, headVars, linkVars
  <2>4. queue' \in Seq(Events)
    BY <2>2, <2>3, AppendHolds DEF TypeInv
  <2> HIDE DEF g
  <2>5. current' \in [Learners -> Nat]
    BY <2>1, <2>3, Zenon DEF TypeInv
  <2>6. island' \in [Learners -> Processes]
    <3>1. island[l] \in Processes
      BY Zenon DEF TypeInv
    <3>2. [island[l] EXCEPT !.gen = g, !.conn = g] \in Processes
      BY <2>1, <3>1, Zenon DEF Processes
    <3>3. island' = [island EXCEPT ![l] = [island[l] EXCEPT !.gen = g, !.conn = g]]
      BY <2>3, Zenon DEF TypeInv
    <3> QED
      BY <3>2, <3>3, Zenon DEF TypeInv
  <2> QED
    BY <2>3, <2>4, <2>5, <2>6, Zenon DEF TypeInv
<1>9. ASSUME NEW l \in Learners, Receive(l) \/ ReceiveShutdown(l) PROVE TypeInv'
  <2>1. island' \in [Learners -> Processes]
    <3>1. CASE Receive(l)
      <4>1. PICK f \in frames : island' = [island EXCEPT ![l].got = @ \cup {f[2]}]
        BY <3>1, Zenon DEF Receive
      <4>2. f[2] \in Nat
        BY Zenon DEF TypeInv
      <4>3. [island[l] EXCEPT !.got = @ \cup {f[2]}] \in Processes
        BY <4>2, ZenonT(30) DEF TypeInv, Processes
      <4> QED
        BY <4>1, <4>3, Zenon DEF TypeInv
    <3>2. CASE ReceiveShutdown(l)
      <4>1. PICK x \in {"error", "final"} : island' = [island EXCEPT ![l].stage = x]
        BY <3>2, Zenon DEF ReceiveShutdown
      <4>2. [island[l] EXCEPT !.stage = x] \in Processes
        BY Zenon DEF TypeInv, Processes
      <4> QED
        BY <4>1, <4>2, Zenon DEF TypeInv
    <3> QED
      BY <1>9, <3>1, <3>2, Zenon
  <2>2. /\ UNCHANGED <<mode, queue, current, acked, sends, acks, draining>>
        /\ frames' \subseteq frames
    BY <1>9, Zenon DEF Receive, ReceiveShutdown, headVars, registryVars
  <2> QED
    BY <2>1, <2>2, Zenon DEF TypeInv
<1>10. ASSUME NEW l \in Learners, Acknowledge(l) PROVE TypeInv'
  <2>1. Member(l) \in Members /\ island[l].gen \in Nat
    BY Zenon DEF Member, Members, TypeInv, Processes
  <2>2. island' \in [Learners -> Processes]
    <3>1. [island[l] EXCEPT !.stage = "ack", !.ackGen = island[l].gen] \in Processes
      BY <2>1, Zenon DEF TypeInv, Processes
    <3> QED
      BY <1>10, <3>1, Zenon DEF Acknowledge, TypeInv
  <2> QED
    BY <1>10, <2>1, <2>2, Zenon DEF Acknowledge, TypeInv, headVars, registryVars
<1>11. ASSUME NEW l \in Learners, AckSent(l) \/ Leave(l) \/ Break(l) \/ Kill(l) PROVE TypeInv'
  <2>1. island' \in [Learners -> Processes]
    <3>1. CASE AckSent(l)
      <4>1. [island[l] EXCEPT !.stage = "final"] \in Processes
        BY Zenon DEF TypeInv, Processes
      <4> QED
        BY <3>1, <4>1, Zenon DEF AckSent, TypeInv
    <3>2. CASE Leave(l)
      <4>1. [island[l] EXCEPT !.stage = "left", !.conn = None] \in Processes
        BY Zenon DEF TypeInv, Processes, None
      <4> QED
        BY <3>2, <4>1, Zenon DEF Leave, TypeInv
    <3>3. CASE Break(l)
      <4>1. [island[l] EXCEPT !.conn = None] \in Processes
        BY Zenon DEF TypeInv, Processes, None
      <4> QED
        BY <3>3, <4>1, Zenon DEF Break, TypeInv
    <3>4. CASE Kill(l)
      <4>1. FreshProcess(island[l].gen, None) \in Processes
        BY FreshType, Zenon DEF TypeInv, Processes, None
      <4> QED
        BY <3>4, <4>1, Zenon DEF Kill, TypeInv
    <3> QED  BY <1>11, <3>1, <3>2, <3>3, <3>4
  <2>2. /\ UNCHANGED <<mode, queue, current, acked, sends, acks, draining>>
        /\ frames' \subseteq frames
    BY <1>11, Zenon DEF AckSent, Leave, Break, Kill, Lost, headVars, registryVars, linkVars
  <2> QED
    BY <2>1, <2>2, Zenon DEF TypeInv
<1>12. CASE UNCHANGED vars
  BY <1>12, Zenon DEF TypeInv, vars, headVars, registryVars, linkVars
<1> QED
  BY <1>1, <1>2, <1>3, <1>4, <1>5, <1>6, <1>7, <1>8, <1>9, <1>10, <1>11, <1>12, Zenon
     DEF Next, Sends, Loop, Timers, Connections, Islands, Done

(***************************************************************************)
(* Acknowledgements.                                                       *)
(***************************************************************************)

\* Nobody has acknowledged or installed anything when the cut is frozen.
LEMMA InitAcks == Init => AckInv
<1> SUFFICES ASSUME Init PROVE AckInv
  BY Zenon
<1>1. AckedIsFinal /\ acks = {}
  BY Zenon DEF Init, AckedIsFinal, Acknowledged
<1>2. \A l \in Learners : island[l].stage = "run"
  BY DEF Init, FreshProcess
<1>3. ASSUME NEW e, In(queue, e) PROVE e.type # "FinalAck"
  <2>1. PICK last : /\ queue \in Arranged(last)
                    /\ \A x \in last : x.type # "FinalAck"
    BY DEF Init, Event
  <2>2. PICK n \in 0 .. Cardinality(Learners) : queue \in [1 .. n -> last]
    BY <2>1, Zenon DEF Arranged
  <2>3. n \in Nat
    BY FS_CardinalityType, FinalizationAssumption
  <2>4. Len(queue) = n
    BY <2>2, <2>3
  <2>5. PICK i \in 1 .. Len(queue) : queue[i] = e
    BY <1>3, Zenon DEF In
  <2> QED
    BY <2>1, <2>2, <2>4, <2>5, Zenon
<1> QED
  BY <1>1, <1>2, <1>3, Zenon DEF AckInv

\* Every step keeps it: only an island that holds the whole cut acknowledges,
\* and nothing an island installed is taken back.
LEMMA StepAcks == TypeInv /\ AckInv /\ [Next]_vars => AckInv'
<1> SUFFICES ASSUME TypeInv, AckInv, [Next]_vars PROVE AckInv'
  BY Zenon
<1>1. ASSUME UNCHANGED <<queue, acked, island, installed, expected, acks>>
      PROVE  AckInv'
  BY <1>1, Zenon DEF AckInv, AckedIsFinal, Acknowledged, In
<1>2. CASE HandleFinalAck
  <2> DEFINE x == Head(queue)
             m == x.member
  <2>1. /\ Tail(queue) \in Seq(Events) /\ x \in Events /\ In(queue, x)
        /\ \A e : In(Tail(queue), e) => In(queue, e)
    BY <1>2, TailHolds, Zenon DEF TypeInv, HandleFinalAck, Handles
  <2>2. m[1] \in installed
    BY <1>2, <2>1, Zenon DEF AckInv, HandleFinalAck, Handles
  <2>3. acked' = acked \/ (m[1] \in expected /\ acked' = [acked EXCEPT ![m[1]] = m[2]])
    BY <1>2, Zenon DEF HandleFinalAck, Accepts
  <2>4. /\ queue' = Tail(queue)
        /\ UNCHANGED <<expected, installed, island, acks>>
    BY <1>2, Zenon DEF HandleFinalAck, linkVars
  <2> HIDE DEF m
  <2>5. AckedIsFinal'
    BY <2>2, <2>3, <2>4, Zenon DEF AckInv, AckedIsFinal, Acknowledged, TypeInv
  <2> QED
    BY <2>1, <2>4, <2>5, Zenon DEF AckInv
<1>3. CASE HandleHello
  <2>1. \A e : In(Tail(queue), e) => In(queue, e)
    BY <1>3, TailHolds, Zenon DEF TypeInv, HandleHello, Handles
  <2>2. /\ UNCHANGED <<acked, installed, island, acks>>
        /\ queue' = Tail(queue)
        /\ expected \subseteq expected'
    BY <1>3, Zenon DEF HandleHello
  <2> QED
    BY <2>1, <2>2, Zenon DEF AckInv, AckedIsFinal, Acknowledged
<1>4. CASE HandleDisconnected
  <2>1. \A e : In(Tail(queue), e) => In(queue, e)
    BY <1>4, TailHolds, Zenon DEF TypeInv, HandleDisconnected, Handles
  <2>2. /\ UNCHANGED <<acked, installed, island, acks>>
        /\ queue' = Tail(queue)
        /\ \A l \in expected : acked[l] # None => l \in expected'
    BY <1>4, Zenon DEF HandleDisconnected, Left, linkVars
  <2> QED
    BY <2>1, <2>2, Zenon DEF AckInv, AckedIsFinal, Acknowledged
<1>5. ASSUME NEW m \in Learners \X (1 .. MaxGen), ReadAck(m) PROVE AckInv'
  <2>1. m \in Members /\ m[1] \in installed
    BY <1>5, Zenon DEF AckInv, ReadAck, TypeInv
  <2>2. Event("FinalAck", m) \in Events
    BY <2>1, Zenon DEF Event, Events
  <2>3. /\ queue' = Append(queue, Event("FinalAck", m))
        /\ acks' \subseteq acks
        /\ UNCHANGED <<expected, acked, installed, island>>
    BY <1>5, Zenon DEF ReadAck, headVars
  <2>4. \A e : In(queue', e) => e = Event("FinalAck", m) \/ In(queue, e)
    BY <2>2, <2>3, AppendHolds, Zenon DEF TypeInv
  <2>5. Event("FinalAck", m).member[1] \in installed
    BY <2>1, Zenon DEF Event
  <2> QED
    BY <2>3, <2>4, <2>5, Zenon DEF AckInv, AckedIsFinal, Acknowledged
<1>6. ASSUME NEW m \in Learners \X (1 .. MaxGen), Unregister(m) PROVE AckInv'
  <2>1. /\ acks' \subseteq acks
        /\ UNCHANGED <<queue, expected, acked, installed, island>>
    BY <1>6, Zenon DEF Unregister, headVars
  <2> QED
    BY <2>1, Zenon DEF AckInv, AckedIsFinal, Acknowledged
<1>7. ASSUME NEW m \in Learners \X (1 .. MaxGen), Drained(m) PROVE AckInv'
  <2>1. Event("Disconnected", m) \in Events
    BY <1>7, Zenon DEF Drained, TypeInv, Event, Events
  <2>2. \A e : In(queue', e) => e = Event("Disconnected", m) \/ In(queue, e)
    BY <1>7, <2>1, AppendHolds, Zenon DEF TypeInv, Drained
  <2>3. Event("Disconnected", m).type # "FinalAck"
    BY Zenon DEF Event
  <2>4. UNCHANGED <<expected, acked, installed, island, acks>>
    BY <1>7, Zenon DEF Drained, headVars, linkVars
  <2> QED
    BY <2>2, <2>3, <2>4, Zenon DEF AckInv, AckedIsFinal, Acknowledged
<1>8. ASSUME NEW l \in Learners, Connect(l) PROVE AckInv'
  <2> DEFINE x == Event("Hello", <<l, island[l].gen + 1>>)
  <2>1. x \in Events /\ x.type # "FinalAck"
    BY DEF Event, Events, Members, TypeInv, Processes
  <2>2. queue' = Append(queue, x) /\ UNCHANGED <<expected, acked, installed, acks>>
    BY <1>8, Zenon DEF Connect, headVars, linkVars
  <2>3. \A k \in Learners : island'[k].stage = island[k].stage
    BY <1>8, Zenon DEF Connect, TypeInv, Processes
  <2> HIDE DEF x
  <2>4. \A e : In(queue', e) => e = x \/ In(queue, e)
    BY <2>1, <2>2, AppendHolds, Zenon DEF TypeInv
  <2> QED
    BY <2>1, <2>2, <2>3, <2>4, Zenon DEF AckInv, AckedIsFinal, Acknowledged
<1>9. ASSUME NEW l \in Learners,
             Receive(l) \/ ReceiveShutdown(l) \/ AckSent(l) \/ Leave(l) \/ Break(l) \/ Kill(l)
      PROVE  AckInv'
  <2>1. \A k \in Learners : island'[k].stage = "ack" => island[k].stage = "ack"
    <3>1. CASE Receive(l)          BY <3>1 DEF Receive, TypeInv, Processes
    <3>2. CASE ReceiveShutdown(l)  BY <3>2 DEF ReceiveShutdown, TypeInv, Processes
    <3>3. CASE AckSent(l)          BY <3>3 DEF AckSent, TypeInv, Processes
    <3>4. CASE Leave(l)            BY <3>4 DEF Leave, TypeInv, Processes
    <3>5. CASE Break(l)            BY <3>5 DEF Break, TypeInv, Processes
    <3>6. CASE Kill(l)             BY <3>6 DEF Kill, FreshProcess, TypeInv, Processes
    <3> QED  BY <1>9, <3>1, <3>2, <3>3, <3>4, <3>5, <3>6
  <2>2. UNCHANGED <<queue, expected, acked, installed, acks>>
    BY <1>9, Zenon DEF Receive, ReceiveShutdown, AckSent, Leave, Break, Kill, Lost, headVars, linkVars
  <2> QED
    BY <2>1, <2>2, Zenon DEF AckInv, AckedIsFinal, Acknowledged
<1>10. ASSUME NEW l \in Learners, Acknowledge(l) PROVE AckInv'
  <2>1. l \in installed' /\ installed \subseteq installed'
    BY <1>10, Zenon DEF Acknowledge, Complete, AckInv
  <2>2. \A k \in Learners : k # l => island'[k] = island[k]
    BY <1>10, Zenon DEF Acknowledge, TypeInv
  <2>3. acks' = acks \cup {Member(l)} /\ Member(l)[1] = l
    BY <1>10, Zenon DEF Acknowledge, Member
  <2>4. UNCHANGED <<queue, expected, acked>>
    BY <1>10, Zenon DEF Acknowledge, headVars
  <2> QED
    BY <2>1, <2>2, <2>3, <2>4, Zenon DEF AckInv, AckedIsFinal, Acknowledged
<1>11. CASE Sends \/ DropExpired \/ Deadline \/ Finish \/ UNCHANGED vars
  <2>1. UNCHANGED <<queue, acked, island, installed, expected, acks>>
    BY <1>11, ZenonT(30) DEF Sends, SendEnded, DropExpired, Deadline, Finish, vars, headVars, linkVars
  <2> QED
    BY <1>1, <2>1, Zenon
<1> QED
  BY <1>2, <1>3, <1>4, <1>5, <1>6, <1>7, <1>8, <1>9, <1>10, <1>11, Zenon
     DEF Next, Loop, Timers, Connections, Islands, Done

\* Whoever counts as acknowledged is expected and has installed the whole cut,
\* in every configuration of finalize_learners_after.
THEOREM AckedAlwaysFinal == Spec => []AckedIsFinal
<1>1. AckInv => AckedIsFinal
  BY Zenon DEF AckInv
<1> QED
  BY <1>1, InitTypes, StepTypes, InitAcks, StepAcks, PTL DEF Spec

(***************************************************************************)
(* Grace windows.                                                          *)
(***************************************************************************)

\* A learner that is connected when the cut is frozen is expected.
LEMMA InitGreeted == Init => NoneOverlooked
<1> SUFFICES ASSUME Init, mode.grace, NEW l \in Learners, current[l] # None
             PROVE  l \in expected
  BY Zenon DEF NoneOverlooked
<1>1. PICK sc \in Scenarios :
        LET here == {k \in Learners : sc.start[k] \in {"up", "greeting"}}
        IN  /\ mode = sc.mode
            /\ expected = IF mode.fixed THEN Learners ELSE here
            /\ current = [k \in Learners |-> IF k \in here THEN 1 ELSE None]
  BY Zenon DEF Init
<1> QED
  BY <1>1, Zenon

\* Every step keeps it: a learner stops being expected only when it has no
\* current connection, and a new connection queues its Hello.
LEMMA StepGreeted == TypeInv /\ NoneOverlooked /\ [Next]_vars => NoneOverlooked'
<1> SUFFICES ASSUME TypeInv, NoneOverlooked, [Next]_vars PROVE NoneOverlooked'
  BY Zenon
<1>1. ASSUME UNCHANGED <<mode, queue, expected>>,
             \A l \in Learners : current'[l] \in {None, current[l]}
      PROVE  NoneOverlooked'
  BY <1>1, Zenon DEF NoneOverlooked, In
<1>2. CASE HandleFinalAck
  <2>1. \A e : In(queue, e) => e = Head(queue) \/ In(Tail(queue), e)
    BY <1>2, TailHolds, Zenon DEF TypeInv, HandleFinalAck, Handles
  <2>2. \A l, g : Event("Hello", <<l, g>>) # Head(queue)
    BY <1>2 DEF HandleFinalAck, Handles, Event
  <2>3. queue' = Tail(queue) /\ UNCHANGED <<mode, expected, current>>
    BY <1>2, Zenon DEF HandleFinalAck, registryVars
  <2> QED
    BY <2>1, <2>2, <2>3, Zenon DEF NoneOverlooked
<1>3. CASE HandleHello
  <2> DEFINE m == Head(queue).member
  <2>1. \A e : In(queue, e) => e = Head(queue) \/ In(Tail(queue), e)
    BY <1>3, TailHolds, Zenon DEF TypeInv, HandleHello, Handles
  <2>2. /\ queue' = Tail(queue) /\ UNCHANGED <<mode, current>>
        /\ expected' = IF mode.grace /\ IsCurrent(m) THEN expected \cup {m[1]} ELSE expected
    BY <1>3, Zenon DEF HandleHello, registryVars
  <2>3. ASSUME NEW l \in Learners, mode.grace, Event("Hello", <<l, current[l]>>) = Head(queue)
        PROVE  l \in expected'
    <3>1. m = <<l, current[l]>>
      BY <2>3 DEF Event
    <3> QED
      BY <2>2, <2>3, <3>1 DEF IsCurrent
  <2>4. expected \subseteq expected'
    BY <2>2, Zenon
  <2> HIDE DEF m
  <2> QED
    BY <2>1, <2>2, <2>3, <2>4, Zenon DEF NoneOverlooked
<1>4. CASE HandleDisconnected
  <2>1. \A e : In(queue, e) => e = Head(queue) \/ In(Tail(queue), e)
    BY <1>4, TailHolds, Zenon DEF TypeInv, HandleDisconnected, Handles
  <2>2. \A l, g : Event("Hello", <<l, g>>) # Head(queue)
    <3>1. Head(queue).type = "Disconnected"
      BY <1>4, Zenon DEF HandleDisconnected, Handles
    <3> QED
      BY <3>1 DEF Event
  <2>3. /\ queue' = Tail(queue) /\ UNCHANGED <<mode, current>>
        /\ \A l \in expected : current[l] # None => l \in expected'
    BY <1>4, Zenon DEF HandleDisconnected, Left, registryVars
  <2> QED
    BY <2>1, <2>2, <2>3, Zenon DEF NoneOverlooked
<1>5. ASSUME NEW m \in Learners \X (1 .. MaxGen), ReadAck(m) \/ Drained(m)
      PROVE  NoneOverlooked'
  <2>1. PICK x \in Events : queue' = Append(queue, x)
    <3>1. m \in Members
      BY <1>5, Zenon DEF ReadAck, Drained, TypeInv
    <3> QED
      BY <1>5, <3>1, Zenon DEF ReadAck, Drained, Event, Events
  <2>2. \A e : In(queue, e) => In(queue', e)
    BY <2>1, AppendHolds, Zenon DEF TypeInv
  <2>3. UNCHANGED <<mode, expected, current>>
    BY <1>5, Zenon DEF ReadAck, Drained, headVars, registryVars
  <2> QED
    BY <2>2, <2>3, Zenon DEF NoneOverlooked
<1>6. ASSUME NEW m \in Learners \X (1 .. MaxGen), Unregister(m) PROVE NoneOverlooked'
  <2>1. /\ UNCHANGED <<mode, queue, expected>>
        /\ \A l \in Learners : current'[l] \in {None, current[l]}
    BY <1>6, Zenon DEF Unregister, headVars, TypeInv
  <2> QED
    BY <1>1, <2>1, Zenon
<1>7. CASE DropExpired
  <2>1. /\ UNCHANGED <<mode, queue, expected>>
        /\ \A l \in Learners : current'[l] \in {None, current[l]}
    BY <1>7, Zenon DEF DropExpired
  <2> QED
    BY <1>1, <2>1, Zenon
<1>8. ASSUME NEW l \in Learners, Connect(l) PROVE NoneOverlooked'
  <2> DEFINE g == island[l].gen + 1
             x == Event("Hello", <<l, g>>)
  <2>1. x \in Events
    BY DEF Event, Events, Members, TypeInv, Processes
  <2>2. /\ queue' = Append(queue, x) /\ UNCHANGED <<mode, expected>>
        /\ current' = [current EXCEPT ![l] = g]
    BY <1>8, Zenon DEF Connect, headVars
  <2>3. current'[l] = g /\ \A k \in Learners : k # l => current'[k] = current[k]
    BY <2>2, Zenon DEF TypeInv
  <2>4. In(queue', Event("Hello", <<l, current'[l]>>))
    BY <2>1, <2>2, <2>3, AppendHolds DEF TypeInv
  <2> HIDE DEF x
  <2>5. \A e : In(queue, e) => In(queue', e)
    BY <2>1, <2>2, AppendHolds, Zenon DEF TypeInv
  <2> HIDE DEF g
  <2> QED
    BY <2>2, <2>3, <2>4, <2>5, Zenon DEF NoneOverlooked
<1>9. CASE Sends \/ Deadline \/ Finish \/ UNCHANGED vars
  <2>1. UNCHANGED <<mode, queue, expected, current>>
    BY <1>9, Zenon DEF Sends, SendEnded, Deadline, Finish, vars, headVars, registryVars
  <2> QED
    BY <1>1, <2>1, Zenon
<1>10. ASSUME NEW l \in Learners,
              \/ Receive(l) \/ ReceiveShutdown(l) \/ Acknowledge(l) \/ AckSent(l)
              \/ Leave(l) \/ Break(l) \/ Kill(l)
       PROVE  NoneOverlooked'
  <2>1. UNCHANGED <<mode, queue, expected, current>>
    BY <1>10, Zenon DEF Receive, ReceiveShutdown, Acknowledge, AckSent, Leave, Break, Kill, Lost,
                 headVars, registryVars
  <2> QED
    BY <1>1, <2>1, Zenon
<1> QED
  BY <1>2, <1>3, <1>4, <1>5, <1>6, <1>7, <1>8, <1>9, <1>10, Zenon
     DEF Next, Loop, Timers, Connections, Islands, Done

\* In a grace window every learner that is connected and was greeted is waited
\* for, whatever is still queued of its older connections (Event::Disconnected).
THEOREM NeverOverlooked == Spec => []NoneOverlooked
<1> QED
  BY InitTypes, StepTypes, InitGreeted, StepGreeted, PTL DEF Spec
=============================================================================
