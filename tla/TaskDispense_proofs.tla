------------------------ MODULE TaskDispense_proofs -------------------------
(***************************************************************************)
(* The dispenser under expiries, resent and late requests, checkpoints and *)
(* restarts, for every set of islands, streams and scenarios.              *)
(***************************************************************************)
EXTENDS TaskDispense, Dispenser_proofs

\* A request of TaskSource.
RequestOk(m) ==
    /\ m.type \in {"hello", "claim", "report", "heartbeat"}
    /\ m.type = "claim" => m.count \in Nat

\* Every request keeps the dispenser's invariant, settled and trained rows.
LEMMA HandleGood ==
    ASSUME NEW e, Good(e), NEW h \in Holders, NEW m, RequestOk(m), NEW r, r = Handle(e, h, m)
    PROVE  Good(r.d) /\ Onward(e, r.d) /\ Truthful(r, h)
<1>0. h[1] \in Islands
  BY HolderParts, Zenon
<1>1. CASE m.type = "hello"
  <2>1. r = Open(e, h)
    BY <1>1, Zenon DEF Handle
  <2>. QED
    BY <1>0, <2>1, OpenGood, Zenon
<1>2. CASE m.type = "claim"
  <2>. DEFINE new == ClaimNew(e, h, m.count)
              answers == {"grant", "wait", "end"}
              seq == m.seq
  <2>1. r = Numbered(e, h, seq, answers, new)
    BY <1>2, Zenon DEF Handle, Claim
  <2>2. m.count \in Nat
    BY <1>2, Zenon DEF RequestOk
  <2>. HIDE DEF new, answers, seq
  <2>3. h \in e.live =>
          DOMAIN new = {"d", "ans"} /\ Good(new.d) /\ Onward(e, new.d) /\ Truthful(new, h)
    BY <2>2, ClaimNewGood, Zenon DEF new
  <2>. QED
    BY <2>1, <2>3, NumberedGood, Zenon
<1>3. CASE m.type = "report"
  <2>. DEFINE new == ReportNew(e, h, m.body)
              answers == {"ack"}
              seq == m.seq
  <2>1. r = Numbered(e, h, seq, answers, new)
    BY <1>3, Zenon DEF Handle, Report
  <2>. HIDE DEF new, answers, seq
  <2>3. DOMAIN new = {"d", "ans"} /\ Good(new.d) /\ Onward(e, new.d) /\ Truthful(new, h)
    BY ReportNewGood, Zenon DEF new
  <2>. QED
    BY <2>1, <2>3, NumberedGood, Zenon
<1>4. CASE m.type = "heartbeat"
  <2>1. r = Heartbeat(e, h)
    BY <1>4, Zenon DEF Handle
  <2>2. r.d = e /\ r.ans.type # "end"
    BY <2>1, FencedIs DEF Heartbeat
  <2>3. Onward(e, e)
    BY RowsKept, Zenon DEF Good, SameRows
  <2>. QED
    BY <2>2, <2>3, Zenon DEF Truthful
<1>. QED
  BY <1>1, <1>2, <1>3, <1>4, Zenon DEF RequestOk

\* DispenseService::with keeps it too, whoever expires first.
LEMMA AnsweredGood ==
    ASSUME Good(d), NEW h \in Holders, NEW m, RequestOk(m), NEW gone,
           NEW r, r = Answered(h, m, gone)
    PROVE  Good(r.d) /\ Onward(d, r.d) /\ Truthful(r, h)
<1>. DEFINE e == Expire(d, gone)
<1>1. r = Handle(e, h, m)
  BY Zenon DEF Answered
<1>. HIDE DEF e
<1>2. Good(e) /\ Onward(d, e)
  BY ExpireGood, Zenon DEF e
<1>3. Good(r.d) /\ Onward(e, r.d) /\ Truthful(r, h)
  BY <1>1, <1>2, HandleGood, Zenon
<1>. QED
  BY <1>2, <1>3, OnwardTwice, Zenon

----------------------------------------------------------------------------
(* The inductive invariant of the run.                                     *)

ClientFields == {"inc", "conn", "ready", "owner", "pending", "inflight", "seq", "ended", "closing",
                 "status", "orphan"}

\* A process, and the request it resends.
ProcessOk(c) ==
    /\ DOMAIN c = ClientFields
    /\ c.inc \in Incarnations
    /\ c.inflight = Nothing \/ RequestOk(c.inflight)

\* An END of the running syncer is true.
EndedOk(c, i) == c.ended \in Nat /\ c.ended <= epoch /\ (c.ended = epoch => DoneFor(d, i))

ClientsInv ==
    /\ epoch \in Nat \ {0}
    /\ DOMAIN client = Islands
    /\ \A i \in Islands : ProcessOk(client[i]) /\ EndedOk(client[i], i)

WireInv ==
    /\ DOMAIN wire = Islands
    /\ \A i \in Islands : wire[i] = Nothing \/ RequestOk(wire[i])

ReplyInv ==
    /\ DOMAIN reply = Islands
    /\ \A i \in Islands : reply[i].type = "end" => DoneFor(d, i)

LateInv == \A m \in late : m.from \in Holders /\ RequestOk(m.request)

\* The record on disk goes with the model on disk, and with any model saved
\* before it: the record is saved first.
DiskInv ==
    /\ DOMAIN disk = {"record", "trained"}
    /\ RecordOk(disk.record, disk.trained)
    /\ Grown(disk.trained, d.trained)

SavingInv ==
    \/ saving = Nothing
    \/ /\ DOMAIN saving = {"type", "record", "trained"}
       /\ saving.type \in {"record", "checkpoint"}
       /\ RecordOk(saving.record, saving.trained)
       /\ Grown(disk.trained, saving.trained)
       /\ Grown(saving.trained, d.trained)
       /\ saving.type = "checkpoint" => disk.record = saving.record

DispenseInv ==
    /\ Good(d)
    /\ ClientsInv
    /\ WireInv
    /\ ReplyInv
    /\ LateInv
    /\ DiskInv
    /\ SavingInv

\* A process as its constructor leaves it.
LEMMA ProcessIs ==
    ASSUME NEW n
    PROVE  /\ DOMAIN Process(n) = ClientFields /\ Process(n).inc = n
           /\ Process(n).inflight = Nothing /\ Process(n).ended = 0
BY Zenon DEF Process, ClientFields

\* Nothing is no answer and no stage of a save.
LEMMA NothingIs == Nothing.type = "nothing"
BY Zenon DEF Nothing

\* The first syncer and the first processes.
LEMMA InitDispense == Init => DispenseInv
<1>. SUFFICES ASSUME Init PROVE DispenseInv
  BY Zenon
<1>1. Good(d)
  BY FreshGood, Zenon DEF Init
<1>2. ClientsInv
  <2>1. epoch = 1 /\ client = [i \in Islands |-> Process(1)]
    BY Zenon DEF Init
  <2>2. 1 \in Incarnations
    BY DispenserAssumption DEF Incarnations
  <2>3. ProcessOk(Process(1))
    BY <2>2, ProcessIs, Zenon DEF ProcessOk
  <2>4. \A i \in Islands : EndedOk(Process(1), i)
    BY <2>1, ProcessIs DEF EndedOk
  <2>5. DOMAIN client = Islands /\ \A i \in Islands : client[i] = Process(1)
    BY <2>1, Zenon
  <2>. QED
    BY <2>1, <2>3, <2>4, <2>5 DEF ClientsInv
<1>3. WireInv /\ ReplyInv /\ LateInv
  BY NothingIs, Zenon DEF Init, WireInv, ReplyInv, LateInv
<1>4. DiskInv
  <2>1. disk = [record |-> Encode(Fresh), trained |-> Fresh.trained] /\ d = Fresh
    BY Zenon DEF Init
  <2>. DEFINE record == Encode(Fresh)
  <2>2. RecordOk(record, Fresh.trained)
    BY FreshGood, EncodeOk, Zenon
  <2>. HIDE DEF record
  <2>3. DOMAIN disk = {"record", "trained"} /\ disk.record = record /\ disk.trained = Fresh.trained
    BY <2>1, Zenon DEF record
  <2>4. Grown(Fresh.trained, Fresh.trained)
    BY FreshGood, GrownSame, Zenon DEF Good, Learned, SettledRows
  <2>. QED
    BY <2>1, <2>2, <2>3, <2>4, Zenon DEF DiskInv
<1>5. SavingInv
  BY Zenon DEF Init, SavingInv
<1>. QED
  BY <1>1, <1>2, <1>3, <1>4, <1>5, Zenon DEF DispenseInv

\* The holder of an island's process.
LEMMA HolderOk ==
    ASSUME ClientsInv, NEW i \in Islands
    PROVE  Holder(i) \in Holders /\ Holder(i)[1] = i
<1>1. client[i].inc \in Incarnations
  BY Zenon DEF ClientsInv, ProcessOk
<1>. QED
  BY <1>1, Zenon DEF Holder, Holders

\* The dispenser moves on: ENDs and the files stay true.
LEMMA MovesOn ==
    ASSUME DispenseInv, Good(d'), Onward(d, d'), epoch' = epoch
    PROVE  /\ client' = client => ClientsInv'
           /\ \A i \in Islands : DoneFor(d, i) => DoneFor(d', i)
           /\ disk' = disk => DiskInv'
           /\ disk' = disk /\ saving' = saving => SavingInv'
<1>1. \A i \in Islands : DoneFor(d, i) => DoneFor(d', i)
  BY StaysDone, Zenon DEF Onward
<1>2. client' = client => ClientsInv'
  BY <1>1, Zenon DEF DispenseInv, ClientsInv, EndedOk
<1>3. d.trained \in [Position -> Nat] /\ d'.trained \in [Position -> Nat] /\ Grown(d.trained, d'.trained)
  BY Zenon DEF DispenseInv, Good, Learned, SettledRows, Onward
<1>4. disk' = disk => DiskInv'
  <2>1. disk.trained \in [Position -> Nat] /\ Grown(disk.trained, d.trained)
    BY Zenon DEF DispenseInv, DiskInv, RecordOk, SettledRows
  <2>2. Grown(disk.trained, d'.trained)
    BY <1>3, <2>1, GrownTwice, Zenon
  <2>. QED
    BY <2>2, Zenon DEF DispenseInv, DiskInv
<1>5. disk' = disk /\ saving' = saving => SavingInv'
  <2>. SUFFICES ASSUME disk' = disk, saving' = saving, saving # Nothing
                PROVE  SavingInv'
    BY Zenon DEF SavingInv
  <2>1. saving.trained \in [Position -> Nat] /\ Grown(saving.trained, d.trained)
    BY Zenon DEF DispenseInv, SavingInv, RecordOk, SettledRows
  <2>2. Grown(saving.trained, d'.trained)
    BY <1>3, <2>1, GrownTwice, Zenon
  <2>. QED
    BY <2>2, Zenon DEF DispenseInv, SavingInv
<1>. QED
  BY <1>1, <1>2, <1>4, <1>5, Zenon

\* serve: a request of a connection, and its answer.
LEMMA ServeStep ==
    ASSUME DispenseInv, NEW i \in Islands, Serve(i)
    PROVE  DispenseInv'
<1>1. PICK gone \in MayExpire :
        /\ d' = Answered(Holder(i), wire[i], gone).d
        /\ reply' = [reply EXCEPT ![i] = Answered(Holder(i), wire[i], gone).ans]
  BY Zenon DEF Serve
<1>. DEFINE r == Answered(Holder(i), wire[i], gone)
            h == Holder(i)
            m == wire[i]
<1>2. h \in Holders /\ h[1] = i
  BY HolderOk, Zenon DEF DispenseInv
<1>3. RequestOk(m)
  BY Zenon DEF Serve, DispenseInv, WireInv
<1>4. r = Answered(h, m, gone) /\ d' = r.d /\ reply' = [reply EXCEPT ![i] = r.ans]
  BY <1>1, Zenon
<1>5. wire' = [wire EXCEPT ![i] = Nothing] /\ UNCHANGED <<client, late, saving, disk, epoch>>
  BY Zenon DEF Serve
<1>. HIDE DEF r, h, m
<1>6. Good(d') /\ Onward(d, d') /\ Truthful(r, h)
  BY <1>2, <1>3, <1>4, AnsweredGood, Zenon DEF DispenseInv
<1>7. ClientsInv' /\ DiskInv' /\ SavingInv' /\ \A j \in Islands : DoneFor(d, j) => DoneFor(d', j)
  BY <1>5, <1>6, MovesOn, Zenon
<1>8. WireInv'
  <2>1. DOMAIN wire' = Islands /\ wire'[i] = Nothing /\ \A j \in Islands : j # i => wire'[j] = wire[j]
    BY <1>5, Zenon DEF DispenseInv, WireInv
  <2>. QED
    BY <2>1, Zenon DEF DispenseInv, WireInv
<1>9. ReplyInv'
  <2>1. DOMAIN reply' = Islands /\ reply'[i] = r.ans /\ \A j \in Islands : j # i => reply'[j] = reply[j]
    BY <1>4, Zenon DEF DispenseInv, ReplyInv
  <2>2. r.ans.type = "end" => DoneFor(d', i)
    BY <1>2, <1>4, <1>6, Zenon DEF Truthful
  <2>3. ASSUME NEW j \in Islands, reply'[j].type = "end"
        PROVE  DoneFor(d', j)
    <3>1. CASE j = i
      BY <2>1, <2>2, <2>3, <3>1, Zenon
    <3>2. CASE j # i
      BY <1>7, <2>1, <2>3, <3>2, Zenon DEF DispenseInv, ReplyInv
    <3>. QED
      BY <3>1, <3>2, Zenon
  <2>. QED
    BY <2>1, <2>3, Zenon DEF ReplyInv
<1>10. LateInv'
  BY <1>5, Zenon DEF DispenseInv, LateInv
<1>. QED
  BY <1>6, <1>7, <1>8, <1>9, <1>10, Zenon DEF DispenseInv

\* The dispenser moves on, and nothing is answered.
LEMMA QuietStep ==
    ASSUME DispenseInv, Good(d'), Onward(d, d'), late' \subseteq late,
           UNCHANGED <<client, wire, reply, disk, epoch>>, SavingInv'
    PROVE  DispenseInv'
<1>1. client' = client /\ wire' = wire /\ reply' = reply /\ disk' = disk /\ epoch' = epoch
  BY Zenon
<1>2. ClientsInv' /\ DiskInv' /\ \A j \in Islands : DoneFor(d, j) => DoneFor(d', j)
  BY <1>1, MovesOn, Zenon
<1>3. WireInv' /\ ReplyInv'
  BY <1>1, <1>2, Zenon DEF DispenseInv, WireInv, ReplyInv
<1>4. LateInv'
  BY Zenon DEF DispenseInv, LateInv
<1>. QED
  BY <1>2, <1>3, <1>4, Zenon DEF DispenseInv

\* serve: a request whose answer nobody waits for.
LEMMA ServeLateStep ==
    ASSUME DispenseInv, NEW m \in late, ServeLate(m)
    PROVE  DispenseInv'
<1>1. PICK gone \in MayExpire : d' = Answered(m.from, m.request, gone).d
  BY Zenon DEF ServeLate
<1>. DEFINE h == m.from
            q == m.request
            r == Answered(h, q, gone)
<1>2. h \in Holders /\ RequestOk(q)
  BY Zenon DEF DispenseInv, LateInv
<1>. HIDE DEF h, q
<1>3. Good(r.d) /\ Onward(d, r.d)
  <2>. HIDE DEF r
  <2>. QED
    BY <1>2, AnsweredGood, Zenon DEF DispenseInv, r
<1>4. d' = r.d
  BY <1>1, Zenon DEF h, q
<1>5. late' \subseteq late /\ UNCHANGED <<client, wire, reply, saving, disk, epoch>>
  BY Zenon DEF ServeLate
<1>. HIDE DEF r
<1>6. SavingInv'
  BY <1>3, <1>4, <1>5, MovesOn, Zenon
<1>. QED
  BY <1>3, <1>4, <1>5, <1>6, QuietStep, Zenon

\* A join of the member table on another channel returns no rows.
LEMMA JoinElsewhereStep ==
    ASSUME DispenseInv, NEW i \in Islands, JoinElsewhere(i)
    PROVE  DispenseInv'
<1>1. PICK gone \in MayExpire : d' = Join(Retire(d, gone, "expired"), Holder(i))
  BY Zenon DEF JoinElsewhere
<1>. DEFINE e == Retire(d, gone, "expired")
            h == Holder(i)
<1>2. Good(d)
  BY Zenon DEF DispenseInv
<1>3. Good(e) /\ SameRows(d, e)
  <2>1. DOMAIN d = Fields
    BY <1>2, Zenon DEF Good
  <2>2. Good(e)
    BY <1>2, RetireGood, Zenon
  <2>3. Retires(d, gone, e)
    BY <2>1, RetireIs, Zenon
  <2>. HIDE DEF e
  <2>. QED
    BY <2>2, <2>3, Zenon DEF Retires
<1>4. d' = Join(e, h)
  BY <1>1, Zenon
<1>. HIDE DEF e, h
<1>5. Good(d') /\ SameRows(e, d')
  BY <1>3, <1>4, JoinGood, Zenon
<1>6. Onward(d, d')
  <2>1. SameRows(d, d')
    BY <1>3, <1>5, Zenon DEF SameRows
  <2>. QED
    BY <1>2, <2>1, RowsKept, Zenon DEF Good
<1>7. UNCHANGED <<client, wire, reply, late, saving, disk, epoch>>
  BY Zenon DEF JoinElsewhere
<1>8. SavingInv'
  BY <1>5, <1>6, <1>7, MovesOn, Zenon
<1>. QED
  BY <1>5, <1>6, <1>7, <1>8, QuietStep, Zenon

\* The task of run() that reclaims from the retired.
LEMMA ReapStep ==
    ASSUME DispenseInv, Reap
    PROVE  DispenseInv'
<1>1. PICK gone \in MayExpire : d' = Expire(d, gone)
  BY Zenon DEF Reap
<1>2. Good(d') /\ Onward(d, d')
  BY <1>1, ExpireGood, Zenon DEF DispenseInv
<1>3. UNCHANGED <<client, wire, reply, late, saving, disk, epoch>>
  BY Zenon DEF Reap
<1>4. SavingInv'
  BY <1>2, <1>3, MovesOn, Zenon
<1>. QED
  BY <1>2, <1>3, <1>4, QuietStep, Zenon

\* The record captured at a cut goes with the model captured with it.
LEMMA CutStep ==
    ASSUME DispenseInv, Cut
    PROVE  DispenseInv'
<1>1. PICK gone \in MayExpire :
        /\ d' = Expire(d, gone)
        /\ saving' = [type |-> "record", record |-> Encode(Expire(d, gone)),
                      trained |-> Expire(d, gone).trained]
  BY Zenon DEF Cut
<1>. DEFINE record == Encode(d')
<1>2. Good(d') /\ Onward(d, d')
  BY <1>1, ExpireGood, Zenon DEF DispenseInv
<1>3. UNCHANGED <<client, wire, reply, late, disk, epoch>>
  BY Zenon DEF Cut
<1>4. saving' = [type |-> "record", record |-> record, trained |-> d'.trained]
  BY <1>1, Zenon
<1>5. RecordOk(record, d'.trained)
  <2>. HIDE DEF record
  <2>. QED
    BY <1>2, EncodeOk, Zenon DEF record
<1>. HIDE DEF record
<1>6. /\ DOMAIN saving' = {"type", "record", "trained"} /\ saving'.type = "record"
      /\ saving'.record = record /\ saving'.trained = d'.trained
  BY <1>4, Zenon
<1>7. Grown(d'.trained, d'.trained)
  BY <1>2, GrownSame, Zenon DEF Good, Learned, SettledRows
<1>8. Grown(disk'.trained, d'.trained)
  <2>1. DiskInv'
    BY <1>2, <1>3, MovesOn, Zenon
  <2>. QED
    BY <2>1, Zenon DEF DiskInv
<1>9. SavingInv'
  <2>1. "record" # "checkpoint" /\ "record" \in {"record", "checkpoint"}
    BY Zenon
  <2>. QED
    BY <1>5, <1>6, <1>7, <1>8, <2>1, Zenon DEF SavingInv
<1>. QED
  BY <1>2, <1>3, <1>9, QuietStep, Zenon

\* A record goes with a model that has trained less.
LEMMA RecordOkBefore ==
    ASSUME NEW record, NEW a, NEW b \in [Position -> Nat], RecordOk(record, a), Grown(b, a)
    PROVE  RecordOk(record, b)
<1>1. SettledRows(a, record.next, DOMAIN record.queue)
  BY Zenon DEF RecordOk
<1>. DEFINE Z == GivenTo(record.next) \ DOMAIN record.queue
<1>2. a \in [Position -> Nat] /\ \A p \in Position : a[p] <= 1 /\ (a[p] = 1 => p \in Z)
  BY <1>1, Zenon DEF SettledRows
<1>. HIDE DEF Z
<1>3. \A p \in Position : b[p] <= 1 /\ (b[p] = 1 => p \in Z)
  <2>. SUFFICES ASSUME NEW p \in Position
                PROVE  b[p] <= 1 /\ (b[p] = 1 => p \in Z)
    BY Zenon
  <2>1. a[p] \in Nat /\ b[p] \in Nat /\ b[p] <= a[p] /\ a[p] <= 1
    BY <1>2, Zenon DEF Grown
  <2>2. b[p] <= 1 /\ (b[p] = 1 => a[p] = 1)
    BY <2>1
  <2>. QED
    BY <1>2, <2>2, Zenon
<1>4. SettledRows(b, record.next, DOMAIN record.queue)
  BY <1>3, Zenon DEF SettledRows, Z
<1>. QED
  BY <1>4, Zenon DEF RecordOk

\* Only files change.
LEMMA FilesStep ==
    ASSUME DispenseInv, UNCHANGED <<d, client, wire, reply, late, epoch>>, DiskInv', SavingInv'
    PROVE  DispenseInv'
<1>1. /\ d' = d /\ client' = client /\ wire' = wire /\ reply' = reply /\ late' = late
      /\ epoch' = epoch
  BY Zenon
<1>2. Good(d') /\ WireInv' /\ LateInv'
  BY <1>1, Zenon DEF DispenseInv, WireInv, LateInv
<1>3. ReplyInv'
  BY <1>1, Zenon DEF DispenseInv, ReplyInv
<1>4. ClientsInv'
  BY <1>1, Zenon DEF DispenseInv, ClientsInv, EndedOk
<1>. QED
  BY <1>2, <1>3, <1>4, Zenon DEF DispenseInv

\* The record is renamed into place first: it goes with the older model on disk.
LEMMA SaveRecordStep ==
    ASSUME DispenseInv, SaveRecord
    PROVE  DispenseInv'
<1>1. saving # Nothing /\ saving.type = "record"
  BY NothingIs, Zenon DEF SaveRecord
<1>2. /\ DOMAIN saving = {"type", "record", "trained"} /\ RecordOk(saving.record, saving.trained)
      /\ Grown(disk.trained, saving.trained) /\ Grown(saving.trained, d.trained)
      /\ DOMAIN disk = {"record", "trained"} /\ RecordOk(disk.record, disk.trained)
      /\ Grown(disk.trained, d.trained)
  BY <1>1, Zenon DEF DispenseInv, SavingInv, DiskInv
<1>3. /\ disk' = [disk EXCEPT !.record = saving.record]
      /\ saving' = [saving EXCEPT !.type = "checkpoint"]
      /\ UNCHANGED <<d, client, wire, reply, late, epoch>>
  BY Zenon DEF SaveRecord
<1>4. /\ DOMAIN disk' = {"record", "trained"} /\ disk'.record = saving.record
      /\ disk'.trained = disk.trained
      /\ DOMAIN saving' = {"type", "record", "trained"} /\ saving'.type = "checkpoint"
      /\ saving'.record = saving.record /\ saving'.trained = saving.trained /\ d' = d
  BY <1>2, <1>3, Zenon
<1>5. RecordOk(saving.record, disk.trained)
  <2>1. disk.trained \in [Position -> Nat]
    BY <1>2, Zenon DEF RecordOk, SettledRows
  <2>. QED
    BY <1>2, <2>1, RecordOkBefore, Zenon
<1>6. DiskInv'
  BY <1>2, <1>4, <1>5, Zenon DEF DiskInv
<1>7. SavingInv'
  <2>1. "checkpoint" \in {"record", "checkpoint"}
    BY Zenon
  <2>. QED
    BY <1>2, <1>4, <2>1, Zenon DEF SavingInv
<1>. QED
  BY <1>3, <1>6, <1>7, FilesStep, Zenon

\* The model is renamed into place second: it goes with its own record.
LEMMA SaveCheckpointStep ==
    ASSUME DispenseInv, SaveCheckpoint
    PROVE  DispenseInv'
<1>1. saving # Nothing /\ saving.type = "checkpoint"
  BY NothingIs, Zenon DEF SaveCheckpoint
<1>2. /\ RecordOk(saving.record, saving.trained) /\ disk.record = saving.record
      /\ Grown(saving.trained, d.trained) /\ DOMAIN disk = {"record", "trained"}
  BY <1>1, Zenon DEF DispenseInv, SavingInv, DiskInv
<1>3. /\ disk' = [disk EXCEPT !.trained = saving.trained]
      /\ saving' = Nothing
      /\ UNCHANGED <<d, client, wire, reply, late, epoch>>
  BY Zenon DEF SaveCheckpoint
<1>4. /\ DOMAIN disk' = {"record", "trained"} /\ disk'.record = saving.record
      /\ disk'.trained = saving.trained /\ d' = d
  BY <1>2, <1>3, Zenon
<1>5. DiskInv' /\ SavingInv'
  BY <1>2, <1>3, <1>4, Zenon DEF DiskInv, SavingInv
<1>. QED
  BY <1>3, <1>5, FilesStep, Zenon

\* A restart from the record and the model on disk; ENDs of the old syncer no longer count.
LEMMA CrashStep ==
    ASSUME DispenseInv, Crash
    PROVE  DispenseInv'
<1>. DEFINE record == disk.record
            trained == disk.trained
<1>1. d' = [Restore(record) EXCEPT !.trained = trained]
  BY Zenon DEF Crash
<1>a. /\ epoch' = epoch + 1
      /\ wire' = [i \in Islands |-> Nothing]
      /\ reply' = [i \in Islands |-> Nothing]
      /\ late' = {}
      /\ saving' = Nothing
      /\ disk' = disk
  BY Zenon DEF Crash
<1>c. /\ DOMAIN client' = Islands
      /\ \A i \in Islands : \E o : client'[i] = [client[i] EXCEPT !.conn = "none", !.orphan = o]
  <2>. DEFINE o(i) == client[i].orphan \/ (Running(i) /\ Holder(i) \notin disk.record.fence)
              c(i) == [client[i] EXCEPT !.conn = "none", !.orphan = o(i)]
  <2>1. client' = [i \in Islands |-> c(i)]
    BY Zenon DEF Crash
  <2>2. DOMAIN client' = Islands /\ \A i \in Islands : client'[i] = c(i)
    <3>. HIDE DEF c
    <3>. QED
      BY <2>1, Zenon
  <2>. HIDE DEF o
  <2>. QED
    BY <2>2, Zenon
<1>2. RecordOk(record, trained) /\ DOMAIN disk = {"record", "trained"}
  BY Zenon DEF DispenseInv, DiskInv
<1>. HIDE DEF record, trained
<1>3. Good(d')
  BY <1>1, <1>2, RestoreGood, Zenon
<1>4. WireInv' /\ ReplyInv' /\ LateInv' /\ SavingInv'
  BY <1>a, NothingIs, Zenon DEF WireInv, ReplyInv, LateInv, SavingInv
<1>5. ClientsInv'
  <2>1. epoch' \in Nat \ {0} /\ epoch' = epoch + 1 /\ epoch \in Nat
    BY <1>a DEF DispenseInv, ClientsInv
  <2>2. ASSUME NEW i \in Islands
        PROVE  ProcessOk(client'[i]) /\ EndedOk(client[i], i)'
    <3>0. PICK o : client'[i] = [client[i] EXCEPT !.conn = "none", !.orphan = o]
      BY <1>c, Zenon
    <3>. DEFINE c == client[i]
                b == [c EXCEPT !.conn = "none", !.orphan = o]
    <3>1. ProcessOk(c) /\ EndedOk(c, i)
      BY Zenon DEF DispenseInv, ClientsInv
    <3>2. client'[i] = b
      BY <3>0, Zenon
    <3>3. DOMAIN c = ClientFields
      BY <3>1, Zenon DEF ProcessOk
    <3>. HIDE DEF c
    <3>4. DOMAIN b = ClientFields /\ b.inc = c.inc /\ b.inflight = c.inflight /\ b.ended = c.ended
      BY <3>3, Zenon DEF ClientFields
    <3>. HIDE DEF b
    <3>5. ProcessOk(b)
      BY <3>1, <3>4, Zenon DEF ProcessOk
    <3>6. c.ended \in Nat /\ c.ended <= epoch
      BY <3>1, Zenon DEF EndedOk
    <3>7. b.ended \in Nat /\ b.ended <= epoch' /\ b.ended # epoch'
      BY <2>1, <3>4, <3>6
    <3>. QED
      BY <3>2, <3>5, <3>7, Zenon DEF EndedOk
  <2>. QED
    BY <1>c, <2>1, <2>2, Zenon DEF ClientsInv
<1>6. DiskInv'
  <2>1. d'.trained = trained
    <3>1. DOMAIN Restore(record) = Fields
      <4>1. DOMAIN d' = Fields
        BY <1>3, Zenon DEF Good
      <4>. QED
        BY <1>1, <4>1, Zenon
    <3>. QED
      BY <1>1, <3>1, Zenon DEF Fields
  <2>2. Grown(trained, trained)
    BY <1>2, GrownSame, Zenon DEF RecordOk, SettledRows
  <2>. QED
    BY <1>a, <1>2, <2>1, <2>2, Zenon DEF DiskInv, record, trained
<1>. QED
  BY <1>3, <1>4, <1>5, <1>6, Zenon DEF DispenseInv

----------------------------------------------------------------------------
(* The island processes: they leave the dispenser and the files alone.     *)

\* A process that keeps its incarnation and its END, and the request it
\* resends or none.
CopyOf(b, c) ==
    /\ DOMAIN c = ClientFields
    /\ c.inc = b.inc /\ c.ended = b.ended
    /\ c.inflight = b.inflight \/ c.inflight = Nothing

\* What the invariant says of one process.
LEMMA ProcessOf ==
    ASSUME DispenseInv, NEW i \in Islands
    PROVE  /\ ProcessOk(client[i]) /\ EndedOk(client[i], i)
           /\ DOMAIN client[i] = ClientFields /\ DOMAIN client = Islands
BY Zenon DEF DispenseInv, ClientsInv, ProcessOk

\* A copy of a process is as good as the process.
LEMMA CopyGood ==
    ASSUME NEW i, NEW b, NEW c, ProcessOk(b), EndedOk(b, i), CopyOf(b, c)
    PROVE  ProcessOk(c) /\ EndedOk(c, i)
<1>1. ProcessOk(c)
  BY Zenon DEF ProcessOk, CopyOf
<1>2. EndedOk(c, i)
  BY Zenon DEF EndedOk, CopyOf
<1>. QED
  BY <1>1, <1>2, Zenon

\* One process changes, and what is on the wire.
LEMMA ClientStep ==
    ASSUME DispenseInv, NEW i \in Islands, NEW c, ProcessOk(c), EndedOk(c, i),
           client' = [client EXCEPT ![i] = c], UNCHANGED syncer, WireInv', ReplyInv', LateInv'
    PROVE  DispenseInv'
<1>1. d' = d /\ saving' = saving /\ disk' = disk /\ epoch' = epoch
  BY Zenon DEF syncer
<1>2. /\ DOMAIN client' = Islands /\ client'[i] = c
      /\ \A j \in Islands : j # i => client'[j] = client[j]
  BY ProcessOf, Zenon
<1>3. ASSUME NEW j \in Islands
      PROVE  ProcessOk(client'[j]) /\ EndedOk(client[j], j)'
  <2>1. CASE j = i
    BY <1>1, <1>2, <2>1, Zenon DEF EndedOk
  <2>2. CASE j # i
    <3>1. ProcessOk(client[j]) /\ EndedOk(client[j], j)
      BY ProcessOf, Zenon
    <3>. QED
      BY <1>1, <1>2, <2>2, <3>1, Zenon DEF EndedOk
  <2>. QED
    BY <2>1, <2>2, Zenon
<1>4. ClientsInv'
  BY <1>1, <1>2, <1>3, Zenon DEF DispenseInv, ClientsInv
<1>5. Good(d') /\ DiskInv' /\ SavingInv'
  BY <1>1, Zenon DEF DispenseInv, DiskInv, SavingInv
<1>. QED
  BY <1>4, <1>5, Zenon DEF DispenseInv

\* A call of the rollout changes only its process.
LEMMA CallStep ==
    ASSUME DispenseInv, NEW i \in Islands, NEW c, CopyOf(client[i], c),
           client' = [client EXCEPT ![i] = c], UNCHANGED <<wire, reply, late, syncer>>
    PROVE  DispenseInv'
<1>1. wire' = wire /\ reply' = reply /\ late' = late /\ UNCHANGED syncer /\ d' = d
  BY Zenon DEF syncer
<1>2. WireInv' /\ ReplyInv' /\ LateInv'
  BY <1>1, Zenon DEF DispenseInv, WireInv, ReplyInv, LateInv
<1>3. ProcessOk(c) /\ EndedOk(c, i)
  BY ProcessOf, CopyGood, Zenon
<1>. QED
  BY <1>1, <1>2, <1>3, ClientStep, Zenon

\* An answer taken off the wire.
LEMMA ReceiveStep ==
    ASSUME DispenseInv, NEW i \in Islands, NEW type, NEW c, Receive(i, type, c),
           ProcessOk(c), EndedOk(c, i)
    PROVE  DispenseInv'
<1>1. /\ reply' = [reply EXCEPT ![i] = Nothing] /\ client' = [client EXCEPT ![i] = c]
      /\ wire' = wire /\ late' = late /\ UNCHANGED syncer
  BY Zenon DEF Receive
<1>2. d' = d
  BY <1>1, Zenon DEF syncer
<1>3. WireInv' /\ LateInv'
  BY <1>1, Zenon DEF DispenseInv, WireInv, LateInv
<1>4. ReplyInv'
  <2>1. /\ DOMAIN reply' = Islands /\ reply'[i] = Nothing
        /\ \A j \in Islands : j # i => reply'[j] = reply[j]
    BY <1>1, Zenon DEF DispenseInv, ReplyInv
  <2>2. Nothing.type # "end"
    BY NothingIs, Zenon
  <2>. QED
    BY <1>2, <2>1, <2>2, Zenon DEF DispenseInv, ReplyInv
<1>. QED
  BY <1>1, <1>3, <1>4, ClientStep, Zenon

\* A connection that is gone leaves its request behind.
LEMMA DisconnectStep ==
    ASSUME DispenseInv, NEW i \in Islands, NEW c, Disconnect(i, c), ProcessOk(c), EndedOk(c, i)
    PROVE  DispenseInv'
<1>1. /\ reply' = [reply EXCEPT ![i] = Nothing] /\ client' = [client EXCEPT ![i] = c]
      /\ wire' = [wire EXCEPT ![i] = Nothing] /\ late' = late \cup Abandoned(i)
      /\ d' = d /\ UNCHANGED syncer
  BY Zenon DEF Disconnect, syncer
<1>2. ReplyInv'
  <2>1. /\ DOMAIN reply' = Islands /\ reply'[i] = Nothing
        /\ \A j \in Islands : j # i => reply'[j] = reply[j]
    BY <1>1, Zenon DEF DispenseInv, ReplyInv
  <2>2. Nothing.type # "end"
    BY NothingIs, Zenon
  <2>. QED
    BY <1>1, <2>1, <2>2, Zenon DEF DispenseInv, ReplyInv
<1>3. WireInv'
  <2>1. /\ DOMAIN wire' = Islands /\ wire'[i] = Nothing
        /\ \A j \in Islands : j # i => wire'[j] = wire[j]
    BY <1>1, Zenon DEF DispenseInv, WireInv
  <2>. QED
    BY <2>1, Zenon DEF DispenseInv, WireInv
<1>4. \A m \in Abandoned(i) : m.from \in Holders /\ RequestOk(m.request)
  <2>. DEFINE h == Holder(i)
              q == wire[i]
  <2>1. h \in Holders
    BY HolderOk, Zenon DEF DispenseInv
  <2>2. q = Nothing \/ RequestOk(q)
    BY Zenon DEF DispenseInv, WireInv
  <2>3. Abandoned(i) = IF q = Nothing THEN {} ELSE {[from |-> h, request |-> q]}
    BY Zenon DEF Abandoned
  <2>. HIDE DEF h, q
  <2>. QED
    BY <2>1, <2>2, <2>3
<1>5. LateInv'
  BY <1>1, <1>4, Zenon DEF DispenseInv, LateInv
<1>. QED
  BY <1>1, <1>2, <1>3, <1>5, ClientStep, Zenon

\* TaskSource._open.
LEMMA ConnectStep ==
    ASSUME DispenseInv, NEW i \in Islands, Connect(i)
    PROVE  DispenseInv'
<1>. DEFINE b == client[i]
            c == [b EXCEPT !.conn = "opening"]
            m == [type |-> "hello"]
<1>1. /\ client' = [client EXCEPT ![i] = c] /\ wire' = [wire EXCEPT ![i] = m]
      /\ reply' = reply /\ late' = late /\ UNCHANGED syncer
  BY Zenon DEF Connect
<1>2. d' = d
  BY <1>1, Zenon DEF syncer
<1>3. RequestOk(m)
  BY Zenon DEF RequestOk
<1>4. DOMAIN b = ClientFields /\ ProcessOk(b) /\ EndedOk(b, i)
  BY ProcessOf, Zenon
<1>. HIDE DEF b, m
<1>5. CopyOf(b, c)
  BY <1>4, Zenon DEF CopyOf, ClientFields
<1>. HIDE DEF c
<1>6. ProcessOk(c) /\ EndedOk(c, i)
  BY <1>4, <1>5, CopyGood, Zenon
<1>7. WireInv'
  <2>1. /\ DOMAIN wire' = Islands /\ wire'[i] = m
        /\ \A j \in Islands : j # i => wire'[j] = wire[j]
    BY <1>1, Zenon DEF DispenseInv, WireInv
  <2>. QED
    BY <1>3, <2>1, Zenon DEF DispenseInv, WireInv
<1>8. ReplyInv' /\ LateInv'
  BY <1>1, <1>2, Zenon DEF DispenseInv, ReplyInv, LateInv
<1>. QED
  BY <1>1, <1>6, <1>7, <1>8, ClientStep, Zenon

\* Every request that TaskSource._step sends is one the syncer knows.
LEMMA NextRequestOk ==
    ASSUME DispenseInv, NEW i \in Islands
    PROVE  RequestOk(NextRequest(i))
<1>. DEFINE b == client[i]
            n == b.seq + 1
            k == b.seq
            body == b.pending
            count == Block[i]
<1>1. CASE b.inflight # Nothing
  <2>1. NextRequest(i) = b.inflight
    BY <1>1, Zenon DEF NextRequest
  <2>. QED
    BY <1>1, <2>1, ProcessOf, Zenon DEF ProcessOk
<1>2. CASE b.inflight = Nothing
  <2>1. \/ NextRequest(i) = [type |-> "report", seq |-> n, body |-> body]
        \/ NextRequest(i) = [type |-> "claim", seq |-> n, count |-> count]
        \/ NextRequest(i) = [type |-> "heartbeat", seq |-> k]
    BY <1>2, Zenon DEF NextRequest
  <2>2. count \in Nat
    BY TaskDispenseAssumption, Zenon
  <2>. HIDE DEF n, k, body, count
  <2>. QED
    BY <2>1, <2>2 DEF RequestOk
<1>. QED
  BY <1>1, <1>2, Zenon

\* TaskSource._step up to the blocking call.
LEMMA SendStep ==
    ASSUME DispenseInv, NEW i \in Islands, Send(i)
    PROVE  DispenseInv'
<1>. DEFINE b == client[i]
            m == NextRequest(i)
            seq == m.seq
            pending == IF m.type = "report" THEN EmptyBag ELSE b.pending
            a == [b EXCEPT !.inflight = m, !.seq = seq, !.pending = pending]
            c == IF m.type = "heartbeat" \/ m = b.inflight THEN b ELSE a
<1>1. /\ client' = [client EXCEPT ![i] = c] /\ wire' = [wire EXCEPT ![i] = m]
      /\ reply' = reply /\ late' = late /\ UNCHANGED syncer
  BY Zenon DEF Send
<1>2. d' = d
  BY <1>1, Zenon DEF syncer
<1>3. RequestOk(m)
  BY NextRequestOk, Zenon
<1>4. DOMAIN b = ClientFields /\ ProcessOk(b) /\ EndedOk(b, i)
  BY ProcessOf, Zenon
<1>5. c = b \/ c = a
  BY Zenon
<1>. HIDE DEF b, m, seq, pending, c
<1>6. DOMAIN a = ClientFields /\ a.inc = b.inc /\ a.ended = b.ended /\ a.inflight = m
  BY <1>4, Zenon DEF ClientFields
<1>. HIDE DEF a
<1>7. ProcessOk(c) /\ EndedOk(c, i)
  <2>1. ProcessOk(a)
    BY <1>3, <1>4, <1>6, Zenon DEF ProcessOk
  <2>2. EndedOk(a, i)
    BY <1>4, <1>6, Zenon DEF EndedOk
  <2>. QED
    BY <1>4, <1>5, <2>1, <2>2, Zenon
<1>8. WireInv'
  <2>1. /\ DOMAIN wire' = Islands /\ wire'[i] = m
        /\ \A j \in Islands : j # i => wire'[j] = wire[j]
    BY <1>1, Zenon DEF DispenseInv, WireInv
  <2>. QED
    BY <1>3, <2>1, Zenon DEF DispenseInv, WireInv
<1>9. ReplyInv' /\ LateInv'
  BY <1>1, <1>2, Zenon DEF DispenseInv, ReplyInv, LateInv
<1>. QED
  BY <1>1, <1>7, <1>8, <1>9, ClientStep, Zenon

\* A copy of a copy.
LEMMA CopyTwice ==
    ASSUME NEW a, NEW b, NEW c, CopyOf(a, b), CopyOf(b, c)
    PROVE  CopyOf(a, c)
BY Zenon DEF CopyOf

\* An answer after which the process is a copy of itself.
LEMMA AnswerStep ==
    ASSUME DispenseInv, NEW i \in Islands,
           Welcomed(i) \/ Granted(i) \/ Waits(i) \/ Acked(i) \/ FencedForGood(i) \/ Refused(i)
    PROVE  DispenseInv'
<1>. DEFINE b == client[i]
            ready == b.ready (+) SetToBag({<<p, reply[i].block>> : p \in reply[i].given})
<1>1. PICK type, c : Receive(i, type, c) /\ CopyOf(b, c)
  <2>0. DOMAIN b = ClientFields
    BY ProcessOf, Zenon
  <2>1. CASE Welcomed(i)
    <3>. DEFINE c == [b EXCEPT !.conn = "open", !.status = "running"]
    <3>1. Receive(i, "welcome", c)
      BY <2>1, Zenon DEF Welcomed
    <3>. HIDE DEF b
    <3>2. CopyOf(b, c)
      BY <2>0, Zenon DEF CopyOf, ClientFields
    <3>. HIDE DEF c
    <3>. QED
      BY <3>1, <3>2, Zenon
  <2>2. CASE Granted(i)
    <3>. DEFINE c == [b EXCEPT !.inflight = Nothing, !.ready = ready]
    <3>1. Receive(i, "grant", c)
      BY <2>2, Zenon DEF Granted
    <3>. HIDE DEF b, ready
    <3>2. CopyOf(b, c)
      BY <2>0, Zenon DEF CopyOf, ClientFields
    <3>. HIDE DEF c
    <3>. QED
      BY <3>1, <3>2, Zenon
  <2>3. CASE Waits(i)
    <3>. DEFINE c == [b EXCEPT !.inflight = Nothing]
    <3>1. Receive(i, "wait", c)
      BY <2>3, Zenon DEF Waits
    <3>. HIDE DEF b
    <3>2. CopyOf(b, c)
      BY <2>0, Zenon DEF CopyOf, ClientFields
    <3>. HIDE DEF c
    <3>. QED
      BY <3>1, <3>2, Zenon
  <2>4. CASE Acked(i)
    <3>. DEFINE c == [b EXCEPT !.inflight = Nothing]
    <3>1. Receive(i, "ack", c)
      BY <2>4, Zenon DEF Acked
    <3>. HIDE DEF b
    <3>2. CopyOf(b, c)
      BY <2>0, Zenon DEF CopyOf, ClientFields
    <3>. HIDE DEF c
    <3>. QED
      BY <3>1, <3>2, Zenon
  <2>5. CASE FencedForGood(i)
    <3>. DEFINE c == [b EXCEPT !.conn = "none", !.status = "fenced"]
    <3>1. Receive(i, "fenced", c)
      BY <2>5, Zenon DEF FencedForGood
    <3>. HIDE DEF b
    <3>2. CopyOf(b, c)
      BY <2>0, Zenon DEF CopyOf, ClientFields
    <3>. HIDE DEF c
    <3>. QED
      BY <3>1, <3>2, Zenon
  <2>6. CASE Refused(i)
    <3>. DEFINE c == [b EXCEPT !.conn = "none", !.status = "refused"]
    <3>1. Receive(i, "refused", c)
      BY <2>6, Zenon DEF Refused
    <3>. HIDE DEF b
    <3>2. CopyOf(b, c)
      BY <2>0, Zenon DEF CopyOf, ClientFields
    <3>. HIDE DEF c
    <3>. QED
      BY <3>1, <3>2, Zenon
  <2>. QED
    BY <2>1, <2>2, <2>3, <2>4, <2>5, <2>6, Zenon
<1>2. ProcessOk(c) /\ EndedOk(c, i)
  BY <1>1, ProcessOf, CopyGood, Zenon
<1>. QED
  BY <1>1, <1>2, ReceiveStep, Zenon

\* An END is noted with the syncer that said it.
LEMMA EndsStep ==
    ASSUME DispenseInv, NEW i \in Islands, Ends(i)
    PROVE  DispenseInv'
<1>. DEFINE b == client[i]
            c == [b EXCEPT !.inflight = Nothing, !.ended = epoch]
<1>1. Receive(i, "end", c)
  BY Zenon DEF Ends
<1>2. DoneFor(d, i)
  BY <1>1, Zenon DEF Receive, DispenseInv, ReplyInv
<1>3. DOMAIN b = ClientFields /\ ProcessOk(b)
  BY ProcessOf, Zenon
<1>. HIDE DEF b
<1>4. DOMAIN c = ClientFields /\ c.inc = b.inc /\ c.ended = epoch /\ c.inflight = Nothing
  BY <1>3, Zenon DEF ClientFields
<1>. HIDE DEF c
<1>5. ProcessOk(c)
  BY <1>3, <1>4, Zenon DEF ProcessOk
<1>6. EndedOk(c, i)
  <2>1. epoch \in Nat /\ epoch <= epoch
    BY DEF DispenseInv, ClientsInv
  <2>. QED
    BY <1>2, <1>4, <2>1, Zenon DEF EndedOk
<1>. QED
  BY <1>1, <1>5, <1>6, ReceiveStep, Zenon

\* The next incarnation of a process.
LEMMA NextProcess ==
    ASSUME DispenseInv, NEW i \in Islands, client[i].inc < MaxIncarnation
    PROVE  client[i].inc + 1 \in Incarnations
<1>1. client[i].inc \in Incarnations
  BY ProcessOf, Zenon DEF ProcessOk
<1>. QED
  BY <1>1, DispenserAssumption DEF Incarnations

\* TaskSource._reset_after_fence.
LEMMA ResetAfterFenceStep ==
    ASSUME DispenseInv, NEW i \in Islands, ResetAfterFence(i)
    PROVE  DispenseInv'
<1>. DEFINE b == client[i]
            n == b.inc + 1
            p == Process(n)
            seq == b.seq
            ended == b.ended
            closing == b.closing
            c == [p EXCEPT !.status = "running", !.seq = seq, !.ended = ended, !.closing = closing]
<1>1. Receive(i, "fenced", c)
  BY Zenon DEF ResetAfterFence
<1>2. n \in Incarnations
  BY NextProcess, Zenon DEF ResetAfterFence
<1>3. EndedOk(b, i)
  BY ProcessOf, Zenon
<1>. HIDE DEF n
<1>4. DOMAIN p = ClientFields /\ p.inc = n /\ p.inflight = Nothing
  BY ProcessIs, Zenon
<1>. HIDE DEF p, seq, ended, closing
<1>5. DOMAIN c = ClientFields /\ c.inc = n /\ c.ended = ended /\ c.inflight = Nothing
  BY <1>4, Zenon DEF ClientFields
<1>. HIDE DEF c
<1>6. ProcessOk(c)
  BY <1>2, <1>5, Zenon DEF ProcessOk
<1>7. EndedOk(c, i)
  BY <1>3, <1>5, Zenon DEF EndedOk, ended
<1>. QED
  BY <1>1, <1>6, <1>7, ReceiveStep, Zenon

\* TaskSource.report changes what is taken and what is pending.
LEMMA ReportedCopy ==
    ASSUME NEW b, DOMAIN b = ClientFields, NEW kind, NEW P
    PROVE  CopyOf(b, Reported(b, kind, P))
<1>. DEFINE owner == [p \in DOMAIN b.owner \ P |-> b.owner[p]]
            pending == b.pending (+)
                         SetToBag({[block |-> b.owner[p], kind |-> kind, pos |-> p] : p \in P})
            c == [b EXCEPT !.owner = owner, !.pending = pending]
<1>1. Reported(b, kind, P) = c
  BY Zenon DEF Reported
<1>. HIDE DEF owner, pending
<1>2. CopyOf(b, c)
  BY Zenon DEF CopyOf, ClientFields
<1>. QED
  BY <1>1, <1>2, Zenon

\* TaskSource.release_ready too.
LEMMA ReadyReleasedCopy ==
    ASSUME NEW b, DOMAIN b = ClientFields
    PROVE  CopyOf(b, ReadyReleased(b))
<1>. DEFINE R == {e[1] : e \in BagToSet(b.ready)}
            taken == [p \in DOMAIN b.owner \cup R |->
                        IF p \in R THEN (CHOOSE e \in BagToSet(b.ready) : e[1] = p)[2]
                                   ELSE b.owner[p]]
            a == [b EXCEPT !.ready = EmptyBag, !.owner = taken]
<1>1. ReadyReleased(b) = Reported(a, "release", R)
  BY Zenon DEF ReadyReleased
<1>. HIDE DEF R, taken
<1>2. CopyOf(b, a)
  BY Zenon DEF CopyOf, ClientFields
<1>. HIDE DEF a
<1>3. DOMAIN a = ClientFields
  BY <1>2, Zenon DEF CopyOf
<1>4. CopyOf(a, Reported(a, "release", R))
  BY <1>3, ReportedCopy, Zenon
<1>. QED
  BY <1>1, <1>2, <1>4, CopyTwice, Zenon

\* The calls of the rollout.
LEMMA RolloutStep ==
    ASSUME DispenseInv, NEW i \in Islands,
           Take(i) \/ ReportOne(i) \/ GiveUp(i) \/ CloseStart(i) \/ CloseRelease(i)
    PROVE  DispenseInv'
<1>. DEFINE b == client[i]
<1>0. DOMAIN b = ClientFields /\ DOMAIN client = Islands
  BY ProcessOf, Zenon
<1>1. PICK c : client' = [client EXCEPT ![i] = c] /\ CopyOf(b, c)
  <2>1. CASE Take(i)
    <3>. DEFINE ready(e) == b.ready (-) SetToBag({e})
                owner(e) == [p \in DOMAIN b.owner \cup {e[1]} |-> IF p = e[1] THEN e[2] ELSE b.owner[p]]
    <3>1. PICK e \in BagToSet(b.ready) :
            client' = [client EXCEPT ![i] = [b EXCEPT !.ready = ready(e), !.owner = owner(e)]]
      BY <2>1, Zenon DEF Take
    <3>. DEFINE x == ready(e)
                y == owner(e)
                c == [b EXCEPT !.ready = x, !.owner = y]
    <3>2. client' = [client EXCEPT ![i] = c]
      BY <3>1, Zenon
    <3>. HIDE DEF b, x, y
    <3>3. CopyOf(b, c)
      BY <1>0, Zenon DEF CopyOf, ClientFields
    <3>. HIDE DEF c
    <3>. QED
      BY <3>2, <3>3, Zenon
  <2>2. CASE ReportOne(i)
    <3>1. PICK p \in DOMAIN b.owner, kind \in Reports[i] :
            client' = [client EXCEPT ![i] = Reported(b, kind, {p})]
      BY <2>2, Zenon DEF ReportOne
    <3>. HIDE DEF b
    <3>2. CopyOf(b, Reported(b, kind, {p}))
      BY <1>0, ReportedCopy, Zenon
    <3>. QED
      BY <3>1, <3>2, Zenon
  <2>3. CASE GiveUp(i)
    <3>. DEFINE a == [b EXCEPT !.closing = "closing"]
                r == ReadyReleased(a)
    <3>1. PICK P \in SUBSET DOMAIN r.owner :
            client' = [client EXCEPT ![i] = Reported(r, "release", P)]
      BY <2>3, Zenon DEF GiveUp
    <3>. HIDE DEF b
    <3>2. CopyOf(b, a)
      BY <1>0, Zenon DEF CopyOf, ClientFields
    <3>. HIDE DEF a
    <3>3. CopyOf(a, r)
      BY <3>2, ReadyReleasedCopy, Zenon DEF CopyOf
    <3>. HIDE DEF r
    <3>4. DOMAIN r = ClientFields
      BY <3>3, Zenon DEF CopyOf
    <3>5. CopyOf(r, Reported(r, "release", P))
      BY <3>4, ReportedCopy, Zenon
    <3>. QED
      BY <3>1, <3>2, <3>3, <3>5, CopyTwice, Zenon
  <2>4. CASE CloseStart(i)
    <3>. DEFINE c == [b EXCEPT !.closing = "closing"]
    <3>1. client' = [client EXCEPT ![i] = c]
      BY <2>4, Zenon DEF CloseStart
    <3>. HIDE DEF b
    <3>2. CopyOf(b, c)
      BY <1>0, Zenon DEF CopyOf, ClientFields
    <3>. HIDE DEF c
    <3>. QED
      BY <3>1, <3>2, Zenon
  <2>5. CASE CloseRelease(i)
    <3>. DEFINE a == ReadyReleased(b)
                P == DOMAIN a.owner
                r == Reported(a, "release", P)
                c == [r EXCEPT !.closing = "released"]
    <3>1. client' = [client EXCEPT ![i] = c]
      BY <2>5, Zenon DEF CloseRelease
    <3>. HIDE DEF b
    <3>2. CopyOf(b, a)
      BY <1>0, ReadyReleasedCopy, Zenon
    <3>. HIDE DEF a, P
    <3>a. DOMAIN a = ClientFields
      BY <3>2, Zenon DEF CopyOf
    <3>3. CopyOf(a, r)
      BY <3>a, ReportedCopy, Zenon
    <3>. HIDE DEF r
    <3>4. CopyOf(r, c)
      <4>1. DOMAIN r = ClientFields
        BY <3>3, Zenon DEF CopyOf
      <4>. QED
        BY <4>1, Zenon DEF CopyOf, ClientFields
    <3>. HIDE DEF c
    <3>. QED
      BY <3>1, <3>2, <3>3, <3>4, CopyTwice, Zenon
  <2>. QED
    BY <2>1, <2>2, <2>3, <2>4, <2>5, Zenon
<1>2. UNCHANGED <<wire, reply, late, syncer>>
  <2>1. wire' = wire /\ reply' = reply /\ late' = late /\ syncer' = syncer
    BY Zenon DEF Take, ReportOne, GiveUp, CloseStart, CloseRelease
  <2>. QED
    BY <2>1, Zenon
<1>. QED
  BY <1>1, <1>2, CallStep, Zenon

\* A process that stops, or whose connection breaks.
LEMMA HangUpStep ==
    ASSUME DispenseInv, NEW i \in Islands, Stop(i) \/ Break(i)
    PROVE  DispenseInv'
<1>. DEFINE b == client[i]
            status == IF Running(i) THEN b.status ELSE "failed"
<1>0. DOMAIN b = ClientFields
  BY ProcessOf, Zenon
<1>1. PICK c : Disconnect(i, c) /\ CopyOf(b, c)
  <2>1. CASE Stop(i)
    <3>. DEFINE c == [b EXCEPT !.conn = "none", !.status = "stopped"]
    <3>1. Disconnect(i, c)
      BY <2>1, Zenon DEF Stop
    <3>. HIDE DEF b
    <3>2. CopyOf(b, c)
      BY <1>0, Zenon DEF CopyOf, ClientFields
    <3>. HIDE DEF c
    <3>. QED
      BY <3>1, <3>2, Zenon
  <2>2. CASE Break(i)
    <3>. DEFINE c == [b EXCEPT !.conn = "none", !.status = status]
    <3>1. Disconnect(i, c)
      BY <2>2, Zenon DEF Break
    <3>. HIDE DEF b, status
    <3>2. CopyOf(b, c)
      BY <1>0, Zenon DEF CopyOf, ClientFields
    <3>. HIDE DEF c
    <3>. QED
      BY <3>1, <3>2, Zenon
  <2>. QED
    BY <2>1, <2>2, Zenon
<1>2. ProcessOk(c) /\ EndedOk(c, i)
  BY <1>1, ProcessOf, CopyGood, Zenon
<1>. QED
  BY <1>1, <1>2, DisconnectStep, Zenon

\* A relaunched island starts with nothing.
LEMMA RelaunchStep ==
    ASSUME DispenseInv, NEW i \in Islands, Relaunch(i)
    PROVE  DispenseInv'
<1>. DEFINE n == client[i].inc + 1
            c == Process(n)
<1>1. Disconnect(i, c)
  BY Zenon DEF Relaunch
<1>2. n \in Incarnations
  BY NextProcess, Zenon DEF Relaunch
<1>. HIDE DEF n
<1>3. DOMAIN c = ClientFields /\ c.inc = n /\ c.inflight = Nothing /\ c.ended = 0
  BY ProcessIs, Zenon
<1>. HIDE DEF c
<1>4. ProcessOk(c)
  BY <1>2, <1>3, Zenon DEF ProcessOk
<1>5. EndedOk(c, i)
  <2>1. 0 \in Nat /\ 0 <= epoch /\ 0 # epoch
    BY DEF DispenseInv, ClientsInv
  <2>. QED
    BY <1>3, <2>1, Zenon DEF EndedOk
<1>. QED
  BY <1>1, <1>4, <1>5, DisconnectStep, Zenon

----------------------------------------------------------------------------
(* The theorems.                                                           *)

\* Every step keeps the invariant.
LEMMA StepDispense == DispenseInv /\ [Next]_vars => DispenseInv'
<1>. SUFFICES ASSUME DispenseInv, [Next]_vars
              PROVE  DispenseInv'
  BY Zenon
<1>1. ASSUME NEW i \in Islands, Serve(i) \/ JoinElsewhere(i)
      PROVE  DispenseInv'
  BY <1>1, ServeStep, JoinElsewhereStep, Zenon
<1>2. ASSUME NEW i \in Islands, Worker(i)
      PROVE  DispenseInv'
  BY <1>2, ConnectStep, SendStep, AnswerStep, EndsStep, ResetAfterFenceStep, Zenon DEF Worker
<1>3. ASSUME NEW i \in Islands, Rollout(i)
      PROVE  DispenseInv'
  BY <1>3, RolloutStep, HangUpStep, Zenon DEF Rollout
<1>4. ASSUME NEW i \in Islands, Break(i) \/ Relaunch(i)
      PROVE  DispenseInv'
  BY <1>4, HangUpStep, RelaunchStep, Zenon
<1>5. ASSUME NEW m \in late, ServeLate(m)
      PROVE  DispenseInv'
  BY <1>5, ServeLateStep, Zenon
<1>6. CASE Reap \/ Cut \/ SaveRecord \/ SaveCheckpoint \/ Crash
  BY <1>6, ReapStep, CutStep, SaveRecordStep, SaveCheckpointStep, CrashStep, Zenon
<1>7. CASE UNCHANGED vars
  <2>1. UNCHANGED <<d, client, wire, reply, late, epoch>> /\ d' = d /\ disk' = disk /\ saving' = saving
    BY <1>7, Zenon DEF vars
  <2>2. DiskInv' /\ SavingInv'
    BY <2>1, Zenon DEF DispenseInv, DiskInv, SavingInv
  <2>. QED
    BY <2>1, <2>2, FilesStep, Zenon
<1>. QED
  BY <1>1, <1>2, <1>3, <1>4, <1>5, <1>6, <1>7, Zenon DEF Next

\* The invariant holds in every reachable state.
LEMMA AlwaysDispense == Spec => []DispenseInv
BY InitDispense, StepDispense, PTL DEF Spec

(***************************************************************************)
(* Dispenser::check_invariants holds for any islands, streams and          *)
(* scenarios: every row given out is settled, queued or held by one live   *)
(* holder, exactly once, whatever expires, is resent, arrives late or is   *)
(* restored from a record.                                                 *)
(***************************************************************************)
THEOREM AlwaysAccounted == Spec => []Accounted
<1>1. ASSUME DispenseInv
      PROVE  Accounted
  <2>1. Balanced(d)
    BY <1>1, Zenon DEF DispenseInv, Good
  <2>2. Held = HeldIn(d) /\ Given = GivenTo(d.next)
    BY Zenon DEF Held, HeldIn, Pos, Given, GivenTo
  <2>3. DOMAIN d.queue \subseteq GivenTo(d.next) /\ HeldIn(d) \subseteq GivenTo(d.next) \ DOMAIN d.queue
    BY <2>1, Zenon DEF Balanced, QueueOk
  <2>4. Held \cap Queued = {} /\ Held \cup Queued \subseteq Given
    <3>. DEFINE H == HeldIn(d)
                G == GivenTo(d.next)
                Q == DOMAIN d.queue
    <3>1. Held = H /\ Given = G /\ Queued = Q
      BY <2>2, Zenon DEF Queued
    <3>2. Q \subseteq G /\ H \subseteq G \ Q
      BY <2>3, Zenon
    <3>. HIDE DEF H, G, Q
    <3>. QED
      BY <3>1, <3>2, Zenon
  <2>5. d.settled + Cardinality(Held) + Cardinality(Queued) = Cardinality(Given)
    BY <2>1, <2>2, Zenon DEF Balanced, Queued
  <2>6. \A s \in Streams : LET Q == {p \in Queued : p[1] = s}
                           IN  {d.queue[p] : p \in Q} = 1 .. Cardinality(Q)
    BY <2>1, Zenon DEF Balanced, QueueOk, Dense, Filled, Of, Queued
  <2>. QED
    BY <2>1, <2>4, <2>5, <2>6, Zenon DEF Balanced, Accounted
<1>. QED
  BY <1>1, AlwaysDispense, PTL

(***************************************************************************)
(* No row's report as trained is accepted twice in the history of the      *)
(* model, restarts from a saved record included, and a trained row is      *)
(* never given out again.                                                  *)
(***************************************************************************)
THEOREM AlwaysTrainedOnce == Spec => []TrainedOnce
<1>1. ASSUME DispenseInv
      PROVE  TrainedOnce
  BY <1>1, Zenon DEF DispenseInv, Good, Learned, SettledRows, TrainedOnce, Held, HeldIn, Pos, Given,
                     GivenTo, Queued
<1>. QED
  BY <1>1, AlwaysDispense, PTL

(***************************************************************************)
(* No holder keeps rows out of the member table's sight.                   *)
(***************************************************************************)
THEOREM AlwaysTracked == Spec => []LiveIsTracked
<1>1. ASSUME DispenseInv
      PROVE  LiveIsTracked
  BY <1>1, Zenon DEF DispenseInv, Good, Tracked, LiveIsTracked
<1>. QED
  BY <1>1, AlwaysDispense, PTL

(***************************************************************************)
(* An END is never taken back while the syncer that said it runs: every    *)
(* row of the island's streams is settled and stays so.                    *)
(***************************************************************************)
THEOREM EndsAlwaysTrue == Spec => []EndMeansDone
<1>1. ASSUME DispenseInv
      PROVE  EndMeansDone
  <2>. SUFFICES ASSUME NEW i \in Islands, client[i].ended = epoch
                PROVE  \A p \in Position : p[1] \in Accept[i] => p \in Given \ (Held \cup Queued)
    BY Zenon DEF EndMeansDone
  <2>1. DoneFor(d, i)
    BY <1>1, ProcessOf, Zenon DEF EndedOk
  <2>2. Held = HeldIn(d) /\ Given = GivenTo(d.next) /\ Queued = DOMAIN d.queue
    BY Zenon DEF Held, HeldIn, Pos, Given, GivenTo, Queued
  <2>. QED
    BY <2>1, <2>2, Zenon DEF DoneFor, SettledOf
<1>. QED
  BY <1>1, AlwaysDispense, PTL

=============================================================================
