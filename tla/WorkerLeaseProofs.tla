------------------------- MODULE WorkerLeaseProofs -------------------------
(***************************************************************************)
(* Theorems about the worker-role lease, for any number of processes, any  *)
(* lease and heartbeat length, with crashes, database errors and statements *)
(* of dead processes arriving at any time.                                  *)
(***************************************************************************)
EXTENDS WorkerLease, TLAPS

\* The invariant of one process, of the row and of a statement under way.
ProcOK(p, now) ==
    /\ p \in Process
    /\ HasLease(p.act) => Dated(p.act, now)
    /\ p.call = NoCall \/ Sound(p.call, now)
    /\ p.main = "starting" =>
         /\ p.since <= now /\ p.seen # NoRow /\ p.call = NoCall
         /\ HasLease(p.seen) => Dated(p.seen, p.since)
    /\ p.main \in {"starting", "adopting"} =>
         p.lock = "free" /\ p.beater = "none" /\ p.handler = "none"
    /\ p.main = "adopting" => p.call # NoCall /\ p.call.op = "drain"
    /\ p.main = "guard" => p.call = NoCall /\ p.lock = "main"
    /\ p.lock = "free" /\ p.main # "adopting" => p.call = NoCall
    /\ p.call # NoCall /\ p.call.op = "release" => p.lock = "main"

RowOK(r, now) == r \in RowRecord /\ (HasLease(r) => Dated(r, now))

CallOK(c, now) == c \in Call /\ Sound(c, now)

\* The types and TokensDated, part by part.
LInv ==
    /\ clock \in Nat
    /\ RowOK(row, clock)
    /\ \A c \in orphans : CallOK(c, clock)
    /\ proc = [e \in Executors |-> proc[e]]
    /\ \A e \in Executors : ProcOK(proc[e], clock)

\* The parts together are the types and TokensDated.
LEMMA Parts == LInv => LeaseTypeOK /\ TokensDated
<1>. SUFFICES ASSUME LInv PROVE LeaseTypeOK /\ TokensDated
  OBVIOUS
<1>1. proc \in [Executors -> Process]
  BY DEF LInv, ProcOK
<1>. QED
  BY <1>1 DEF LInv, ProcOK, RowOK, CallOK, LeaseTypeOK, TokensDated

\* A process that is down has nothing to keep.
LEMMA DownOK == \A now \in Nat : ProcOK(Down, now)
  BY DEF Down, ProcOK, Process, HasLease

\* A released row has no lease.
LEMMA StandbyOK == \A epoch \in Nat, now \in Nat : RowOK(StandbyRow(epoch), now)
  BY DEF StandbyRow, RowOK, RowRecord, HasLease

\* What a heartbeat writes.
LEMMA RenewedRow ==
    ASSUME NEW r \in RowRecord, NEW t \in Nat
    PROVE  /\ Renewed(r, t) \in RowRecord
           /\ Renewed(r, t).state = r.state /\ Renewed(r, t).owner = r.owner
           /\ Renewed(r, t).epoch = r.epoch
           /\ Renewed(r, t).beat = t /\ Renewed(r, t).expiry = t + RoleLeaseSeconds
<1>1. t + RoleLeaseSeconds \in Nat
  BY LeaseAssumption
<1>. QED
  BY <1>1 DEF Renewed, RowRecord

\* What a compare-and-set writes, and that the row is well dated afterwards.
LEMMA WrittenOK ==
    ASSUME NEW now \in Nat, NEW c, CallOK(c, now)
    PROVE  /\ RowOK(Written(c), now)
           /\ Written(c).epoch = c.act.epoch
           /\ c.op # "release" => Dated(Written(c), now) /\ Written(c).owner = c.act.owner
           /\ c.op = "release" => Written(c).owner = NoExecutor
<1>0. /\ c \in Call /\ c.act \in RowRecord /\ c.now \in Nat
      /\ RoleLeaseSeconds \in Nat
  BY LeaseAssumption DEF CallOK, Call
<1>00. /\ Dated(c.act, c.now) /\ c.now <= now
       /\ c.act.beat \in Nat /\ c.act.expiry \in Nat /\ c.act.epoch \in Nat
  BY <1>0 DEF CallOK, Sound, RowRecord
<1>1. CASE c.op = "heartbeat"
  <2>1. Written(c) = Renewed(c.act, c.now)
    BY <1>1 DEF Written
  <2>2. /\ Written(c) \in RowRecord
        /\ Written(c).state = c.act.state /\ Written(c).owner = c.act.owner
        /\ Written(c).epoch = c.act.epoch
        /\ Written(c).beat = c.now /\ Written(c).expiry = c.now + RoleLeaseSeconds
    <3>. DEFINE r == c.act
                t == c.now
    <3>1. r \in RowRecord /\ t \in Nat
      BY <1>0
    <3>. HIDE DEF r, t
    <3>2. /\ Renewed(r, t) \in RowRecord
          /\ Renewed(r, t).state = r.state /\ Renewed(r, t).owner = r.owner
      BY <3>1, RenewedRow
    <3>3. /\ Renewed(r, t).epoch = r.epoch
          /\ Renewed(r, t).beat = t /\ Renewed(r, t).expiry = t + RoleLeaseSeconds
      BY <3>1, RenewedRow
    <3>. QED
      BY <2>1, <3>2, <3>3 DEF r, t
  <2>. QED
    BY <1>0, <1>00, <1>1, <2>2 DEF RowOK, Dated
<1>2. CASE c.op \in {"drain", "resume"}
  <2>1. PICK s \in {"draining", "active"} : Written(c) = [c.act EXCEPT !.state = s]
    BY <1>2 DEF Written
  <2>2. /\ Written(c) \in RowRecord
        /\ Written(c).state = s /\ Written(c).owner = c.act.owner
        /\ Written(c).epoch = c.act.epoch
        /\ Written(c).beat = c.act.beat /\ Written(c).expiry = c.act.expiry
    BY <1>0, <2>1 DEF RowRecord
  <2>. QED
    BY <1>0, <1>00, <1>2, <2>2 DEF RowOK, Dated
<1>4. CASE c.op = "release"
  <2>1. Written(c) = StandbyRow(c.act.epoch)
    BY <1>4 DEF Written
  <2>. QED
    BY <1>00, <1>4, <2>1, StandbyOK DEF StandbyRow
<1>. QED
  BY <1>0, <1>1, <1>2, <1>4 DEF Call

\* A statement that is executed, or lost, leaves a well dated row.
LEMMA ExecuteOK ==
    ASSUME LInv, NEW c, CallOK(c, clock), Execute(c) \/ UNCHANGED row
    PROVE  RowOK(row', clock)
  BY WrittenOK DEF LInv, Execute

\* A step of one process.
LEMMA StepOK ==
    ASSUME LInv, NEW e \in Executors, NEW q, ProcOK(q, clock),
           proc' = [proc EXCEPT ![e] = q], RowOK(row', clock), UNCHANGED <<clock, orphans>>
    PROVE  LInv'
<1>1. \A f \in Executors : proc'[f] = IF f = e THEN q ELSE proc[f]
  BY DEF LInv
<1>2. proc' = [f \in Executors |-> proc'[f]]
  BY DEF LInv
<1>. QED
  BY <1>1, <1>2 DEF LInv

\* The controller after start() has its activation.
LEMMA StartedOK ==
    ASSUME LInv, NEW p, ProcOK(p, clock), p.call = NoCall,
           NEW r \in RowRecord, HasLease(r) => Dated(r, clock)
    PROVE  ProcOK(Started(p, r), clock)
<1>1. clock + RoleBeatSeconds \in Nat
  BY LeaseAssumption DEF LInv
<1>2. p \in Process
  BY DEF ProcOK
<1>3. Started(p, r) \in Process
  BY <1>1, <1>2 DEF Started, Process
<1>. QED
  <2>1. /\ Started(p, r).act = r /\ Started(p, r).call = NoCall
        /\ Started(p, r).main = "loop"
    BY <1>2 DEF Started, Process
  <2>. QED
    BY <1>3, <2>1 DEF ProcOK
-----------------------------------------------------------------------------
(* The actions keep the invariant.                                         *)

\* A change of the fields of a process that the invariant does not speak of.
LEMMA FieldsOK ==
    ASSUME LInv, NEW e \in Executors, NEW q \in Process,
           q.act = proc[e].act \/ q.act = NoRow,
           \/ q.call = NoCall /\ q.main # "guard"
           \/ q.call = proc[e].call /\ q.main = proc[e].main /\ q.lock = proc[e].lock,
           q.main \notin {"starting", "adopting"}
    PROVE  ProcOK(q, clock)
  BY DEF LInv, ProcOK, HasLease

\* What returning from a handler leaves alone.
LEMMA ReturnedFields ==
    ASSUME NEW p \in Process
    PROVE  /\ Returned(p) \in Process
           /\ Returned(p).act = p.act /\ Returned(p).call = p.call
           /\ Returned(p).main = p.main /\ Returned(p).lock = p.lock
           /\ Returned(p).seen = p.seen
<1>1. (p.stop \/ p.handler = "stop") \in BOOLEAN
  OBVIOUS
<1>. QED
  BY <1>1 DEF Returned, Process

\* The controller after the answer to its statement.
LEMMA AnsweredOK ==
    ASSUME LInv, NEW p \in Process, p.lock \in {"beater", "handler", "main"},
           p.main \notin {"starting", "adopting", "guard"},
           NEW r \in RowRecord \cup {NoRow}, HasLease(r) => p.lock = "main" \/ Dated(r, clock)
    PROVE  ProcOK(Answered(p, r), clock)
<1>. DEFINE q == [p EXCEPT !.lock = "free", !.call = NoCall, !.act = r, !.lost = (r = NoRow)]
            b == IF r = NoRow THEN "ended" ELSE "waiting"
            x == [q EXCEPT !.beater = b, !.wake = clock + RoleBeatSeconds]
            z == IF r = NoRow THEN Returned(q).configured ELSE r.state
            y == [Returned(q) EXCEPT !.configured = z]
<1>1. /\ (r = NoRow) \in BOOLEAN /\ clock + RoleBeatSeconds \in Nat
  BY LeaseAssumption DEF LInv
<1>2. q \in Process /\ q.act = r /\ q.call = NoCall /\ q.main = p.main /\ q.lock = "free"
  BY <1>1 DEF Process
<1>3. CASE p.lock = "beater"
  <2>. HIDE DEF q
  <2>1. b \in {"waiting", "ended"}
    OBVIOUS
  <2>. HIDE DEF b
  <2>2. x \in Process /\ x.act = r /\ x.call = NoCall /\ x.main = p.main
    BY <1>1, <1>2, <2>1 DEF Process
  <2>3. ProcOK(x, clock)
    BY <1>1, <1>3, <2>2 DEF ProcOK
  <2>4. Answered(p, r) = x
    BY <1>3 DEF Answered, q, b
  <2>. QED
    BY <2>3, <2>4
<1>4. CASE p.lock = "handler"
  <2>. HIDE DEF q
  <2>. DEFINE v == Returned(q)
  <2>1. /\ v \in Process /\ v.act = r /\ v.call = NoCall /\ v.main = p.main
        /\ v.lock = "free"
    BY <1>2, ReturnedFields
  <2>2. z \in {"active", "standby", "draining"}
    BY <2>1 DEF Process, RowRecord
  <2>. HIDE DEF v, z
  <2>3. /\ [v EXCEPT !.configured = z] \in Process
        /\ [v EXCEPT !.configured = z].act = r
        /\ [v EXCEPT !.configured = z].call = NoCall
        /\ [v EXCEPT !.configured = z].main = p.main
    BY <2>1, <2>2 DEF Process
  <2>4. ProcOK([v EXCEPT !.configured = z], clock)
    BY <1>1, <1>4, <2>3 DEF ProcOK
  <2>5. Answered(p, r) = [v EXCEPT !.configured = z]
    BY <1>4 DEF Answered, q, v, z
  <2>. QED
    BY <2>4, <2>5
<1>5. CASE p.lock = "main"
  <2>1. Answered(p, r) = Down
    BY <1>5 DEF Answered
  <2>. QED
    BY <2>1, DownOK DEF LInv
<1>. QED
  BY <1>3, <1>4, <1>5

\* A thread takes the lock and sends a statement about the activation it holds,
\* or is refused.
LEMMA SendOK ==
    ASSUME LInv, NEW e \in Executors, NEW thread \in {"main", "handler", "beater"},
           NEW op \in {"heartbeat", "drain", "resume", "release"},
           proc[e].act # NoRow, proc[e].main \notin {"starting", "adopting"},
           proc[e].lock = "free", op = "release" => thread = "main",
           op = "drain" => proc[e].act.state # "draining",
           op = "resume" => proc[e].act.state # "active",
           Send(e, thread, op), UNCHANGED <<clock, row, orphans>>
    PROVE  LInv'
<1>. DEFINE c == [op |-> op, act |-> proc[e].act, now |-> clock]
            p == [proc[e] EXCEPT !.lock = thread]
            q == [p EXCEPT !.call = c]
<1>1. /\ proc[e] \in Process /\ proc[e].act \in RowRecord /\ proc[e].main # "guard"
      /\ HasLease(proc[e].act) => Dated(proc[e].act, clock)
  BY DEF LInv, ProcOK, Process
<1>2. /\ p \in Process /\ p.act = proc[e].act /\ p.main = proc[e].main /\ p.lock = thread
  BY <1>1 DEF Process
<1>3. RowOK(row', clock)
  BY DEF LInv
<1>4. CASE HasLease(proc[e].act)
  <2>1. c \in Call /\ Sound(c, clock)
    BY <1>1, <1>4 DEF Call, Sound, LInv, RowRecord, HasLease
  <2>2. proc' = [proc EXCEPT ![e] = q]
    BY <1>2, <1>4 DEF Send, LInv
  <2>3. c.op = op
    OBVIOUS
  <2>. HIDE DEF c, p
  <2>4. /\ q \in Process /\ q.act = proc[e].act /\ q.call = c /\ q.main = proc[e].main
        /\ q.lock = thread
    BY <1>2, <2>1 DEF Process
  <2>5. ProcOK(q, clock)
    BY <1>1, <1>4, <2>1, <2>3, <2>4 DEF ProcOK
  <2>. QED
    BY <1>3, <2>2, <2>5, StepOK
<1>5. CASE ~HasLease(proc[e].act)
  <2>1. proc' = [proc EXCEPT ![e] = Answered(p, NoRow)]
    BY <1>2, <1>5 DEF Send, LInv
  <2>2. ~HasLease(NoRow)
    BY DEF HasLease
  <2>. HIDE DEF p
  <2>3. ProcOK(Answered(p, NoRow), clock)
    BY <1>1, <1>2, <2>2, AnsweredOK
  <2>. QED
    BY <1>3, <2>1, <2>3, StepOK
<1>. QED
  BY <1>4, <1>5

\* start() reads the row with its own clock reading.
LEMMA StartReadOK ==
    ASSUME LInv, NEW e \in Executors, NEW s \in Configured, StartRead(e, s)
    PROVE  LInv'
<1>. DEFINE q == [Down EXCEPT !.main = IF s = "standby" THEN "loop" ELSE "starting",
                              !.loops = (s = "active"), !.configured = s, !.seen = row,
                              !.since = clock]
<1>1. row \in RowRecord /\ clock \in Nat /\ s \in {"active", "standby", "draining"}
  BY LeaseAssumption DEF LInv, RowOK
<1>2. /\ q \in Process /\ q.act = NoRow /\ q.call = NoCall
      /\ q.seen = row /\ q.since = clock
      /\ q.lock = "free" /\ q.beater = "none" /\ q.handler = "none" /\ q.main # "adopting"
  BY <1>1 DEF Down, Process
<1>3. ProcOK(q, clock)
  BY <1>1, <1>2, LeaseAssumption DEF ProcOK, LInv, RowOK, HasLease
<1>. QED
  BY <1>3, StepOK DEF StartRead, LInv

\* start() of a process configured as active.
LEMMA StartActiveOK ==
    ASSUME LInv, NEW e \in Executors, StartActive(e)
    PROVE  LInv'
<1>1. CASE MayActivate(e)
  <2>. DEFINE r == ActiveRow(e, proc[e].since)
  <2>1. /\ proc[e].since \in Nat /\ proc[e].since <= clock /\ row.epoch \in Nat
        /\ RoleLeaseSeconds \in Nat /\ proc[e].call = NoCall /\ ProcOK(proc[e], clock)
    BY LeaseAssumption DEF StartActive, LInv, ProcOK, Process, RowOK, RowRecord
  <2>2. r \in RowRecord /\ Dated(r, clock)
    BY <2>1 DEF ActiveRow, RowRecord, Dated
  <2>. HIDE DEF r
  <2>3. ProcOK(Started(proc[e], r), clock)
    BY <2>1, <2>2, StartedOK
  <2>4. row' = r /\ proc' = [proc EXCEPT ![e] = Started(proc[e], r)] /\ UNCHANGED <<clock, orphans>>
    BY <1>1 DEF StartActive, LInv, r
  <2>. QED
    BY <2>2, <2>3, <2>4, StepOK DEF RowOK
<1>2. CASE ~MayActivate(e)
  BY <1>2, DownOK, StepOK DEF StartActive, LInv
<1>. QED
  BY <1>1, <1>2

\* start() of a process configured as draining.
LEMMA StartDrainingOK ==
    ASSUME LInv, NEW e \in Executors, StartDraining(e)
    PROVE  LInv'
<1>. DEFINE seen == proc[e].seen
            c == [op |-> "drain", act |-> seen, now |-> proc[e].since]
            q == [proc[e] EXCEPT !.main = "adopting", !.call = c]
<1>1. /\ proc[e] \in Process /\ proc[e].main = "starting"
      /\ seen \in RowRecord /\ proc[e].since \in Nat /\ proc[e].since <= clock
      /\ HasLease(seen) => Dated(seen, proc[e].since)
      /\ proc[e].call = NoCall /\ clock \in Nat
  BY DEF StartDraining, LInv, ProcOK, Process
<1>. DEFINE refused == HasLease(seen) /\ ~(seen.owner = e /\ IsLive(seen, proc[e].since))
<1>2. CASE refused
  <2>1. proc' = [proc EXCEPT ![e] = Down]
    BY <1>2 DEF StartDraining
  <2>. QED
    BY <2>1, DownOK, StepOK DEF StartDraining, LInv
<1>3. CASE ~refused /\ seen.state # "active"
  <2>1. HasLease(seen) => Dated(seen, clock)
    BY <1>1 DEF Dated, RowRecord
  <2>2. proc' = [proc EXCEPT ![e] = Started(proc[e], seen)]
    BY <1>3 DEF StartDraining, LInv
  <2>. QED
    BY <1>1, <2>1, <2>2, StartedOK, StepOK DEF StartDraining, LInv
<1>4. CASE ~refused /\ seen.state = "active"
  <2>1. seen.state = "active" /\ Dated(seen, proc[e].since)
    BY <1>1, <1>4, LeaseAssumption DEF HasLease
  <2>2. c \in Call /\ Sound(c, clock)
    BY <1>1, <2>1 DEF Call, Sound
  <2>3. proc' = [proc EXCEPT ![e] = q]
    BY <1>4 DEF StartDraining, LInv
  <2>. HIDE DEF c
  <2>4. /\ q \in Process /\ q.act = proc[e].act /\ q.call = c /\ q.main = "adopting"
        /\ q.lock = proc[e].lock /\ q.beater = proc[e].beater /\ q.handler = proc[e].handler
    BY <1>1, <2>2 DEF Process
  <2>5. c.op = "drain"
    BY DEF c
  <2>6. ProcOK(q, clock)
    BY <1>1, <2>2, <2>4, <2>5, LeaseAssumption DEF ProcOK, LInv
  <2>. QED
    BY <2>3, <2>6, StepOK DEF StartDraining, LInv
<1>. QED
  BY <1>2, <1>3, <1>4

\* The statement of a process is sound.
LEMMA CallIsOK ==
    ASSUME LInv, NEW e \in Executors, proc[e].call # NoCall
    PROVE  CallOK(proc[e].call, clock)
  BY DEF LInv, ProcOK, Process, CallOK

\* The drain that start() sends.
LEMMA AdoptedOK ==
    ASSUME LInv, NEW e \in Executors, Adopted(e)
    PROVE  LInv'
<1>. DEFINE c == proc[e].call
            p == [proc[e] EXCEPT !.call = NoCall]
<1>1. proc[e] \in Process /\ c # NoCall /\ c.op = "drain" /\ proc[e].main = "adopting"
  BY DEF Adopted, LInv, ProcOK
<1>2. CallOK(c, clock)
  BY <1>1, CallIsOK
<1>3. RowOK(row', clock)
  BY <1>2, ExecuteOK DEF Adopted
<1>4. Written(c) \in RowRecord /\ Dated(Written(c), clock)
  BY <1>1, <1>2, WrittenOK DEF RowOK, LInv
<1>5. /\ p \in Process /\ p.act = proc[e].act /\ p.call = NoCall /\ p.main = "adopting"
      /\ p.lock = proc[e].lock
  BY <1>1 DEF Process
<1>6. CASE Matches(c)
  <2>. DEFINE q == Started(p, Written(c))
  <2>1. /\ q \in Process /\ q.act = Written(c) /\ q.call = NoCall /\ q.main = "loop"
    <3>1. clock + RoleBeatSeconds \in Nat
      BY LeaseAssumption DEF LInv
    <3>. HIDE DEF p, c
    <3>. QED
      BY <1>4, <1>5, <3>1 DEF Started, Process
  <2>2. ProcOK(q, clock)
    BY <1>4, <2>1 DEF ProcOK
  <2>3. proc' = [proc EXCEPT ![e] = q]
    BY <1>6 DEF Adopted, LInv
  <2>. QED
    BY <1>3, <2>2, <2>3, StepOK DEF Adopted
<1>7. CASE ~Matches(c)
  BY <1>3, <1>7, DownOK, StepOK DEF Adopted, LInv
<1>. QED
  BY <1>6, <1>7

\* The heartbeat thread wakes.
LEMMA BeatOK ==
    ASSUME LInv, NEW e \in Executors, Beat(e)
    PROVE  LInv'
<1>1. /\ proc[e] \in Process /\ proc[e].main \notin {"starting", "adopting"}
      /\ UNCHANGED <<clock, row, orphans>> /\ RowOK(row', clock)
  BY DEF Beat, LInv, ProcOK
<1>2. CASE Holds(e)
  <2>1. Send(e, "beater", "heartbeat") /\ proc[e].act # NoRow /\ proc[e].lock = "free"
    BY <1>2 DEF Beat, Holds
  <2>. QED
    BY <1>1, <2>1, SendOK
<1>3. CASE ~Holds(e)
  <2>. DEFINE q == [proc[e] EXCEPT !.beater = "ended"]
  <2>1. /\ q \in Process /\ q.act = proc[e].act /\ q.call = proc[e].call
        /\ q.main = proc[e].main /\ q.lock = proc[e].lock
    BY <1>1 DEF Process
  <2>2. proc' = [proc EXCEPT ![e] = q]
    BY <1>3 DEF Beat, LInv
  <2>3. ProcOK(q, clock)
    BY <1>1, <2>1, FieldsOK
  <2>. QED
    BY <1>1, <2>2, <2>3, StepOK
<1>. QED
  BY <1>2, <1>3

\* A signal arrives.
LEMMA SignalOK ==
    ASSUME LInv, NEW e \in Executors, NEW s \in {"drain", "resume", "stop"}, Signal(e, s)
    PROVE  LInv'
<1>. DEFINE q == [proc[e] EXCEPT !.handler = s]
<1>1. /\ proc[e] \in Process /\ proc[e].main \notin {"starting", "adopting"}
      /\ UNCHANGED <<clock, row, orphans>> /\ RowOK(row', clock)
  BY DEF Signal, LInv, ProcOK
<1>2. /\ q \in Process /\ q.act = proc[e].act /\ q.call = proc[e].call
      /\ q.main = proc[e].main /\ q.lock = proc[e].lock
  BY <1>1 DEF Process
<1>3. proc' = [proc EXCEPT ![e] = q]
  BY DEF Signal, LInv
<1>4. ProcOK(q, clock)
  BY <1>1, <1>2, FieldsOK
<1>. QED
  BY <1>1, <1>3, <1>4, StepOK

\* A handler takes the lock, or has nothing to do.
LEMMA HandleOK ==
    ASSUME LInv, NEW e \in Executors, Handle(e)
    PROVE  LInv'
<1>1. /\ proc[e] \in Process /\ proc[e].main \notin {"starting", "adopting"}
      /\ UNCHANGED <<clock, row, orphans>> /\ RowOK(row', clock)
  BY DEF Handle, LInv, ProcOK
<1>. DEFINE target == Target(proc[e].handler)
            op == IF target = "active" THEN "resume" ELSE "drain"
            z == IF Holds(e) /\ target = "active" THEN "active" ELSE proc[e].configured
            q == [Returned(proc[e]) EXCEPT !.configured = z]
<1>2. CASE Holds(e) /\ proc[e].act.state # target
  <2>1. Send(e, "handler", op) /\ proc[e].act # NoRow /\ proc[e].lock = "free"
    BY <1>2 DEF Handle, Holds
  <2>2. /\ op \in {"drain", "resume"}
        /\ op = "drain" => proc[e].act.state # "draining"
        /\ op = "resume" => proc[e].act.state # "active"
    BY <1>2 DEF Target
  <2>. HIDE DEF op
  <2>. QED
    BY <1>1, <2>1, <2>2, SendOK
<1>3. CASE ~(Holds(e) /\ proc[e].act.state # target)
  <2>1. proc' = [proc EXCEPT ![e] = q]
    BY <1>3 DEF Handle, LInv
  <2>2. z \in {"active", "standby", "draining"}
    BY <1>1 DEF Process
  <2>. HIDE DEF z
  <2>3. /\ q \in Process /\ q.act = proc[e].act /\ q.call = proc[e].call
        /\ q.main = proc[e].main /\ q.lock = proc[e].lock
    <3>. DEFINE v == Returned(proc[e])
    <3>1. /\ v \in Process /\ v.act = proc[e].act /\ v.call = proc[e].call
          /\ v.main = proc[e].main /\ v.lock = proc[e].lock
      BY <1>1, ReturnedFields
    <3>. HIDE DEF v
    <3>2. /\ [v EXCEPT !.configured = z] \in Process
          /\ [v EXCEPT !.configured = z].act = v.act /\ [v EXCEPT !.configured = z].call = v.call
          /\ [v EXCEPT !.configured = z].main = v.main /\ [v EXCEPT !.configured = z].lock = v.lock
      BY <2>2, <3>1 DEF Process
    <3>. QED
      BY <3>1, <3>2 DEF v
  <2>4. ProcOK(q, clock)
    BY <1>1, <2>3, FieldsOK
  <2>. QED
    BY <1>1, <2>1, <2>4, StepOK
<1>. QED
  BY <1>2, <1>3

\* The answer to a statement.
LEMMA AnswerOK ==
    ASSUME LInv, NEW e \in Executors, Answer(e)
    PROVE  LInv'
<1>. DEFINE c == proc[e].call
            r == IF Matches(c) THEN Written(c) ELSE NoRow
<1>1. /\ proc[e] \in Process /\ c # NoCall /\ proc[e].lock \in {"beater", "handler", "main"}
      /\ proc[e].main \notin {"starting", "adopting", "guard"}
      /\ c.op = "release" => proc[e].lock = "main"
  BY DEF Answer, LInv, ProcOK, Process
<1>2. CallOK(c, clock)
  BY <1>1, CallIsOK
<1>3. RowOK(row', clock)
  BY <1>2, ExecuteOK DEF Answer
<1>4. /\ r \in RowRecord \cup {NoRow}
      /\ HasLease(r) => proc[e].lock = "main" \/ Dated(r, clock)
  BY <1>1, <1>2, WrittenOK DEF RowOK, LInv, HasLease
<1>5. proc' = [proc EXCEPT ![e] = Answered(proc[e], r)]
  BY DEF Answer, LInv
<1>. HIDE DEF r
<1>6. ProcOK(Answered(proc[e], r), clock)
  BY <1>1, <1>4, AnsweredOK
<1>. QED
  BY <1>3, <1>5, <1>6, StepOK DEF Answer

\* A statement fails.
LEMMA StatementErrsOK ==
    ASSUME LInv, NEW e \in Executors, StatementErrs(e)
    PROVE  LInv'
<1>. DEFINE p == [proc[e] EXCEPT !.lock = "free", !.call = NoCall]
            z == IF proc[e].handler = "stop" THEN "closing" ELSE p.main
<1>1. /\ proc[e] \in Process /\ proc[e].call # NoCall
      /\ proc[e].lock # "free" => proc[e].main \notin {"starting", "adopting"}
      /\ proc[e].main # "guard"
  BY DEF StatementErrs, LInv, ProcOK
<1>2. RowOK(row', clock) /\ UNCHANGED <<clock, orphans>>
  BY <1>1, CallIsOK, ExecuteOK DEF StatementErrs
<1>3. p \in Process /\ p.act = proc[e].act /\ p.call = NoCall /\ p.main = proc[e].main
  BY <1>1 DEF Process
<1>4. CASE proc[e].lock = "beater"
  <2>. DEFINE q == [p EXCEPT !.beater = "ended"]
  <2>1. proc' = [proc EXCEPT ![e] = q]
    BY <1>4 DEF StatementErrs, LInv
  <2>. HIDE DEF p
  <2>2. q \in Process /\ q.act = proc[e].act /\ q.call = NoCall /\ q.main = proc[e].main
    BY <1>3 DEF Process
  <2>3. ProcOK(q, clock)
    BY <1>1, <1>4, <2>2, FieldsOK
  <2>. QED
    BY <1>2, <2>1, <2>3, StepOK
<1>5. CASE proc[e].lock = "handler"
  <2>. DEFINE q == [p EXCEPT !.handler = "none", !.main = z]
  <2>1. proc' = [proc EXCEPT ![e] = q]
    BY <1>5 DEF StatementErrs, LInv
  <2>2. z \in {"closing", proc[e].main}
    BY <1>3
  <2>. HIDE DEF p, z
  <2>3. q \in Process /\ q.act = proc[e].act /\ q.call = NoCall /\ q.main = z
    BY <1>1, <1>3, <2>2 DEF Process
  <2>4. ProcOK(q, clock)
    BY <1>1, <1>5, <2>2, <2>3, FieldsOK
  <2>. QED
    BY <1>2, <2>1, <2>4, StepOK
<1>6. CASE proc[e].lock \notin {"beater", "handler"}
  <2>1. proc' = [proc EXCEPT ![e] = Down]
    BY <1>6 DEF StatementErrs, LInv
  <2>. QED
    BY <1>2, <2>1, DownOK, StepOK DEF LInv
<1>. QED
  BY <1>4, <1>5, <1>6

\* The main thread moves between its steps.
LEMMA MainOK ==
    ASSUME LInv, NEW e \in Executors, Guard(e) \/ Guarded(e) \/ Close(e)
    PROVE  LInv'
<1>1. /\ proc[e] \in Process /\ UNCHANGED <<clock, row, orphans>> /\ RowOK(row', clock)
      /\ proc[e].main \in {"loop", "guard"}
  BY DEF Guard, Guarded, Close, OnMain, LInv, ProcOK
<1>2. ASSUME NEW step \in {"guard", "loop", "closing"}, NEW lock \in {"main", "free", "handler", "beater"},
             step = "guard" => lock = "main" /\ proc[e].call = NoCall,
             lock = proc[e].lock \/ proc[e].call = NoCall,
             proc' = [proc EXCEPT ![e] = [proc[e] EXCEPT !.main = step, !.lock = lock]]
      PROVE  LInv'
  <2>. DEFINE q == [proc[e] EXCEPT !.main = step, !.lock = lock]
  <2>1. /\ q \in Process /\ q.act = proc[e].act /\ q.call = proc[e].call
        /\ q.main = step /\ q.lock = lock
    BY <1>1 DEF Process
  <2>2. ProcOK(q, clock)
    BY <1>1, <1>2, <2>1 DEF ProcOK, LInv
  <2>. QED
    BY <1>1, <1>2, <2>2, StepOK
<1>3. CASE Guard(e)
  <2>1. proc' = [proc EXCEPT ![e] = [proc[e] EXCEPT !.main = "guard", !.lock = "main"]]
    BY <1>3 DEF Guard, LInv
  <2>2. proc[e].call = NoCall
    BY <1>3 DEF Guard, OnMain, LInv, ProcOK
  <2>. QED
    BY <1>2, <2>1, <2>2
<1>4. CASE Guarded(e)
  <2>1. proc' = [proc EXCEPT ![e] = [proc[e] EXCEPT !.main = "loop", !.lock = "free"]]
    BY <1>4 DEF Guarded, LInv
  <2>2. proc[e].call = NoCall
    BY <1>4 DEF Guarded, OnMain, LInv, ProcOK
  <2>. QED
    BY <1>2, <2>1, <2>2
<1>5. CASE Close(e)
  <2>. DEFINE q == [proc[e] EXCEPT !.main = "closing"]
  <2>1. proc' = [proc EXCEPT ![e] = q]
    BY <1>5 DEF Close, LInv
  <2>2. /\ q \in Process /\ q.act = proc[e].act /\ q.call = proc[e].call
        /\ q.main = "closing" /\ q.lock = proc[e].lock /\ proc[e].main = "loop"
    BY <1>1, <1>5 DEF Process, Close, OnMain
  <2>3. ProcOK(q, clock)
    BY <1>1, <2>2 DEF ProcOK, LInv
  <2>. QED
    BY <1>1, <2>1, <2>3, StepOK
<1>. QED
  BY <1>3, <1>4, <1>5

\* close() releases the lease.
LEMMA ReleaseOK ==
    ASSUME LInv, NEW e \in Executors, Release(e)
    PROVE  LInv'
<1>1. CASE proc[e].act # NoRow
  <2>1. /\ Send(e, "main", "release") /\ proc[e].main = "closing" /\ proc[e].lock = "free"
        /\ UNCHANGED <<clock, row, orphans>>
    BY <1>1 DEF Release, OnMain
  <2>. QED
    BY <1>1, <2>1, SendOK
<1>2. CASE proc[e].act = NoRow
  BY <1>2, DownOK, StepOK DEF Release, LInv
<1>. QED
  BY <1>1, <1>2

\* A process dies; its statement is still under way.
LEMMA CrashOK ==
    ASSUME LInv, NEW e \in Executors, Crash(e)
    PROVE  LInv'
<1>1. /\ proc' = [proc EXCEPT ![e] = Down] /\ UNCHANGED <<clock, row>>
      /\ \A c \in orphans' : c = proc[e].call /\ c # NoCall
  BY DEF Crash
<1>2. \A c \in orphans' : CallOK(c, clock)
  BY <1>1, CallIsOK
<1>3. \A f \in Executors : proc'[f] = IF f = e THEN Down ELSE proc[f]
  BY <1>1 DEF LInv
<1>4. proc' = [f \in Executors |-> proc'[f]]
  BY <1>1 DEF LInv
<1>. QED
  BY <1>1, <1>2, <1>3, <1>4, DownOK DEF LInv

\* A statement of a dead process arrives.
LEMMA OrphanArrivesOK ==
    ASSUME LInv, NEW c \in orphans, OrphanArrives(c)
    PROVE  LInv'
<1>1. RowOK(row', clock)
  BY ExecuteOK DEF OrphanArrives, LInv
<1>. QED
  BY <1>1 DEF OrphanArrives, LInv

\* Time passes: what was dated stays dated.
LEMMA TickOK ==
    ASSUME LInv, Tick
    PROVE  LInv'
<1>1. clock \in Nat /\ clock' = clock + 1 /\ clock' \in Nat /\ UNCHANGED <<row, proc, orphans>>
  BY DEF Tick, LInv
<1>2. \A r \in RowRecord : Dated(r, clock) => Dated(r, clock')
  BY <1>1 DEF Dated, RowRecord
<1>3. \A c \in Call : Sound(c, clock) => Sound(c, clock')
  BY <1>1 DEF Sound, Call
<1>4. RowOK(row', clock') /\ \A c \in orphans' : CallOK(c, clock')
  BY <1>1, <1>2, <1>3 DEF LInv, RowOK, CallOK
<1>5. ASSUME NEW e \in Executors  PROVE ProcOK(proc[e], clock')
  <2>1. /\ proc[e] \in Process /\ ProcOK(proc[e], clock)
        /\ proc[e].act \in RowRecord \cup {NoRow} /\ proc[e].call \in Call \cup {NoCall}
        /\ proc[e].since \in Nat
    BY DEF LInv, ProcOK, Process
  <2>2. proc[e].main = "starting" => proc[e].since <= clock'
    BY <1>1, <2>1 DEF ProcOK
  <2>. QED
    BY <1>2, <1>3, <2>1, <2>2 DEF ProcOK, HasLease
<1>. QED
  BY <1>1, <1>4, <1>5 DEF LInv

\* The seeded row and processes that are down.
LEMMA InitOK == LeaseInit => LInv
<1>. SUFFICES ASSUME LeaseInit PROVE LInv
  OBVIOUS
<1>1. clock \in Nat /\ row = StandbyRow(0) /\ orphans = {} /\ 0 \in Nat
  BY DEF LeaseInit
<1>2. RowOK(row, clock)
  BY <1>1, StandbyOK
<1>3. proc = [e \in Executors |-> proc[e]] /\ \A e \in Executors : proc[e] = Down
  BY DEF LeaseInit
<1>. QED
  BY <1>1, <1>2, <1>3, DownOK DEF LInv

\* Every step keeps the invariant.
LEMMA NextOK ==
    ASSUME LInv, [LeaseNext]_vars
    PROVE  LInv'
<1>1. CASE UNCHANGED vars
  BY <1>1 DEF LInv, vars
<1>2. ASSUME NEW e \in Executors, Controller(e)  PROVE LInv'
  BY <1>2, StartActiveOK, StartDrainingOK, AdoptedOK, BeatOK, HandleOK, AnswerOK, MainOK,
     ReleaseOK DEF Controller
<1>3. ASSUME NEW e \in Executors, Environment(e)  PROVE LInv'
  BY <1>3, StartReadOK, SignalOK, StatementErrsOK, CrashOK DEF Environment
<1>. QED
  BY <1>1, <1>2, <1>3, OrphanArrivesOK, TickOK DEF LeaseNext

\* The inductive invariant.
LEMMA LeaseInvariant == LeaseSpec => []LInv
  BY InitOK, NextOK, PTL DEF LeaseSpec

\* The row, the threads and the statements under way keep their types, for every
\* number of processes and every lease length (LeaseTypeOK).
THEOREM LeaseTypeCorrect == LeaseSpec => []LeaseTypeOK
  BY LeaseInvariant, Parts, PTL

\* Every compare-and-set compares with a well dated activation (TokensDated):
\* heartbeat, begin_draining, resume_active and release, whoever sends them.
THEOREM TokensAreDated == LeaseSpec => []TokensDated
  BY LeaseInvariant, Parts, PTL
-----------------------------------------------------------------------------
(* The row implements module RoleRow.                                       *)

\* The abstract row of a row, as the refinement mapping of Role sees it.
Shown(r, now) == [owner |-> r.owner, state |-> r.state, live |-> IsLive(r, now)]

\* A released row is the abstract standby row.
LEMMA ShownStandby ==
    \A epoch, now \in Nat : Shown(StandbyRow(epoch), now) = Role!Standby
  BY DEF Shown, StandbyRow, IsLive, Role!Standby

\* A row that differs only in being live.
LEMMA ShownExcept ==
    ASSUME NEW r, NEW t, NEW s, NEW u, NEW b,
           s.owner = r.owner, s.state = r.state, IsLive(s, u) = b
    PROVE  Shown(s, u) = [Shown(r, t) EXCEPT !.live = b]
  BY DEF Shown

\* A compare-and-set is a heartbeat (a stutter or a late renewal), a drain, a
\* resumption or a release.
LEMMA ExecuteRefines ==
    ASSUME LInv, NEW c, CallOK(c, clock), Execute(c) \/ UNCHANGED row, UNCHANGED clock
    PROVE  [Role!Next]_(Shown(row, clock))
<1>0. /\ clock \in Nat /\ clock' = clock
      /\ c \in Call /\ c.act \in RowRecord /\ c.now \in Nat /\ c.now <= clock
      /\ Dated(c.act, c.now) /\ RoleLeaseSeconds \in Nat
      /\ c.op = "drain" => c.act.state = "active"
      /\ c.op = "resume" => c.act.state = "draining"
  BY LeaseAssumption DEF LInv, CallOK, Sound, Call
<1>1. CASE row' = row
  BY <1>0, <1>1 DEF Shown, IsLive
<1>2. CASE Matches(c) /\ row' = Written(c)
  <2>. DEFINE r == c.act
  <2>0. /\ row = r /\ r \in RowRecord /\ r.state # "standby"
        /\ r.beat \in Nat /\ r.expiry \in Nat /\ r.expiry = r.beat + RoleLeaseSeconds
        /\ r.beat <= c.now /\ r.epoch \in Nat
    BY <1>0, <1>2 DEF Matches, Dated, RowRecord
  <2>. HIDE DEF r
  <2>1. CASE c.op = "heartbeat"
    <3>1. row' = Renewed(r, c.now)
      BY <1>2, <2>1 DEF Written, r
    <3>2. /\ row'.state = row.state /\ row'.owner = row.owner
          /\ row'.expiry = c.now + RoleLeaseSeconds
      BY <1>0, <2>0, <3>1, RenewedRow
    <3>3. IsLive(row, clock) => IsLive(row', clock)
      BY <1>0, <2>0, <3>2 DEF IsLive
    <3>4. CASE IsLive(row, clock) = IsLive(row', clock)
      BY <1>0, <3>2, <3>4 DEF Shown
    <3>5. CASE ~IsLive(row, clock) /\ IsLive(row', clock)
      <4>0. IsLive(row', clock') = TRUE
        BY <1>0, <3>5 DEF IsLive
      <4>1. Shown(row', clock') = [Shown(row, clock) EXCEPT !.live = TRUE]
        BY <3>2, <4>0, ShownExcept
      <4>2. ~Shown(row, clock).live /\ Shown(row, clock).state # "standby"
        BY <2>0, <3>5 DEF Shown
      <4>. QED
        BY <4>1, <4>2 DEF Role!Next, Role!LateRenewal, Shown
    <3>. QED
      BY <3>3, <3>4, <3>5 DEF IsLive
  <2>2. CASE c.op = "drain"
    <3>1. row' = [row EXCEPT !.state = "draining"] /\ row.state = "active"
      BY <1>0, <1>2, <2>0, <2>2 DEF Written, r
    <3>2. /\ row'.state = "draining" /\ row'.owner = row.owner /\ row'.expiry = row.expiry
      BY <2>0, <3>1 DEF RowRecord
    <3>3. /\ Shown(row, clock)' = [Shown(row, clock) EXCEPT !.state = "draining"]
          /\ Shown(row, clock).state = "active"
      BY <1>0, <3>1, <3>2 DEF Shown, IsLive
    <3>. QED
      BY <3>3 DEF Role!Next, Role!Drain, Shown
  <2>3. CASE c.op = "resume"
    <3>1. row' = [row EXCEPT !.state = "active"] /\ row.state = "draining"
      BY <1>0, <1>2, <2>0, <2>3 DEF Written, r
    <3>2. /\ row'.state = "active" /\ row'.owner = row.owner /\ row'.expiry = row.expiry
      BY <2>0, <3>1 DEF RowRecord
    <3>3. /\ Shown(row, clock)' = [Shown(row, clock) EXCEPT !.state = "active"]
          /\ Shown(row, clock).state = "draining"
      BY <1>0, <3>1, <3>2 DEF Shown, IsLive
    <3>. QED
      BY <3>3 DEF Role!Next, Role!Resume, Shown
  <2>4. CASE c.op = "release"
    <3>1. row' = StandbyRow(r.epoch)
      BY <1>2, <2>4 DEF Written, r
    <3>2. Shown(row, clock)' = Role!Standby /\ Shown(row, clock).state # "standby"
      BY <1>0, <2>0, <3>1, ShownStandby DEF Shown
    <3>. QED
      BY <3>2 DEF Role!Next, Role!Release, Shown
  <2>. QED
    BY <1>0, <2>1, <2>2, <2>3, <2>4 DEF Call
<1>. QED
  BY <1>1, <1>2 DEF Execute

\* An activation is the abstract one.
LEMMA StartActiveRefines ==
    ASSUME LInv, NEW e \in Executors, StartActive(e)
    PROVE  [Role!Next]_(Shown(row, clock))
<1>1. CASE MayActivate(e)
  <2>1. /\ row' = ActiveRow(e, proc[e].since) /\ clock' = clock /\ clock \in Nat
        /\ proc[e].since \in Nat /\ proc[e].since <= clock /\ row.expiry \in Nat
    BY <1>1 DEF StartActive, LInv, RowOK, ProcOK, Process, RowRecord
  <2>2. ~IsLive(row, clock)
    BY <1>1, <2>1 DEF MayActivate, IsLive
  <2>3. IsLive(row', clock) \in BOOLEAN
    BY DEF IsLive
  <2>4. Shown(row, clock)' = [owner |-> e, state |-> "active", live |-> IsLive(row', clock)]
    BY <2>1 DEF Shown, ActiveRow
  <2>5. ~Shown(row, clock).live
    BY <2>2 DEF Shown
  <2>. QED
    BY <2>3, <2>4, <2>5 DEF Role!Next, Role!Activate, Shown
<1>2. CASE ~MayActivate(e)
  BY <1>2 DEF StartActive, Shown, IsLive
<1>. QED
  BY <1>1, <1>2

\* Time lets a lease expire, or changes nothing.
LEMMA TickRefines ==
    ASSUME LInv, Tick
    PROVE  [Role!Next]_(Shown(row, clock))
<1>1. /\ clock \in Nat /\ clock' = clock + 1 /\ row' = row /\ row.expiry \in Nat
  BY DEF Tick, LInv, RowOK, RowRecord
<1>2. IsLive(row, clock)' => IsLive(row, clock)
  BY <1>1 DEF IsLive
<1>3. CASE IsLive(row, clock)' = IsLive(row, clock)
  BY <1>1, <1>3 DEF Shown
<1>4. CASE IsLive(row, clock) /\ ~IsLive(row, clock)'
  <2>0. /\ IsLive(row', clock') = FALSE
        /\ row'.owner = row.owner /\ row'.state = row.state
    BY <1>1, <1>4 DEF IsLive
  <2>1. Shown(row', clock') = [Shown(row, clock) EXCEPT !.live = FALSE]
    BY <2>0, ShownExcept
  <2>2. Shown(row, clock).live
    BY <1>4 DEF Shown
  <2>. QED
    BY <2>1, <2>2 DEF Role!Next, Role!Expire, Shown
<1>. QED
  BY <1>2, <1>3, <1>4 DEF IsLive

\* The role row of the processes implements module RoleRow, on which the run
\* queue's epochs and fences rely (ImplementsRoleRow): a live role changes hands
\* only by its owner's release, whatever start(), heartbeats, signal handlers,
\* crashes and late statements do.
THEOREM LeaseRefinesRoleRow == LeaseSpec => ImplementsRoleRow
<1>1. LeaseInit => Role!Init
  <2>. SUFFICES ASSUME LeaseInit PROVE Role!Init
    OBVIOUS
  <2>1. Shown(row, clock) = Role!Standby
    BY ShownStandby DEF LeaseInit
  <2>. QED
    BY <2>1 DEF Role!Init, Shown
<1>2. ASSUME LInv, [LeaseNext]_vars
      PROVE  [Role!Next]_[owner |-> row.owner, state |-> row.state, live |-> IsLive(row, clock)]
  <2>0. [Role!Next]_(Shown(row, clock))
    <3>1. CASE row' = row /\ clock' = clock
      BY <3>1 DEF Shown, IsLive
    <3>2. ASSUME NEW e \in Executors, Adopted(e) \/ Answer(e) \/ StatementErrs(e)
          PROVE  [Role!Next]_(Shown(row, clock))
      <4>1. proc[e].call # NoCall
        BY <1>2, <3>2 DEF Adopted, Answer, StatementErrs, LInv, ProcOK
      <4>2. CallOK(proc[e].call, clock)
        BY <1>2, <4>1, CallIsOK
      <4>. QED
        BY <1>2, <3>2, <4>2, ExecuteRefines DEF Adopted, Answer, StatementErrs
    <3>3. ASSUME NEW c \in orphans, OrphanArrives(c)
          PROVE  [Role!Next]_(Shown(row, clock))
      BY <1>2, <3>3, ExecuteRefines DEF OrphanArrives, LInv
    <3>4. ASSUME NEW e \in Executors, Controller(e)
          PROVE  [Role!Next]_(Shown(row, clock))
      BY <1>2, <3>1, <3>2, <3>4, StartActiveRefines
      DEF Controller, StartDraining, Beat, Handle, Guard, Guarded, Close, Release
    <3>5. ASSUME NEW e \in Executors, Environment(e)
          PROVE  [Role!Next]_(Shown(row, clock))
      BY <1>2, <3>1, <3>2, <3>5 DEF Environment, StartRead, Signal, Crash
    <3>. QED
      BY <1>2, <3>1, <3>3, <3>4, <3>5, TickRefines DEF LeaseNext, vars
  <2>. QED
    BY <2>0 DEF Shown
<1>. QED
  BY <1>1, <1>2, LeaseInvariant, PTL DEF LeaseSpec, ImplementsRoleRow, Role!Spec
-----------------------------------------------------------------------------
(* An epoch names one process.  h[n] is the process that activated epoch n.  *)

\* The lease r of process e agrees with h.
Names(r, e, h) == r.epoch <= row.epoch /\ r.owner = e /\ h[r.epoch] = e

EpochOK(p, e, h) ==
    /\ p.seen # NoRow => p.seen.epoch <= row.epoch
    /\ p.seen # NoRow /\ p.seen.owner # NoExecutor => h[p.seen.epoch] = p.seen.owner
    /\ HasLease(p.act) => Names(p.act, e, h)
    /\ p.call # NoCall => Names(p.call.act, e, h)

Agrees(h) ==
    /\ row.owner # NoExecutor => h[row.epoch] = row.owner
    /\ \A e \in Executors : EpochOK(proc[e], e, h)

EpochInv == \E h \in [Nat -> Executors \cup {NoExecutor}] : Agrees(h)

\* What process e keeps and sends after a step comes from what it kept, and from
\* the row.
Derived(q, p, e) ==
    /\ q.seen \in {p.seen, NoRow, row}
    /\ \/ ~HasLease(q.act) \/ q.act = p.act
       \/ p.seen # NoRow /\ p.seen.owner = e /\ q.act = p.seen
       \/ p.call # NoCall /\ q.act.epoch = p.call.act.epoch /\ q.act.owner = p.call.act.owner
    /\ \/ q.call = NoCall \/ q.call = p.call
       \/ HasLease(p.act) /\ q.call.act = p.act
       \/ p.seen # NoRow /\ p.seen.owner = e /\ q.call.act = p.seen

\* What is derived from what agreed with h agrees with it.
LEMMA DerivedOK ==
    ASSUME LInv, NEW e \in Executors, NEW h, Agrees(h), NEW q, Derived(q, proc[e], e),
           proc' = [proc EXCEPT ![e] = q],
           row'.epoch = row.epoch, row'.owner \in {row.owner, NoExecutor}
    PROVE  Agrees(h)'
<1>0. row.epoch \in Nat /\ e # NoExecutor
  BY LeaseAssumption DEF LInv, RowOK, RowRecord
<1>1. EpochOK(proc[e], e, h)
  BY DEF Agrees
<1>2. EpochOK(q, e, h)
  BY <1>0, <1>1 DEF Derived, EpochOK, Names, Agrees
<1>3. \A f \in Executors : proc'[f] = IF f = e THEN q ELSE proc[f]
  BY DEF LInv
<1>. QED
  BY <1>2, <1>3 DEF Agrees, EpochOK, Names

\* The executed statement of a process keeps the epoch, and the owner unless it
\* is a release.
LEMMA ExecuteKeepsEpoch ==
    ASSUME LInv, NEW c, CallOK(c, clock), Execute(c) \/ UNCHANGED row
    PROVE  row'.epoch = row.epoch /\ row'.owner \in {row.owner, NoExecutor}
<1>1. CASE Matches(c) /\ row' = Written(c)
  BY <1>1, WrittenOK DEF Matches, LInv
<1>2. CASE row' = row
  BY <1>2
<1>. QED
  BY <1>1, <1>2 DEF Execute

\* A new activation extends h.
LEMMA StartActiveEpoch ==
    ASSUME LInv, NEW e \in Executors, NEW h \in [Nat -> Executors \cup {NoExecutor}],
           Agrees(h), StartActive(e)
    PROVE  EpochInv'
<1>1. CASE MayActivate(e)
  <2>. DEFINE r == ActiveRow(e, proc[e].since)
              n == row.epoch + 1
              q == Started(proc[e], r)
  <2>1. /\ row.epoch \in Nat /\ n \in Nat /\ row.epoch < n /\ proc[e] \in Process
        /\ proc[e].call = NoCall
    BY DEF StartActive, LInv, RowOK, RowRecord, ProcOK
  <2>2. PICK g \in [Nat -> Executors \cup {NoExecutor}] :
          g[n] = e /\ \A m \in Nat : m <= row.epoch => g[m] = h[m]
    <3>1. [h EXCEPT ![n] = e] \in [Nat -> Executors \cup {NoExecutor}]
      BY <2>1
    <3>2. /\ [h EXCEPT ![n] = e][n] = e
          /\ \A m \in Nat : m <= row.epoch => [h EXCEPT ![n] = e][m] = h[m]
      BY <2>1
    <3>. QED
      BY <3>1, <3>2
  <2>3. row' = r /\ r.epoch = n /\ r.owner = e
    BY <1>1 DEF StartActive, ActiveRow
  <2>. HIDE DEF r, n
  <2>4. q.act = r /\ q.call = NoCall /\ q.seen = NoRow
    BY <2>1 DEF Started, Process
  <2>5. \A f \in Executors : proc'[f] = IF f = e THEN q ELSE proc[f]
    <3>1. proc' = [proc EXCEPT ![e] = q]
      BY <1>1 DEF StartActive, LInv, r
    <3>. HIDE DEF q
    <3>. QED
      BY <3>1 DEF LInv
  <2>. HIDE DEF q
  <2>6. ASSUME NEW f \in Executors  PROVE EpochOK(proc[f], f, g)'
    <3>1. CASE f = e
      BY <2>1, <2>2, <2>3, <2>4, <2>5, <3>1 DEF EpochOK, Names
    <3>2. CASE f # e
      <4>1. proc'[f] = proc[f] /\ EpochOK(proc[f], f, h) /\ proc[f] \in Process
        BY <2>5, <3>2 DEF Agrees, LInv, ProcOK
      <4>2. /\ proc[f].seen # NoRow => proc[f].seen.epoch \in Nat
            /\ proc[f].act # NoRow => proc[f].act.epoch \in Nat
            /\ proc[f].call # NoCall => proc[f].call.act.epoch \in Nat
        BY <4>1 DEF Process, Call, RowRecord
      <4>. QED
        BY <2>1, <2>2, <2>3, <4>1, <4>2 DEF EpochOK, Names, HasLease
    <3>. QED
      BY <3>1, <3>2
  <2>7. Agrees(g)'
    BY <2>2, <2>3, <2>6 DEF Agrees
  <2>. QED
    BY <2>2, <2>7 DEF EpochInv
<1>2. CASE ~MayActivate(e)
  <2>1. proc' = [proc EXCEPT ![e] = Down] /\ row' = row
    BY <1>2 DEF StartActive
  <2>2. Derived(Down, proc[e], e)
    BY DEF Derived, Down, HasLease
  <2>3. Agrees(h)'
    BY <2>1, <2>2, DerivedOK
  <2>. QED
    BY <2>3 DEF EpochInv
<1>. QED
  BY <1>1, <1>2

\* A step of process e other than a successful activation.
Follows(e) == \E q : Derived(q, proc[e], e) /\ proc' = [proc EXCEPT ![e] = q]

\* A process that goes down keeps nothing.
LEMMA DownFollows ==
    ASSUME NEW e \in Executors, proc' = [proc EXCEPT ![e] = Down]
    PROVE  Follows(e)
<1>1. Derived(Down, proc[e], e)
  BY DEF Derived, Down, HasLease
<1>. QED
  BY <1>1 DEF Follows

\* What a thread keeps of the answer to its statement.
LEMMA AnsweredFields ==
    ASSUME NEW p \in Process, p.lock \in {"beater", "handler", "main"},
           NEW r \in RowRecord \cup {NoRow}
    PROVE  \/ p.lock = "main" /\ Answered(p, r) = Down
           \/ /\ p.lock # "main"
              /\ Answered(p, r).seen = p.seen /\ Answered(p, r).act = r
              /\ Answered(p, r).call = NoCall
<1>. DEFINE q == [p EXCEPT !.lock = "free", !.call = NoCall, !.act = r, !.lost = (r = NoRow)]
            x == Answered(p, r)
<1>1. /\ (r = NoRow) \in BOOLEAN
  OBVIOUS
<1>2. q \in Process /\ q.seen = p.seen /\ q.act = r /\ q.call = NoCall
  BY <1>1 DEF Process
<1>3. CASE p.lock = "main"
  BY <1>3 DEF Answered
<1>4. CASE p.lock = "beater"
  <2>1. PICK b, w : x = [q EXCEPT !.beater = b, !.wake = w]
    BY <1>4 DEF Answered
  <2>. HIDE DEF q, x
  <2>2. x.seen = q.seen /\ x.act = q.act /\ x.call = q.call
    BY <1>2, <2>1 DEF Process
  <2>. QED
    BY <1>2, <1>4, <2>2 DEF x
<1>5. CASE p.lock = "handler"
  <2>. DEFINE v == Returned(q)
  <2>1. v \in Process /\ v.seen = q.seen /\ v.act = q.act /\ v.call = q.call
    BY <1>2, ReturnedFields
  <2>2. PICK z : x = [v EXCEPT !.configured = z]
    BY <1>5 DEF Answered
  <2>. HIDE DEF v, x, q
  <2>3. x.seen = v.seen /\ x.act = v.act /\ x.call = v.call
    BY <2>1, <2>2 DEF Process
  <2>. QED
    BY <1>2, <1>5, <2>1, <2>3 DEF x
<1>. QED
  BY <1>3, <1>4, <1>5

\* A statement is about the lease held; a standby row is dropped.
LEMMA SendFollows ==
    ASSUME LInv, NEW e \in Executors, NEW thread \in {"main", "handler", "beater"}, NEW op,
           proc[e].act # NoRow, Send(e, thread, op)
    PROVE  Follows(e)
<1>. DEFINE c == [op |-> op, act |-> proc[e].act, now |-> clock]
            p == [proc[e] EXCEPT !.lock = thread]
<1>1. proc[e] \in Process
  BY DEF LInv, ProcOK
<1>2. /\ p \in Process /\ p.act = proc[e].act /\ p.seen = proc[e].seen /\ p.lock = thread
  BY <1>1 DEF Process
<1>3. CASE HasLease(proc[e].act)
  <2>. DEFINE q == [p EXCEPT !.call = c]
  <2>1. proc' = [proc EXCEPT ![e] = q]
    BY <1>2, <1>3 DEF Send, LInv
  <2>2. c.act = proc[e].act
    OBVIOUS
  <2>. HIDE DEF c, p
  <2>3. q.seen = p.seen /\ q.act = p.act /\ q.call = c
    BY <1>2 DEF Process
  <2>4. Derived(q, proc[e], e)
    BY <1>2, <1>3, <2>2, <2>3 DEF Derived
  <2>. QED
    BY <2>1, <2>4 DEF Follows
<1>4. CASE ~HasLease(proc[e].act)
  <2>. DEFINE q == Answered(p, NoRow)
  <2>1. proc' = [proc EXCEPT ![e] = q]
    BY <1>2, <1>4 DEF Send, LInv
  <2>. HIDE DEF p
  <2>2. q = Down \/ (q.seen = p.seen /\ q.act = NoRow /\ q.call = NoCall)
    BY <1>2, AnsweredFields
  <2>. HIDE DEF q
  <2>3. CASE q = Down
    BY <2>1, <2>3, DownFollows
  <2>4. CASE q.seen = p.seen /\ q.act = NoRow /\ q.call = NoCall
    <3>1. Derived(q, proc[e], e)
      BY <1>2, <2>4 DEF Derived, HasLease
    <3>. QED
      BY <2>1, <3>1 DEF Follows
  <2>. QED
    BY <2>2, <2>3, <2>4
<1>. QED
  BY <1>3, <1>4

\* A change of the threads' fields.
LEMMA KeptFollows ==
    ASSUME NEW e \in Executors, NEW q, proc' = [proc EXCEPT ![e] = q],
           q.seen = proc[e].seen, q.act = proc[e].act, q.call \in {proc[e].call, NoCall}
    PROVE  Follows(e)
  BY DEF Follows, Derived

\* start() keeps the row it read.
LEMMA StartFollows ==
    ASSUME LInv, NEW e \in Executors,
           (\E s \in Configured : StartRead(e, s)) \/ StartDraining(e)
    PROVE  Follows(e)
<1>1. ASSUME NEW s \in Configured, StartRead(e, s)  PROVE Follows(e)
  <2>. DEFINE q == [Down EXCEPT !.main = IF s = "standby" THEN "loop" ELSE "starting",
                                !.loops = (s = "active"), !.configured = s, !.seen = row,
                                !.since = clock]
  <2>1. q.seen = row /\ q.act = NoRow /\ q.call = NoCall
    BY DEF Down
  <2>2. proc' = [proc EXCEPT ![e] = q]
    BY <1>1 DEF StartRead
  <2>3. Derived(q, proc[e], e)
    BY <2>1 DEF Derived, HasLease
  <2>. QED
    BY <2>2, <2>3 DEF Follows
<1>2. CASE StartDraining(e)
  <2>. DEFINE seen == proc[e].seen
              c == [op |-> "drain", act |-> seen, now |-> proc[e].since]
              q == [proc[e] EXCEPT !.main = "adopting", !.call = c]
              adopts == seen.owner = e /\ IsLive(seen, proc[e].since)
  <2>1. proc[e] \in Process /\ seen # NoRow /\ proc[e].call = NoCall
    BY <1>2 DEF StartDraining, LInv, ProcOK
  <2>2. CASE HasLease(seen) /\ ~adopts
    <3>1. proc' = [proc EXCEPT ![e] = Down]
      BY <1>2, <2>2 DEF StartDraining
    <3>. QED
      BY <3>1, DownFollows
  <2>3. CASE (HasLease(seen) => adopts) /\ seen.state # "active"
    <3>1. proc' = [proc EXCEPT ![e] = Started(proc[e], seen)]
      BY <1>2, <2>3 DEF StartDraining, LInv
    <3>2. /\ Started(proc[e], seen).seen = NoRow /\ Started(proc[e], seen).act = seen
          /\ Started(proc[e], seen).call = NoCall
      BY <2>1 DEF Started, Process
    <3>3. Derived(Started(proc[e], seen), proc[e], e)
      BY <2>1, <2>3, <3>2 DEF Derived
    <3>. QED
      BY <3>1, <3>3 DEF Follows
  <2>4. CASE (HasLease(seen) => adopts) /\ seen.state = "active"
    <3>0. adopts
      BY <2>1, <2>4 DEF HasLease
    <3>1. proc' = [proc EXCEPT ![e] = q]
      BY <1>2, <2>4 DEF StartDraining, LInv
    <3>2. c.act = seen
      OBVIOUS
    <3>. HIDE DEF c
    <3>3. q.seen = seen /\ q.act = proc[e].act /\ q.call = c
      BY <2>1 DEF Process
    <3>4. Derived(q, proc[e], e)
      BY <2>1, <3>0, <3>2, <3>3 DEF Derived
    <3>. QED
      BY <3>1, <3>4 DEF Follows
  <2>. QED
    BY <2>2, <2>3, <2>4
<1>. QED
  BY <1>1, <1>2

\* start() adopts the activation it drained.
LEMMA AdoptedFollows ==
    ASSUME LInv, NEW e \in Executors, Adopted(e)
    PROVE  Follows(e)
<1>. DEFINE c == proc[e].call
            p == [proc[e] EXCEPT !.call = NoCall]
            q == Started(p, Written(c))
<1>1. proc[e] \in Process /\ c # NoCall /\ c.op = "drain"
  BY DEF Adopted, LInv, ProcOK
<1>2. CASE Matches(c)
  <2>1. proc' = [proc EXCEPT ![e] = q]
    BY <1>2 DEF Adopted, LInv
  <2>2. Written(c).epoch = c.act.epoch /\ Written(c).owner = c.act.owner
    BY <1>1, CallIsOK, WrittenOK DEF LInv
  <2>3. p \in Process
    BY <1>1 DEF Process
  <2>4. p.call = NoCall
    BY <1>1 DEF Process
  <2>. HIDE DEF p, c
  <2>5. q.seen = NoRow /\ q.act = Written(c) /\ q.call = NoCall
    BY <2>3, <2>4 DEF Started, Process
  <2>6. Derived(q, proc[e], e)
    BY <1>1, <2>2, <2>5 DEF Derived, c
  <2>. QED
    BY <2>1, <2>6 DEF Follows
<1>3. CASE ~Matches(c)
  BY <1>3, DownFollows DEF Adopted
<1>. QED
  BY <1>2, <1>3

\* A controller stores the activation it wrote.
LEMMA AnswerFollows ==
    ASSUME LInv, NEW e \in Executors, Answer(e)
    PROVE  Follows(e)
<1>. DEFINE c == proc[e].call
            r == IF Matches(c) THEN Written(c) ELSE NoRow
            q == Answered(proc[e], r)
<1>1. /\ proc[e] \in Process /\ c # NoCall /\ proc[e].lock \in {"beater", "handler", "main"}
      /\ c.op = "release" => proc[e].lock = "main"
  BY DEF Answer, LInv, ProcOK, Process
<1>2. /\ Written(c).epoch = c.act.epoch /\ Written(c) \in RowRecord
      /\ c.op # "release" => Written(c).owner = c.act.owner
  BY <1>1, CallIsOK, WrittenOK DEF LInv, RowOK
<1>3. proc' = [proc EXCEPT ![e] = q]
  BY DEF Answer, LInv
<1>4. /\ r \in RowRecord \cup {NoRow}
      /\ r = NoRow \/ (r.epoch = c.act.epoch /\ (c.op # "release" => r.owner = c.act.owner))
  BY <1>2
<1>. HIDE DEF r
<1>5. \/ q = Down
      \/ proc[e].lock # "main" /\ q.seen = proc[e].seen /\ q.act = r /\ q.call = NoCall
  BY <1>1, <1>4, AnsweredFields
<1>. HIDE DEF q
<1>6. CASE q = Down
  BY <1>3, <1>6, DownFollows
<1>7. CASE proc[e].lock # "main" /\ q.seen = proc[e].seen /\ q.act = r /\ q.call = NoCall
  <2>1. ~HasLease(r) \/ (r.epoch = c.act.epoch /\ r.owner = c.act.owner)
    BY <1>1, <1>4, <1>7 DEF HasLease
  <2>2. Derived(q, proc[e], e)
    BY <1>1, <1>7, <2>1 DEF Derived
  <2>. QED
    BY <1>3, <2>2 DEF Follows
<1>. QED
  BY <1>5, <1>6, <1>7

\* A failed statement stores nothing.
LEMMA StatementErrsFollows ==
    ASSUME LInv, NEW e \in Executors, StatementErrs(e)
    PROVE  Follows(e)
<1>. DEFINE p == [proc[e] EXCEPT !.lock = "free", !.call = NoCall]
            z == IF proc[e].handler = "stop" THEN "closing" ELSE p.main
<1>1. proc[e] \in Process
  BY DEF LInv, ProcOK
<1>2. p \in Process /\ p.seen = proc[e].seen /\ p.act = proc[e].act /\ p.call = NoCall
  BY <1>1 DEF Process
<1>3. CASE proc[e].lock = "beater"
  <2>. DEFINE q == [p EXCEPT !.beater = "ended"]
  <2>1. proc' = [proc EXCEPT ![e] = q]
    BY <1>3 DEF StatementErrs, LInv
  <2>. HIDE DEF p
  <2>2. q.seen = proc[e].seen /\ q.act = proc[e].act /\ q.call = NoCall
    BY <1>2 DEF Process
  <2>. QED
    BY <2>1, <2>2, KeptFollows
<1>4. CASE proc[e].lock = "handler"
  <2>. DEFINE q == [p EXCEPT !.handler = "none", !.main = z]
  <2>1. proc' = [proc EXCEPT ![e] = q]
    BY <1>4 DEF StatementErrs, LInv
  <2>. HIDE DEF p, z
  <2>2. q.seen = proc[e].seen /\ q.act = proc[e].act /\ q.call = NoCall
    BY <1>2 DEF Process
  <2>. QED
    BY <2>1, <2>2, KeptFollows
<1>5. CASE proc[e].lock \notin {"beater", "handler"}
  BY <1>5, DownFollows DEF StatementErrs, LInv
<1>. QED
  BY <1>3, <1>4, <1>5

\* A handler changes at most the configured state.
LEMMA HandleFollows ==
    ASSUME LInv, NEW e \in Executors, Handle(e)
    PROVE  Follows(e)
<1>1. proc[e] \in Process
  BY DEF LInv, ProcOK
<1>2. CASE Holds(e) /\ proc[e].act.state # Target(proc[e].handler)
  <2>1. \E op : Send(e, "handler", op)
    BY <1>2 DEF Handle
  <2>. QED
    BY <1>2, <2>1, SendFollows DEF Holds
<1>3. CASE ~(Holds(e) /\ proc[e].act.state # Target(proc[e].handler))
  <2>. DEFINE v == Returned(proc[e])
  <2>1. PICK z : proc' = [proc EXCEPT ![e] = [v EXCEPT !.configured = z]]
    BY <1>3 DEF Handle
  <2>2. /\ v \in Process /\ v.seen = proc[e].seen /\ v.act = proc[e].act
        /\ v.call = proc[e].call
    BY <1>1, ReturnedFields
  <2>. HIDE DEF v
  <2>. DEFINE q == [v EXCEPT !.configured = z]
  <2>3. q.seen = proc[e].seen /\ q.act = proc[e].act /\ q.call = proc[e].call
    BY <2>2 DEF Process
  <2>. QED
    BY <2>1, <2>3, KeptFollows
<1>. QED
  BY <1>2, <1>3

\* The steps of the threads that change neither activation nor statement.
LEMMA ThreadFollows ==
    ASSUME LInv, NEW e \in Executors,
           \/ Guard(e) \/ Guarded(e) \/ Close(e)
           \/ \E s \in {"drain", "resume", "stop"} : Signal(e, s)
    PROVE  Follows(e)
<1>1. proc[e] \in Process
  BY DEF LInv, ProcOK
<1>2. ASSUME NEW m, NEW l, proc' = [proc EXCEPT ![e] = [proc[e] EXCEPT !.main = m, !.lock = l]]
      PROVE  Follows(e)
  <2>. DEFINE q == [proc[e] EXCEPT !.main = m, !.lock = l]
  <2>1. q.seen = proc[e].seen /\ q.act = proc[e].act /\ q.call = proc[e].call
    BY <1>1 DEF Process
  <2>. QED
    BY <1>2, <2>1, KeptFollows
<1>3. CASE Guard(e)
  BY <1>2, <1>3 DEF Guard, LInv
<1>4. CASE Guarded(e)
  BY <1>2, <1>4 DEF Guarded, LInv
<1>5. CASE Close(e)
  <2>. DEFINE q == [proc[e] EXCEPT !.main = "closing"]
  <2>1. q.seen = proc[e].seen /\ q.act = proc[e].act /\ q.call = proc[e].call
    BY <1>1 DEF Process
  <2>2. proc' = [proc EXCEPT ![e] = q]
    BY <1>5 DEF Close, LInv
  <2>. QED
    BY <2>1, <2>2, KeptFollows
<1>6. ASSUME NEW s \in {"drain", "resume", "stop"}, Signal(e, s)  PROVE Follows(e)
  <2>. DEFINE q == [proc[e] EXCEPT !.handler = s]
  <2>1. q.seen = proc[e].seen /\ q.act = proc[e].act /\ q.call = proc[e].call
    BY <1>1 DEF Process
  <2>2. proc' = [proc EXCEPT ![e] = q]
    BY <1>6 DEF Signal, LInv
  <2>. QED
    BY <2>1, <2>2, KeptFollows
<1>. QED
  BY <1>3, <1>4, <1>5, <1>6

\* The heartbeat thread sends a statement or ends.
LEMMA BeatFollows ==
    ASSUME LInv, NEW e \in Executors, Beat(e)
    PROVE  Follows(e)
<1>1. CASE Holds(e)
  BY <1>1, SendFollows DEF Beat, Holds
<1>2. CASE ~Holds(e)
  <2>. DEFINE q == [proc[e] EXCEPT !.beater = "ended"]
  <2>1. q.seen = proc[e].seen /\ q.act = proc[e].act /\ q.call = proc[e].call
    BY DEF LInv, ProcOK, Process
  <2>2. proc' = [proc EXCEPT ![e] = q]
    BY <1>2 DEF Beat, LInv
  <2>. QED
    BY <2>1, <2>2, KeptFollows
<1>. QED
  BY <1>1, <1>2

\* close() sends a statement or ends.
LEMMA ReleaseFollows ==
    ASSUME LInv, NEW e \in Executors, Release(e)
    PROVE  Follows(e)
  BY SendFollows, DownFollows DEF Release

\* Every step other than a successful activation derives what is kept from what
\* was kept, and keeps the row's epoch.
LEMMA NextFollows ==
    ASSUME LInv, NEW e \in Executors, Controller(e) \/ Environment(e), ~StartActive(e)
    PROVE  /\ Follows(e)
           /\ row'.epoch = row.epoch /\ row'.owner \in {row.owner, NoExecutor}
<1>1. Follows(e)
  <2>1. ASSUME Crash(e)  PROVE Follows(e)
    BY <2>1, DownFollows DEF Crash
  <2>. QED
    BY <2>1, StartFollows, AdoptedFollows, BeatFollows, HandleFollows, AnswerFollows,
       ThreadFollows, ReleaseFollows, StatementErrsFollows
    DEF Controller, Environment
<1>2. CASE Adopted(e) \/ Answer(e) \/ StatementErrs(e)
  <2>1. proc[e].call # NoCall
    BY <1>2 DEF Adopted, Answer, StatementErrs, LInv, ProcOK
  <2>. QED
    BY <1>1, <1>2, <2>1, CallIsOK, ExecuteKeepsEpoch DEF Adopted, Answer, StatementErrs
<1>3. CASE row' = row
  BY <1>1, <1>3
<1>. QED
  BY <1>2, <1>3
  DEF Controller, Environment, StartRead, StartDraining, Beat, Signal, Handle, Guard, Guarded,
      Close, Release, Crash

\* No two processes hold an activation of the same epoch (EpochsUnique), so that
\* the epoch recorded with a claim names one process: activate() under the role's
\* lock, adoption by a process started to drain, and every compare-and-set.
THEOREM EpochsAreUnique == LeaseSpec => []EpochsUnique
<1>1. ASSUME LeaseInit  PROVE EpochInv
  <2>. DEFINE h == [n \in Nat |-> NoExecutor]
  <2>1. h \in [Nat -> Executors \cup {NoExecutor}]
    OBVIOUS
  <2>2. row.owner = NoExecutor
    BY <1>1 DEF LeaseInit, StandbyRow
  <2>3. \A e \in Executors : EpochOK(proc[e], e, h)
    BY <1>1 DEF LeaseInit, EpochOK, Down, HasLease
  <2>. HIDE DEF h
  <2>4. Agrees(h)
    BY <2>2, <2>3 DEF Agrees
  <2>. QED
    BY <2>1, <2>4 DEF EpochInv
<1>2. ASSUME LInv, EpochInv, [LeaseNext]_vars  PROVE EpochInv'
  <2>1. PICK h \in [Nat -> Executors \cup {NoExecutor}] : Agrees(h)
    BY <1>2 DEF EpochInv
  <2>2. ASSUME Agrees(h)'  PROVE EpochInv'
    BY <2>2 DEF EpochInv
  <2>3. CASE proc' = proc /\ row' = row
    <3>1. Agrees(h)'
      BY <2>1, <2>3 DEF Agrees, EpochOK, Names
    <3>. QED
      BY <2>2, <3>1
  <2>4. ASSUME NEW c \in orphans, OrphanArrives(c)  PROVE EpochInv'
    <3>1. /\ proc' = proc /\ row'.epoch = row.epoch /\ row'.owner \in {row.owner, NoExecutor}
      BY <1>2, <2>4, ExecuteKeepsEpoch DEF OrphanArrives, LInv
    <3>2. Agrees(h)'
      BY <2>1, <3>1 DEF Agrees, EpochOK, Names
    <3>. QED
      BY <2>2, <3>2
  <2>5. ASSUME NEW e \in Executors, Controller(e) \/ Environment(e)  PROVE EpochInv'
    <3>1. CASE StartActive(e)
      BY <1>2, <2>1, <3>1, StartActiveEpoch
    <3>2. CASE ~StartActive(e)
      <4>1. /\ Follows(e)
            /\ row'.epoch = row.epoch /\ row'.owner \in {row.owner, NoExecutor}
        BY <1>2, <2>5, <3>2, NextFollows
      <4>2. Agrees(h)'
        BY <1>2, <2>1, <4>1, DerivedOK DEF Follows
      <4>. QED
        BY <2>2, <4>2
    <3>. QED
      BY <3>1, <3>2
  <2>. QED
    BY <1>2, <2>3, <2>4, <2>5 DEF LeaseNext, Tick, vars
<1>3. EpochInv => EpochsUnique
  BY DEF EpochInv, Agrees, EpochOK, Names, EpochsUnique
<1>. QED
  BY <1>1, <1>2, <1>3, LeaseInvariant, PTL DEF LeaseSpec
=============================================================================
