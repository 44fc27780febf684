---------------------------- MODULE WorkerLease ----------------------------
(***************************************************************************)
(* The worker-role lease of the run executor: the row and compare-and-set  *)
(* operations of PostgresWorkerRoleRepository, and in every process the    *)
(* WorkerRoleLeaseController that start(), the heartbeat thread, the       *)
(* signal handlers and the claim guard share under one lock.               *)
(*                                                                         *)
(* A signal handler runs on the main thread, which stands still where it   *)
(* was interrupted until the handler returns.                              *)
(***************************************************************************)
EXTENDS Naturals

CONSTANTS
    Executors,          \* one process per deployment slot; its id is the owner_id
    RoleLeaseSeconds,
    RoleBeatSeconds,    \* heartbeat_interval_seconds
    Configured,         \* the activation states containers are started with
    DatabaseMayFail,    \* may a statement fail, before or after its commit?
    Timely,             \* do the threads finish what is due before time passes?
    MaxClock,           \* bound: length of the modelled time line
    MaxEpoch,           \* bound: number of activations
    NoExecutor, NoRow, NoCall

RowRecord == [state : {"standby", "active", "draining"}, epoch : Nat,
              owner : Executors \cup {NoExecutor}, beat : Nat, expiry : Nat]

\* A compare-and-set under way: the activation it compares with and the writer's
\* clock reading.
Call == [op : {"heartbeat", "drain", "resume", "release"}, act : RowRecord, now : Nat]

ASSUME LeaseAssumption ==
    /\ NoExecutor \notin Executors
    /\ RoleBeatSeconds \in Nat \ {0} /\ RoleLeaseSeconds \in Nat
    /\ RoleBeatSeconds < RoleLeaseSeconds
    /\ Configured \subseteq {"active", "standby", "draining"}
    /\ {DatabaseMayFail, Timely} \subseteq BOOLEAN
    /\ MaxClock \in Nat /\ MaxEpoch \in Nat
    /\ NoRow \notin RowRecord /\ NoCall \notin Call

VARIABLES
    clock,
    row,       \* the run_executor row of production_worker_role_activations
    proc,      \* threads and controller of each process
    orphans    \* statements sent by processes that died since

vars == <<clock, row, proc, orphans>>

Process ==
    [main : {"down", "starting", "adopting", "loop", "guard", "closing"},
     handler : {"none", "drain", "resume", "stop"},
     beater : {"none", "waiting", "ended"}, wake : Nat,
     lock : {"free", "main", "handler", "beater"},
     call : Call \cup {NoCall},
     loops : BOOLEAN,                    \* started as active: the executor loop runs
     configured : {"active", "standby", "draining"},
     seen : RowRecord \cup {NoRow},      \* the row start() read, at time "since"
     since : Nat,
     act : RowRecord \cup {NoRow},       \* _activation
     lost : BOOLEAN,                     \* _lease_lost
     stop : BOOLEAN]

Down == [main |-> "down", handler |-> "none", beater |-> "none", wake |-> 0, lock |-> "free",
         call |-> NoCall, loops |-> FALSE, configured |-> "standby", seen |-> NoRow,
         since |-> 0, act |-> NoRow, lost |-> FALSE, stop |-> FALSE]

\* The row, the threads and the statements under way keep their types.
LeaseTypeOK ==
    /\ clock \in Nat
    /\ row \in RowRecord
    /\ proc \in [Executors -> Process]
    /\ orphans \subseteq Call

StandbyRow(epoch) ==
    [state |-> "standby", epoch |-> epoch, owner |-> NoExecutor, beat |-> 0, expiry |-> 0]

LeaseInit ==
    /\ clock = 0
    /\ row = StandbyRow(0)
    /\ proc = [e \in Executors |-> Down]
    /\ orphans = {}

\* Bound: a process is started or disturbed while another activation may follow.
Disturbable == row.epoch < MaxEpoch

\* WorkerRoleActivation.is_live
IsLive(r, now) == r.state # "standby" /\ now < r.expiry

\* An activation with an owner.  The controller may also keep a standby row.
HasLease(r) == r # NoRow /\ r.state # "standby"

\* The process runs its own code on the main thread.
OnMain(e, step) == proc[e].main = step /\ proc[e].handler = "none"
-----------------------------------------------------------------------------
(* The repository's statements.                                            *)

\* heartbeat, begin_draining, resume_active and release compare the whole row
\* with the caller's activation; all but release want a lease that is live at
\* the caller's reading.
Matches(c) == row = c.act /\ (c.op # "release" => row.expiry > c.now)

\* A lease of one length, counted from the writer's reading.
Renewed(r, now) == [r EXCEPT !.beat = now, !.expiry = now + RoleLeaseSeconds]

Written(c) ==
    CASE c.op = "heartbeat" -> Renewed(c.act, c.now)
      [] c.op = "drain"     -> [c.act EXCEPT !.state = "draining"]
      [] c.op = "resume"    -> [c.act EXCEPT !.state = "active"]
      [] c.op = "release"   -> StandbyRow(c.act.epoch)

Execute(c) == row' = IF Matches(c) THEN Written(c) ELSE row

\* Mutant of MayActivate: the live lease is not respected.
MayActivateLive(e) == row.epoch = proc[e].seen.epoch

\* activate: under the role's lock, the epoch and the expiry are checked and the
\* next epoch is written.
MayActivate(e) == row.epoch = proc[e].seen.epoch /\ ~IsLive(row, proc[e].since)

\* Mutant of ActiveRow: the epoch is kept.
ActiveSameEpoch(e, now) ==
    [state |-> "active", epoch |-> row.epoch, owner |-> e, beat |-> now,
     expiry |-> now + RoleLeaseSeconds]

\* Mutant of ActiveRow: the row is written without its owner's state.
ActiveUnnamed(e, now) ==
    [state |-> proc[e].main, epoch |-> row.epoch + 1, owner |-> e, beat |-> now,
     expiry |-> now + RoleLeaseSeconds]

ActiveRow(e, now) ==
    [state |-> "active", epoch |-> row.epoch + 1, owner |-> e, beat |-> now,
     expiry |-> now + RoleLeaseSeconds]
-----------------------------------------------------------------------------
(* start()                                                                 *)

\* The row is read, and a standby process is ready.
StartRead(e, s) ==
    /\ proc[e].main = "down"
    /\ Disturbable
    /\ proc' = [proc EXCEPT ![e] = [Down EXCEPT
                  !.main = IF s = "standby" THEN "loop" ELSE "starting",
                  !.loops = (s = "active"), !.configured = s, !.seen = row, !.since = clock]]
    /\ UNCHANGED <<clock, row, orphans>>

\* The controller holds an activation, and its heartbeat thread starts.
Started(p, act) ==
    [p EXCEPT !.main = "loop", !.seen = NoRow, !.since = 0, !.act = act,
              !.beater = "waiting", !.wake = clock + RoleBeatSeconds]

StartActive(e) ==
    /\ proc[e].main = "starting" /\ proc[e].configured = "active"
    /\ IF MayActivate(e)
       THEN /\ row' = ActiveRow(e, proc[e].since)
            /\ proc' = [proc EXCEPT ![e] = Started(@, ActiveRow(e, proc[e].since))]
       ELSE /\ proc' = [proc EXCEPT ![e] = Down]
            /\ UNCHANGED row
    /\ UNCHANGED <<clock, orphans>>

\* A process started to drain takes over the live lease of its predecessor.  Of
\* a standby row the check asks nothing: the process keeps it and goes on, with
\* no lease.
StartDraining(e) ==
    /\ proc[e].main = "starting" /\ proc[e].configured = "draining"
    /\ LET seen == proc[e].seen IN
       proc' = [proc EXCEPT ![e] =
                  IF HasLease(seen) /\ ~(seen.owner = e /\ IsLive(seen, proc[e].since)) THEN Down
                  ELSE IF seen.state # "active" THEN Started(@, seen)
                  ELSE [@ EXCEPT !.main = "adopting",
                                 !.call = [op |-> "drain", act |-> seen, now |-> proc[e].since]]]
    /\ UNCHANGED <<clock, row, orphans>>

Adopted(e) ==
    /\ proc[e].main = "adopting"
    /\ Execute(proc[e].call)
    /\ proc' = [proc EXCEPT ![e] =
                  IF Matches(proc[e].call) THEN Started([@ EXCEPT !.call = NoCall], Written(proc[e].call))
                  ELSE Down]
    /\ UNCHANGED <<clock, orphans>>
-----------------------------------------------------------------------------
(* heartbeat_once, begin_draining, resume_active and release: the lock is   *)
(* taken, the statement sent, and the lock released with its answer.       *)

\* There is an activation to renew, drain, resume or release.
Holds(e) == proc[e].act # NoRow /\ ~proc[e].lost

\* The handler returns: a stop also tells the executor loop to end.
Returned(p) == [p EXCEPT !.handler = "none", !.stop = @ \/ p.handler = "stop"]

\* The thread that sent the statement goes on with its answer.
Answered(p, act) ==
    LET q == [p EXCEPT !.lock = "free", !.call = NoCall, !.act = act, !.lost = (act = NoRow)] IN
    CASE p.lock = "beater"  -> [q EXCEPT !.beater = IF act = NoRow THEN "ended" ELSE "waiting",
                                         !.wake = clock + RoleBeatSeconds]
      [] p.lock = "handler" -> [Returned(q) EXCEPT
                                  !.configured = IF act = NoRow THEN @ ELSE act.state]
      [] p.lock = "main"    -> Down

\* The thread takes the lock and sends a statement about the activation held.  A
\* standby row is refused before anything is sent.
Send(e, thread, op) ==
    proc' = [proc EXCEPT ![e] =
               LET p == [@ EXCEPT !.lock = thread] IN
               IF HasLease(p.act)
               THEN [p EXCEPT !.call = [op |-> op, act |-> p.act, now |-> clock]]
               ELSE Answered(p, NoRow)]

\* The heartbeat thread wakes; it ends when the lease is lost.
Beat(e) ==
    /\ proc[e].beater = "waiting" /\ clock >= proc[e].wake
    /\ proc[e].main # "closing"
    /\ proc[e].lock = "free"
    /\ IF Holds(e) THEN Send(e, "beater", "heartbeat")
                   ELSE proc' = [proc EXCEPT ![e].beater = "ended"]
    /\ UNCHANGED <<clock, row, orphans>>

\* SIGUSR1, SIGUSR2, or SIGTERM, at any point of the main thread's loop.
Signal(e, s) ==
    /\ proc[e].main \in {"loop", "guard"}
    /\ proc[e].handler = "none" /\ ~proc[e].stop
    /\ Disturbable
    /\ proc' = [proc EXCEPT ![e].handler = s]
    /\ UNCHANGED <<clock, row, orphans>>

Target(s) == IF s = "resume" THEN "active" ELSE "draining"

\* The handler takes the lock and sends its statement, or has nothing to do.
Handle(e) ==
    /\ proc[e].handler # "none" /\ proc[e].lock = "free"
    /\ LET target == Target(proc[e].handler) IN
       IF Holds(e) /\ proc[e].act.state # target
       THEN Send(e, "handler", IF target = "active" THEN "resume" ELSE "drain")
       ELSE proc' = [proc EXCEPT ![e] = [Returned(proc[e]) EXCEPT
                       !.configured = IF Holds(e) /\ target = "active" THEN "active"
                                      ELSE proc[e].configured]]
    /\ UNCHANGED <<clock, row, orphans>>

Answer(e) ==
    /\ proc[e].call # NoCall /\ proc[e].lock # "free"
    /\ Execute(proc[e].call)
    /\ proc' = [proc EXCEPT ![e] = Answered(@, IF Matches(@.call) THEN Written(@.call) ELSE NoRow)]
    /\ UNCHANGED <<clock, orphans>>

\* The statement fails with a database error, committed or not.  The heartbeat
\* thread dies of it, the SIGUSR handlers swallow it, the SIGTERM handler throws
\* it into the main thread, and start() and close() end with it.
StatementErrs(e) ==
    /\ DatabaseMayFail /\ proc[e].call # NoCall /\ Disturbable
    /\ Execute(proc[e].call) \/ UNCHANGED row
    /\ LET p == [proc[e] EXCEPT !.lock = "free", !.call = NoCall] IN
       proc' = [proc EXCEPT ![e] =
                  CASE proc[e].lock = "beater" -> [p EXCEPT !.beater = "ended"]
                    [] proc[e].lock = "handler" ->
                         [p EXCEPT !.handler = "none",
                                   !.main = IF proc[e].handler = "stop" THEN "closing" ELSE @]
                    [] OTHER -> Down]
    /\ UNCHANGED <<clock, orphans>>
-----------------------------------------------------------------------------
(* The main thread: can_claim in the executor loop, then close().           *)

\* can_claim, and check_ready in it, each take the lock to look at the
\* controller's fields.  What they answer is ClaimGuard of module RunExecutor.
Guard(e) ==
    /\ OnMain(e, "loop") /\ ~proc[e].stop /\ proc[e].lock = "free"
    /\ proc[e].loops
    /\ proc' = [proc EXCEPT ![e].main = "guard", ![e].lock = "main"]
    /\ UNCHANGED <<clock, row, orphans>>

Guarded(e) ==
    /\ OnMain(e, "guard")
    /\ proc' = [proc EXCEPT ![e].main = "loop", ![e].lock = "free"]
    /\ UNCHANGED <<clock, row, orphans>>

\* The loop ends, and the handlers are restored before close().
Close(e) ==
    /\ OnMain(e, "loop") /\ proc[e].stop
    /\ proc' = [proc EXCEPT ![e].main = "closing"]
    /\ UNCHANGED <<clock, row, orphans>>

Release(e) ==
    /\ OnMain(e, "closing") /\ proc[e].lock = "free"
    /\ IF proc[e].act # NoRow THEN Send(e, "main", "release")
       ELSE proc' = [proc EXCEPT ![e] = Down]
    /\ UNCHANGED <<clock, row, orphans>>
-----------------------------------------------------------------------------
(* Death of a process, and time.                                            *)

\* A statement already sent is executed or not, whenever it arrives.  Bound: one
\* such statement at a time.
Crash(e) ==
    /\ proc[e].main # "down" /\ Disturbable
    /\ orphans = {}
    /\ orphans' = orphans \cup ({proc[e].call} \ {NoCall})
    /\ proc' = [proc EXCEPT ![e] = Down]
    /\ UNCHANGED <<clock, row>>

OrphanArrives(c) ==
    /\ Execute(c) \/ UNCHANGED row
    /\ orphans' = orphans \ {c}
    /\ UNCHANGED <<clock, proc>>

\* The main thread waits in a handler for the lock it holds itself.
Stuck(e) == proc[e].handler # "none" /\ proc[e].lock = "main"

Tick ==
    /\ clock < MaxClock
    /\ Timely => \A e \in Executors :
         /\ proc[e].call = NoCall /\ proc[e].main # "starting"
         /\ proc[e].beater = "waiting" /\ clock >= proc[e].wake /\ proc[e].main # "closing"
            => Stuck(e)
    /\ clock' = clock + 1
    /\ UNCHANGED <<row, proc, orphans>>
-----------------------------------------------------------------------------
Controller(e) ==
    \/ StartActive(e) \/ StartDraining(e) \/ Adopted(e)
    \/ Beat(e) \/ Handle(e) \/ Answer(e)
    \/ Guard(e) \/ Guarded(e) \/ Close(e) \/ Release(e)

Environment(e) ==
    \/ \E s \in Configured : StartRead(e, s)
    \/ \E s \in {"drain", "resume", "stop"} : Signal(e, s)
    \/ StatementErrs(e) \/ Crash(e)

LeaseNext ==
    \/ \E e \in Executors : Controller(e) \/ Environment(e)
    \/ \E c \in orphans : OrphanArrives(c)
    \/ Tick

LeaseSpec == LeaseInit /\ [][LeaseNext]_vars

\* The threads of a process run; PostgreSQL answers.
FairLeaseSpec == LeaseSpec /\ \A e \in Executors : WF_vars(Controller(e))
-----------------------------------------------------------------------------
(* Properties.                                                             *)

\* The row behaves as the run queue relies on: a live role never changes hands
\* without its owner's release, also when statements of dead processes, late
\* renewals and drains of expired leases arrive.
Role == INSTANCE RoleRow WITH
    Owners <- Executors, NoOwner <- NoExecutor,
    role <- [owner |-> row.owner, state |-> row.state, live |-> IsLive(row, clock)]

ImplementsRoleRow == Role!Spec

\* The activation r is owned, and was written with a clock reading of at most
\* "now" and exactly one lease length.
Dated(r, now) ==
    r.state # "standby" /\ r.beat <= now /\ r.expiry = r.beat + RoleLeaseSeconds

\* What every compare-and-set sends.
Sound(c, now) ==
    /\ Dated(c.act, c.now) /\ c.now <= now
    /\ c.op = "drain" => c.act.state = "active"
    /\ c.op = "resume" => c.act.state = "draining"

\* Every lease of a compare-and-set, held, read by start(), sent or outliving its
\* process, was written no later than the reading it is used with: no renewal
\* can shorten a lease or make it longer than one lease length.
TokensDated ==
    /\ HasLease(row) => Dated(row, clock)
    /\ \A c \in orphans : Sound(c, clock)
    /\ \A e \in Executors :
         /\ HasLease(proc[e].act) => Dated(proc[e].act, clock)
         /\ proc[e].call = NoCall \/ Sound(proc[e].call, clock)
         /\ proc[e].main = "starting" =>
              /\ proc[e].since <= clock /\ proc[e].seen # NoRow
              /\ HasLease(proc[e].seen) => Dated(proc[e].seen, proc[e].since)

\* No two processes hold a lease of the same epoch, so that the epoch of a claim
\* names one process.  A standby row kept by a process started to drain has the
\* epoch of a lease that was released, and is no lease.
EpochsUnique ==
    \A e, f \in Executors :
      /\ HasLease(proc[e].act) /\ HasLease(proc[f].act)
      /\ proc[e].act.epoch = proc[f].act.epoch
      => e = f

\* "Install Linux deployment drain/resume controls without stopping the
\* process": a handler that was entered returns.
SignalsReturn ==
    \A e \in Executors : proc[e].handler # "none" ~> proc[e].handler = "none"
=============================================================================
