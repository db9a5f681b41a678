--------------------------- MODULE LoadTestRunner ---------------------------
(***************************************************************************)
(* The load test runner, a service of its own: it keeps one active task,   *)
(* drives it through reset, load, collection and a verdict in a goroutine  *)
(* with a hard deadline, owns the wrk2 child process, publishes numbered   *)
(* events to the pages that follow the task, and writes a snapshot of all  *)
(* tasks to disk under its lock. Handlers stop a task, delete the hot key  *)
(* of a running breakdown task and stream events.                          *)
(*                                                                         *)
(* One step is one section under Runner.mu, one call to the application or *)
(* one operation on the child process.                                     *)
(***************************************************************************)
EXTENDS Integers, Sequences, FiniteSets

CONSTANTS
  Tasks,       \* task ids
  Experiments, \* the experiments that are started
  Evictors,    \* requests to delete the hot key
  Pages,       \* pages that follow a task over SSE
  Window,      \* capacity of a subscriber's channel (32)
  MaxStored,   \* maxStoredTasks (24)
  MaxTicks,    \* bound: samples taken while the load runs, per task
  MaxFaults,   \* bound: failed snapshots, lost answers, broken streams
  MaxCrashes,  \* bound: restarts of the runner
  None         \* no task

ASSUME TasksAssumption       == None \notin Tasks
ASSUME ExperimentsAssumption ==
  Experiments \subseteq {"read", "burst", "breakdown", "penetration"}
ASSUME BoundsAssumption      ==
  /\ Window \in Nat \ {0} /\ MaxStored \in Nat \ {0}
  /\ MaxTicks \in Nat /\ MaxFaults \in Nat /\ MaxCrashes \in Nat

Active   == {"starting", "resetting", "running", "collecting"}
Terminal == {"completed", "failed", "stopped"}

\* The experiments that open a scope of their own at the application.
Scoped == {"breakdown", "penetration"}

\* What the application's meters say of the round: "plain" for experiments
\* without a hot key, else how far the hot key has come.
Phases == {"none", "plain", "warm", "hot", "evicted", "rebuilt", "stable"}

VARIABLES
  rec,     \* records: experiment, status, metrics and events of each task
  order,   \* ids from the oldest to the newest
  active,  \* activeID
  mem,     \* fields of a record that are not persisted
  disk,    \* the snapshot file
  run,     \* runTask: its step, the sample in hand and the planned end
  ctx,     \* the task's context: live, stopped or expired
  wrk,     \* the wrk2 child process of each task
  app,     \* the application's side of each task
  stopper, \* a Stop request
  evictor, \* EvictCache requests
  page,    \* SSE streams and what their pages have seen
  spent,   \* bounds: samples, faults and crashes so far
  lost     \* history: answers to a DEL that did not arrive, per task

tasks    == <<rec, order, active, mem, disk>>
handlers == <<stopper, evictor>>
vars     == <<tasks, run, ctx, wrk, app, handlers, page, spent, lost>>

Blank == [exp |-> None, status |-> "none", metrics |-> "none", events |-> <<>>]
Plain == [evicting |-> FALSE, evicted |-> FALSE, token |-> FALSE]
Asleep == [pc |-> "idle", snap |-> "none", plan |-> "none"]
Closed == [pc |-> "closed", task |-> None, queue |-> <<>>, seen |-> {}, last |-> 0,
           gap |-> FALSE]

Init ==
  /\ rec = [t \in Tasks |-> Blank]
  /\ order = <<>>
  /\ active = None
  /\ mem = [t \in Tasks |-> Plain]
  /\ disk = [order |-> <<>>, rec |-> [t \in Tasks |-> Blank]]
  /\ run = [t \in Tasks |-> Asleep]
  /\ ctx = [t \in Tasks |-> "live"]
  /\ wrk = [t \in Tasks |-> "none"]
  /\ app = [t \in Tasks |-> [phase |-> "none", scope |-> FALSE, dels |-> 0]]
  /\ stopper = [pc |-> "idle", task |-> None]
  /\ evictor = [e \in Evictors |-> [pc |-> "idle", task |-> None]]
  /\ page = [p \in Pages |-> Closed]
  /\ spent = [tick |-> [t \in Tasks |-> 0], fault |-> 0, crash |-> 0]
  /\ lost = [t \in Tasks |-> 0]

Known(t) == rec[t].status \in Active \cup Terminal

-----------------------------------------------------------------------------
(* Helpers that run under the lock                                         *)

ValidTransition(current, next) ==
  \/ next \in {"failed", "stopped"} /\ current \in Active
  \/ <<current, next>> \in {<<"starting", "resetting">>, <<"resetting", "running">>,
                            <<"running", "collecting">>, <<"collecting", "completed">>}

\* The record after events of these types: each carries the status it was
\* published under.
Published(r, types) ==
  [r EXCEPT !.events = @ \o [i \in 1 .. Len(types) |->
                               [type |-> types[i], end |-> r.status \in Terminal]]]

\* A subscriber's channel takes the new events it has room for.
Offer(q, t, old) ==
  LET fresh == [i \in 1 .. Len(rec'[t].events) - old |->
                  [id |-> old + i, end |-> rec'[t].events[old + i].end]]
      room  == IF Len(fresh) < Window - Len(q.queue) THEN Len(fresh) ELSE Window - Len(q.queue)
  IN [q EXCEPT !.queue = @ \o SubSeq(fresh, 1, room), !.gap = @ \/ room < Len(fresh)]

Broadcast(t) ==
  page' = [p \in Pages |-> IF page[p].task = t /\ page[p].pc # "closed"
                           THEN Offer(page[p], t, Len(rec[t].events)) ELSE page[p]]

\* The snapshot is written whole or, when a file operation fails, not at all.
Persist ==
  \/ /\ disk' = [order |-> order', rec |-> rec']
     /\ UNCHANGED spent
  \/ /\ spent.fault < MaxFaults
     /\ spent' = [spent EXCEPT !.fault = @ + 1]
     /\ UNCHANGED disk

\* One section under the lock that changes the record of t, tells the
\* subscribers and saves.
Save(t, r) ==
  /\ rec' = [rec EXCEPT ![t] = r]
  /\ UNCHANGED order
  /\ Broadcast(t)
  /\ Persist

Goto(t, pc) == run' = [run EXCEPT ![t].pc = pc]
Plan(t, end) ==
  run' = [run EXCEPT ![t].pc = IF mem[t].token THEN "cleanup" ELSE "finish", ![t].plan = end]

\* finishContextEnd: the deadline is a failure, Stop is not.
ContextEnd(t) == IF ctx[t] = "expired" THEN "failed" ELSE "stopped"

-----------------------------------------------------------------------------
(* Start                                                                   *)

\* Weakened: a stopped task frees the slot before its goroutine has ended.
FreeOnceStopped == active # None => rec[active].status \notin Active \/ ctx[active] = "stopped"

Free == active # None => rec[active].status \notin Active

\* pruneLocked: one id too many at most, and the oldest may be active.
Pruned(ids) ==
  IF Len(ids) > MaxStored /\ rec[Head(ids)].status \notin Active THEN Head(ids) ELSE None

Start(t, x) ==
  /\ rec[t].status = "none"
  /\ Free
  /\ LET ids    == Append(order, t)
         victim == Pruned(ids)
         fresh  == Published([Blank EXCEPT !.exp = x, !.status = "starting"], <<"started">>)
     IN /\ order' = IF victim = None THEN ids ELSE Tail(ids)
        /\ rec' = [u \in Tasks |-> IF u = t THEN fresh
                                   ELSE IF u = victim THEN [Blank EXCEPT !.status = "gone"]
                                   ELSE rec[u]]
  /\ active' = t
  /\ mem' = [mem EXCEPT ![t].token = (x \in Scoped)]
  /\ run' = [run EXCEPT ![t].pc = "begin"]
  /\ Broadcast(t)
  /\ Persist
  /\ UNCHANGED <<ctx, wrk, app, handlers, lost>>

-----------------------------------------------------------------------------
(* The task's goroutine                                                    *)

Begin(t) ==
  /\ run[t].pc = "begin"
  /\ IF ValidTransition(rec[t].status, "resetting")
     THEN /\ Save(t, Published([rec[t] EXCEPT !.status = "resetting"], <<"log">>))
          /\ Goto(t, "reset")
     ELSE /\ Goto(t, "idle") /\ UNCHANGED <<rec, order, page, disk, spent>>
  /\ UNCHANGED <<active, mem, ctx, wrk, app, handlers, lost>>

\* resetExperiment: the application resets the lab, or prepares the keys and
\* opens the task's scope, which no other task may hold.
Prepare(t) ==
  /\ rec[t].exp \in Scoped => \A u \in Tasks : ~app[u].scope
  /\ app' = [app EXCEPT ![t].phase = IF rec[t].exp = "breakdown" THEN "warm" ELSE "plain",
                        ![t].scope = (rec[t].exp \in Scoped)]

\* What the answer says of the key and the reset event are saved together.
Reset(t) ==
  /\ run[t].pc = "reset"
  /\ ctx[t] = "live"
  /\ Prepare(t)
  /\ Save(t, Published([rec[t] EXCEPT !.metrics = IF rec[t].exp = "breakdown" THEN "warm" ELSE @],
                       <<"reset">>))
  /\ Goto(t, "launch")
  /\ UNCHANGED <<active, mem, ctx, wrk, handlers, lost>>

\* The call failed, whether the application did the work or not.
ResetFails(t) ==
  /\ run[t].pc = "reset"
  /\ Prepare(t) \/ UNCHANGED app
  /\ Plan(t, IF ctx[t] = "live" THEN "failed" ELSE ContextEnd(t))
  /\ UNCHANGED <<tasks, ctx, wrk, handlers, page, spent, lost>>

\* command.Start: from here to MarkRunning the child runs under a task that
\* is still resetting.
Spawn(t) ==
  /\ run[t].pc = "launch" /\ rec[t].exp # "burst"
  /\ wrk' = [wrk EXCEPT ![t] = "alive"]
  /\ Goto(t, "started")
  /\ UNCHANGED <<tasks, ctx, app, handlers, page, spent, lost>>

\* command.Start failed, or the baseline of a burst could not be read or is
\* not the expected one.
LaunchFails(t) ==
  /\ run[t].pc = "launch"
  /\ Plan(t, IF ctx[t] = "live" \/ rec[t].exp = "burst" THEN "failed" ELSE ContextEnd(t))
  /\ UNCHANGED <<tasks, ctx, wrk, app, handlers, page, spent, lost>>

\* runTask sets the status without asking ValidTransition.
MarkRunning(t) ==
  /\ run[t].pc = "started"
  /\ Save(t, Published([rec[t] EXCEPT !.status = "running"], <<"launched">>))
  /\ Goto(t, "loop")
  /\ UNCHANGED <<active, mem, ctx, wrk, app, handlers, lost>>

\* runStockBurst: the requests are goroutines of the runner.
MarkBurstRunning(t) ==
  /\ run[t].pc = "launch" /\ rec[t].exp = "burst"
  /\ ctx[t] = "live"
  /\ IF ValidTransition(rec[t].status, "running")
     THEN /\ Save(t, Published([rec[t] EXCEPT !.status = "running"], <<"launched">>))
          /\ Goto(t, "loop")
     ELSE /\ Goto(t, "idle") /\ UNCHANGED <<rec, order, page, disk, spent>>
  /\ UNCHANGED <<active, mem, ctx, wrk, app, handlers, lost>>

\* The loop's ticker: fetchAppMetrics reads the application's meters.
Sample(t) ==
  /\ run[t].pc = "loop"
  /\ ctx[t] = "live"
  /\ spent.tick[t] < MaxTicks
  /\ spent' = [spent EXCEPT !.tick[t] = @ + 1]
  /\ run' = [run EXCEPT ![t].pc = "tick", ![t].snap = app[t].phase]
  /\ UNCHANGED <<tasks, ctx, wrk, app, handlers, page, lost>>

\* updateProgress, and the milestones of the breakdown experiment once each.
Milestones(t) ==
  LET seen(type) == \E i \in DOMAIN rec[t].events : rec[t].events[i].type = type
      phase      == run[t].snap
  IN (IF phase \in {"rebuilt", "stable"} /\ ~seen("rebuilt") THEN <<"rebuilt">> ELSE <<>>)
     \o (IF phase = "stable" /\ ~seen("recovered") THEN <<"recovered">> ELSE <<>>)

Progress(t) ==
  /\ run[t].pc = "tick"
  /\ rec[t].status = "running"
  /\ Save(t, Published([rec[t] EXCEPT !.metrics = run[t].snap],
                       <<"progress", "metric">> \o Milestones(t)))
  /\ Goto(t, "loop")
  /\ UNCHANGED <<active, mem, ctx, wrk, app, handlers, lost>>

\* Weakened: the child gets its signal and is not waited for.
CancelledUnreaped(t) ==
  /\ run[t].pc = "loop"
  /\ ctx[t] # "live"
  /\ Plan(t, ContextEnd(t))
  /\ UNCHANGED <<tasks, ctx, wrk, app, handlers, page, spent, lost>>

\* Weakened: the loop sees Stop and not the deadline.
CancelledByStop(t) ==
  /\ run[t].pc = "loop"
  /\ ctx[t] = "stopped"
  /\ wrk' = [wrk EXCEPT ![t] = IF @ = "none" THEN @ ELSE "reaped"]
  /\ Plan(t, ContextEnd(t))
  /\ UNCHANGED <<tasks, ctx, app, handlers, page, spent, lost>>

\* The context ended: the child is killed and waited for before the task ends.
Cancelled(t) ==
  /\ run[t].pc = "loop"
  /\ ctx[t] # "live"
  /\ wrk' = [wrk EXCEPT ![t] = IF @ = "none" THEN @ ELSE "reaped"]
  /\ Plan(t, ContextEnd(t))
  /\ UNCHANGED <<tasks, ctx, app, handlers, page, spent, lost>>

\* The child ends by itself.
Exit(t, how) ==
  /\ wrk[t] = "alive"
  /\ wrk' = [wrk EXCEPT ![t] = how]
  /\ UNCHANGED <<tasks, run, ctx, app, handlers, page, spent, lost>>

\* command.Wait returned. A burst is over when all its requests are answered.
Reap(t) ==
  /\ run[t].pc = "loop"
  /\ rec[t].exp = "burst" \/ wrk[t] \in {"exited", "broken"}
  /\ wrk' = [wrk EXCEPT ![t] = IF @ = "none" THEN @ ELSE "reaped"]
  /\ IF wrk[t] = "broken" THEN Plan(t, "failed") ELSE Goto(t, "collect")
  /\ UNCHANGED <<tasks, ctx, app, handlers, page, spent, lost>>

Collect(t) ==
  /\ run[t].pc = "collect"
  /\ IF ValidTransition(rec[t].status, "collecting")
     THEN /\ Save(t, Published([rec[t] EXCEPT !.status = "collecting"], <<"log">>))
          /\ IF ctx[t] = "live" \/ rec[t].exp = "burst" THEN Goto(t, "gather")
             ELSE Plan(t, ContextEnd(t))
     ELSE /\ Goto(t, "idle") /\ UNCHANGED <<rec, order, page, disk, spent>>
  /\ UNCHANGED <<active, mem, ctx, wrk, app, handlers, lost>>

\* The last sample has the evidence the experiment asks for.
Evidence(t) == rec[t].exp = "breakdown" => app[t].phase = "stable"

Gather(t) ==
  /\ run[t].pc = "gather"
  /\ ctx[t] = "live"
  /\ Evidence(t)
  /\ Save(t, [rec[t] EXCEPT !.metrics = app[t].phase])
  /\ Plan(t, "completed")
  /\ UNCHANGED <<active, mem, ctx, wrk, app, handlers, lost>>

\* The sample failed, is incomplete or wrk2's report is. Only a burst asks
\* whether it was the context that ended.
GatherFails(t) ==
  /\ run[t].pc = "gather"
  /\ Plan(t, IF rec[t].exp = "burst" /\ ctx[t] # "live" THEN ContextEnd(t) ELSE "failed")
  /\ UNCHANGED <<tasks, ctx, wrk, app, handlers, page, spent, lost>>

\* The scope is closed. The meters keep their last values for display; nobody
\* reads them again, so they are forgotten here.
Closing(t) == [app EXCEPT ![t].scope = FALSE, ![t].phase = "none"]

\* finishArchiveExperiment: the application closes the scope. The lock is not
\* held, and a failure turns a completed task into a failed one.
Cleanup(t) ==
  /\ run[t].pc = "cleanup"
  /\ \E answered, done \in BOOLEAN :
       /\ answered => done
       /\ app' = IF done THEN Closing(t) ELSE app
       /\ run' = [run EXCEPT ![t].pc = "finish",
                             ![t].plan = IF ~answered /\ @ = "completed" THEN "failed" ELSE @]
  /\ UNCHANGED <<tasks, ctx, wrk, handlers, page, spent, lost>>

Finish(t) ==
  /\ run[t].pc = "finish"
  /\ run' = [run EXCEPT ![t] = Asleep]
  /\ IF ValidTransition(rec[t].status, run[t].plan)
     THEN /\ Save(t, Published([rec[t] EXCEPT !.status = run[t].plan], <<"ended">>))
          /\ mem' = [mem EXCEPT ![t].token = FALSE]
          /\ active' = IF active = t THEN None ELSE active
     ELSE UNCHANGED <<tasks, page, spent>>
  /\ UNCHANGED <<ctx, wrk, app, handlers, lost>>

\* The hard timeout of the task's context.
Deadline(t) ==
  /\ run[t].pc # "idle"
  /\ ctx[t] = "live"
  /\ ctx' = [ctx EXCEPT ![t] = "expired"]
  /\ UNCHANGED <<tasks, run, wrk, app, handlers, page, spent, lost>>

\* The scope of a task that is over is forgotten after archiveExperimentLease,
\* 90 seconds: longer than any task runs.
LeaseExpires(t) ==
  /\ run[t].pc = "idle"
  /\ app[t].scope
  /\ app' = Closing(t)
  /\ UNCHANGED <<tasks, run, ctx, wrk, handlers, page, spent, lost>>

\* The application under load: the warm key is hit for a whole second, a
\* deleted key is built again, three seconds of hits make it stable.
KeyMoves(t) ==
  /\ app[t].scope
  /\ wrk[t] \in {"alive", "exited", "broken"}
  /\ \E move \in {<<"warm", "hot">>, <<"evicted", "rebuilt">>, <<"rebuilt", "stable">>} :
       /\ app[t].phase = move[1]
       /\ app' = [app EXCEPT ![t].phase = move[2]]
  /\ UNCHANGED <<tasks, run, ctx, wrk, handlers, page, spent, lost>>

-----------------------------------------------------------------------------
(* Stop                                                                    *)

StopAsk(t) ==
  /\ stopper.pc # "waiting"
  /\ Known(t)
  /\ IF rec[t].status \in Terminal
     THEN stopper' = [pc |-> "ok", task |-> t] /\ UNCHANGED ctx
     ELSE /\ stopper' = [pc |-> "waiting", task |-> t]
          /\ ctx' = [ctx EXCEPT ![t] = IF @ = "live" THEN "stopped" ELSE @]
  /\ UNCHANGED <<tasks, run, wrk, app, evictor, page, spent, lost>>

\* Weakened: Stop answers when it has cancelled the context.
StopAnsweredAtOnce ==
  /\ stopper.pc = "waiting"
  /\ stopper' = [stopper EXCEPT !.pc = IF Known(stopper.task) THEN "ok" ELSE "missing"]
  /\ UNCHANGED <<tasks, run, ctx, wrk, app, evictor, page, spent, lost>>

\* Done is closed when the task ends.
StopAnswered ==
  /\ stopper.pc = "waiting"
  /\ rec[stopper.task].status \notin Active
  /\ stopper' = [stopper EXCEPT !.pc = IF Known(stopper.task) THEN "ok" ELSE "missing"]
  /\ UNCHANGED <<tasks, run, ctx, wrk, app, evictor, page, spent, lost>>

StopTimeout ==
  /\ stopper.pc = "waiting"
  /\ stopper' = [stopper EXCEPT !.pc = "timeout"]
  /\ UNCHANGED <<tasks, run, ctx, wrk, app, evictor, page, spent, lost>>

-----------------------------------------------------------------------------
(* EvictCache                                                              *)

\* Weakened: a request under way does not keep the next one out.
EvictableTwice(t) ==
  /\ rec[t].exp = "breakdown" /\ rec[t].status = "running"
  /\ ~mem[t].evicted
  /\ rec[t].metrics = "hot"

Evictable(t) ==
  /\ rec[t].exp = "breakdown" /\ rec[t].status = "running"
  /\ ~mem[t].evicted /\ ~mem[t].evicting
  /\ rec[t].metrics = "hot"

EvictAsk(e, t) ==
  /\ evictor[e].pc = "idle"
  /\ Evictable(t)
  /\ mem' = [mem EXCEPT ![t].evicting = TRUE]
  /\ evictor' = [evictor EXCEPT ![e] = [pc |-> "calling", task |-> t]]
  /\ UNCHANGED <<rec, order, active, disk, run, ctx, wrk, app, stopper, page, spent, lost>>

\* EvictExperiment at the application: an open scope and a key to delete. The
\* answer arrives or is lost.
EvictCall(e) ==
  LET t == evictor[e].task
  IN /\ evictor[e].pc = "calling"
     /\ app[t].scope /\ app[t].phase # "evicted"
     /\ app' = [app EXCEPT ![t].phase = "evicted", ![t].dels = @ + 1]
     /\ \/ /\ evictor' = [evictor EXCEPT ![e].pc = "deleted"]
           /\ UNCHANGED <<spent, lost>>
        \/ /\ spent.fault < MaxFaults
           /\ spent' = [spent EXCEPT !.fault = @ + 1]
           /\ lost' = [lost EXCEPT ![t] = @ + 1]
           /\ evictor' = [evictor EXCEPT ![e].pc = "failed"]
     /\ UNCHANGED <<tasks, run, ctx, wrk, stopper, page>>

\* The application refuses, or the call does not reach it.
EvictRefused(e) ==
  /\ evictor[e].pc = "calling"
  /\ evictor' = [evictor EXCEPT ![e].pc = "failed"]
  /\ UNCHANGED <<tasks, run, ctx, wrk, app, stopper, page, spent, lost>>

EvictFailed(e) ==
  /\ evictor[e].pc = "failed"
  /\ mem' = [mem EXCEPT ![evictor[e].task].evicting = FALSE]
  /\ evictor' = [evictor EXCEPT ![e].pc = "idle"]
  /\ UNCHANGED <<rec, order, active, disk, run, ctx, wrk, app, stopper, page, spent, lost>>

\* The second section under the lock asks only whether the record is there.
EvictDone(e) ==
  LET t == evictor[e].task
  IN /\ evictor[e].pc = "deleted"
     /\ evictor' = [evictor EXCEPT ![e].pc = "idle"]
     /\ IF Known(t)
        THEN /\ Save(t, Published([rec[t] EXCEPT !.metrics = "evicted"], <<"evicted">>))
             /\ mem' = [mem EXCEPT ![t].evicting = FALSE, ![t].evicted = TRUE]
        ELSE UNCHANGED <<rec, order, mem, disk, page, spent>>
     /\ UNCHANGED <<active, run, ctx, wrk, app, stopper, lost>>

-----------------------------------------------------------------------------
(* Event streams                                                           *)

\* A page follows one task and is done when it has seen the task's end.
Follows(p, t) == page[p].task \in {None, t} /\ ~\E i \in page[p].seen :
                   i \in DOMAIN rec[t].events /\ rec[t].events[i].end

\* Weakened: the replay starts one event late.
SubscribeLate(p, t) ==
  /\ page[p].pc = "closed"
  /\ Known(t)
  /\ Follows(p, t)
  /\ LET n == Len(rec[t].events)
     IN page' = [page EXCEPT ![p].pc = "replayed", ![p].task = t, ![p].queue = <<>>,
                              ![p].seen = @ \cup (page[p].last + 2 .. n),
                              ![p].last = IF @ < n THEN n ELSE @]
  /\ UNCHANGED <<tasks, run, ctx, wrk, app, handlers, spent, lost>>

\* Weakened: a page gets live events and no replay.
SubscribeLive(p, t) ==
  /\ page[p].pc = "closed"
  /\ Known(t)
  /\ Follows(p, t)
  /\ page' = [page EXCEPT ![p].pc = "replayed", ![p].task = t, ![p].queue = <<>>]
  /\ UNCHANGED <<tasks, run, ctx, wrk, app, handlers, spent, lost>>

\* Subscribe: the stored events after Last-Event-ID are replayed, later ones
\* go to the channel, from the same section under the lock.
Subscribe(p, t) ==
  /\ page[p].pc = "closed"
  /\ Known(t)
  /\ Follows(p, t)
  /\ LET n == Len(rec[t].events)
     IN page' = [page EXCEPT ![p].pc = "replayed", ![p].task = t, ![p].queue = <<>>,
                              ![p].seen = @ \cup (page[p].last + 1 .. n),
                              ![p].last = IF @ < n THEN n ELSE @]
  /\ UNCHANGED <<tasks, run, ctx, wrk, app, handlers, spent, lost>>

\* streamEvents asks once more whether the task has ended, and hangs up if so.
AfterReplay(p) ==
  /\ page[p].pc = "replayed"
  /\ page' = [page EXCEPT ![p].pc = IF rec[page[p].task].status \in Terminal
                                    THEN "closed" ELSE "streaming"]
  /\ UNCHANGED <<tasks, run, ctx, wrk, app, handlers, spent, lost>>

Deliver(p) ==
  /\ page[p].pc = "streaming"
  /\ page[p].queue # <<>>
  /\ LET event == Head(page[p].queue)
     IN page' = [page EXCEPT ![p].queue = Tail(@),
                              ![p].seen = @ \cup {event.id},
                              ![p].last = event.id,
                              ![p].pc = IF event.end THEN "closed" ELSE @]
  /\ UNCHANGED <<tasks, run, ctx, wrk, app, handlers, spent, lost>>

Disconnect(p) ==
  /\ page[p].pc # "closed"
  /\ spent.fault < MaxFaults
  /\ spent' = [spent EXCEPT !.fault = @ + 1]
  /\ page' = [page EXCEPT ![p].pc = "closed"]
  /\ UNCHANGED <<tasks, run, ctx, wrk, app, handlers, lost>>

-----------------------------------------------------------------------------
(* Restart                                                                 *)

\* Weakened: a restart fails every task, ended or not.
LoadedAll(r) ==
  IF r.status # "gone" THEN Published([r EXCEPT !.status = "failed"], <<"ended">>) ELSE r

\* loadState: what was active when the snapshot was written has failed.
Loaded(r) ==
  IF r.status \in Active THEN Published([r EXCEPT !.status = "failed"], <<"ended">>) ELSE r

\* The runner and its child are gone; it starts again from the snapshot. A
\* page has a gap when its Last-Event-ID is past the events on disk.
Restart ==
  /\ spent.crash < MaxCrashes
  /\ order' = disk.order
  /\ rec' = [t \in Tasks |-> IF disk.rec[t].status # "none" THEN Loaded(disk.rec[t])
                             ELSE IF rec[t].status # "none" THEN [Blank EXCEPT !.status = "gone"]
                             ELSE Blank]
  /\ \/ disk' = [order |-> order', rec |-> rec'] /\ spent' = [spent EXCEPT !.crash = @ + 1]
     \/ /\ spent.fault < MaxFaults
        /\ spent' = [spent EXCEPT !.crash = @ + 1, !.fault = @ + 1]
        /\ UNCHANGED disk
  /\ active' = None
  /\ mem' = [t \in Tasks |-> Plain]
  /\ run' = [t \in Tasks |-> Asleep]
  /\ ctx' = [t \in Tasks |-> "live"]
  /\ wrk' = [t \in Tasks |-> "none"]
  /\ stopper' = [pc |-> "idle", task |-> None]
  /\ evictor' = [e \in Evictors |-> [pc |-> "idle", task |-> None]]
  /\ page' = [p \in Pages |->
               IF page[p].task = None THEN page[p]
               ELSE [page[p] EXCEPT !.pc = "closed", !.queue = <<>>,
                       !.gap = @ \/ page[p].last > Len(disk.rec[page[p].task].events)]]
  /\ UNCHANGED <<app, lost>>

-----------------------------------------------------------------------------
RunTask(t) ==
  \/ Begin(t) \/ Reset(t) \/ ResetFails(t) \/ Spawn(t) \/ LaunchFails(t)
  \/ MarkRunning(t) \/ MarkBurstRunning(t) \/ Sample(t) \/ Progress(t)
  \/ Cancelled(t) \/ Reap(t) \/ Collect(t) \/ Gather(t) \/ GatherFails(t)
  \/ Cleanup(t) \/ Finish(t)

Environment(t) ==
  \/ Deadline(t) \/ KeyMoves(t) \/ LeaseExpires(t)
  \/ \E how \in {"exited", "broken"} : Exit(t, how)

Stop == StopAnswered \/ StopTimeout \/ \E t \in Tasks : StopAsk(t)

EvictCache(e) ==
  \/ EvictCall(e) \/ EvictRefused(e) \/ EvictFailed(e) \/ EvictDone(e)
  \/ \E t \in Tasks : EvictAsk(e, t)

Stream(p) == AfterReplay(p) \/ Deliver(p) \/ Disconnect(p) \/ \E t \in Tasks : Subscribe(p, t)

Next ==
  \/ \E t \in Tasks, x \in Experiments : Start(t, x)
  \/ \E t \in Tasks : RunTask(t) \/ Environment(t)
  \/ Stop
  \/ \E e \in Evictors : EvictCache(e)
  \/ \E p \in Pages : Stream(p)
  \/ Restart

Spec == Init /\ [][Next]_vars

\* The goroutine is scheduled, its calls return and its context has a deadline;
\* nothing makes wrk2 exit. A page reads its stream and EventSource connects
\* again.
Fairness ==
  /\ \A t \in Tasks : WF_vars(RunTask(t)) /\ WF_vars(Cancelled(t)) /\ WF_vars(Deadline(t))
  /\ \A p \in Pages : WF_vars(AfterReplay(p) \/ Deliver(p) \/ \E t \in Tasks : Subscribe(p, t))

FairSpec == Spec /\ Fairness

-----------------------------------------------------------------------------
(* Properties                                                              *)

EventTypes == {"started", "log", "reset", "launched", "progress", "metric", "rebuilt",
               "recovered", "evicted", "ended"}
Record == [exp : Experiments \cup {None}, status : Active \cup Terminal \cup {"none", "gone"},
           metrics : Phases, events : Seq([type : EventTypes, end : BOOLEAN])]

\* Every variable has its type: the records, the goroutines, the child
\* processes and the handlers of Runner.
TypeOK ==
  /\ rec \in [Tasks -> Record]
  /\ order \in Seq(Tasks)
  /\ active \in Tasks \cup {None}
  /\ mem \in [Tasks -> [evicting : BOOLEAN, evicted : BOOLEAN, token : BOOLEAN]]
  /\ disk \in [order : Seq(Tasks), rec : [Tasks -> Record]]
  /\ run \in [Tasks -> [pc : {"idle", "begin", "reset", "launch", "started", "loop", "tick",
                              "collect", "gather", "cleanup", "finish"},
                        snap : Phases, plan : Terminal \cup {"none"}]]
  /\ ctx \in [Tasks -> {"live", "stopped", "expired"}]
  /\ wrk \in [Tasks -> {"none", "alive", "exited", "broken", "reaped"}]
  /\ app \in [Tasks -> [phase : Phases, scope : BOOLEAN, dels : Nat]]
  /\ stopper \in [pc : {"idle", "waiting", "ok", "missing", "timeout"}, task : Tasks \cup {None}]
  /\ evictor \in [Evictors -> [pc : {"idle", "calling", "deleted", "failed"},
                               task : Tasks \cup {None}]]
  /\ page \in [Pages -> [pc : {"closed", "replayed", "streaming"}, task : Tasks \cup {None},
                         queue : Seq([id : Nat, end : BOOLEAN]), seen : SUBSET Nat, last : Nat,
                         gap : BOOLEAN]]
  /\ spent \in [tick : [Tasks -> Nat], fault : Nat, crash : Nat]
  /\ lost \in [Tasks -> Nat]

\* At most one task is under way, whatever the order of Start, Stop, the
\* deadline and restarts: a task that has not ended is the one activeID names,
\* and a goroutine at work has such a task.
OneActiveTask ==
  \A t \in Tasks : rec[t].status \in Active \/ run[t].pc # "idle" =>
                     active = t /\ rec[t].status \in Active

\* A wrk2 process that has not been waited for belongs to the active task: no
\* end of a task, by Stop, deadline, error or success, leaves its child behind,
\* and no second child runs beside it.
ChildHasItsTask ==
  \A t \in Tasks : wrk[t] \in {"alive", "exited", "broken"} =>
                     active = t /\ rec[t].status \in Active

\* When Stop answers with the task, the task has ended, its child has been
\* reaped and the runner is not busy with it.
StoppedMeansOver ==
  stopper.pc = "ok" => /\ rec[stopper.task].status \notin Active
                       /\ wrk[stopper.task] \in {"none", "reaped"}
                       /\ active # stopper.task

\* The hot key is deleted once per task, and once more at most for every answer
\* that was lost on its way back to EvictCache, however many requests race: a lost
\* answer leaves EvictCache with a sample from before the DEL.
EvictedOncePerAnswer == \A t \in Tasks : app[t].dels <= 1 + lost[t]

\* A connected page has, or has waiting in its channel, every event published.
ConnectedPageMissesNothing ==
  \A p \in Pages : page[p].pc # "closed" /\ ~page[p].gap /\ Known(page[p].task) =>
    page[p].seen \cup {page[p].queue[i].id : i \in DOMAIN page[p].queue}
      = 1 .. Len(rec[page[p].task].events)

\* An event waiting for a connected page is one it has not seen, and events
\* wait in the order of their ids.
DeliveredOnce ==
  \A p \in Pages : page[p].pc # "closed" /\ ~page[p].gap =>
    LET q == page[p].queue
    IN \A i \in DOMAIN q : q[i].id > IF i = 1 THEN page[p].last ELSE q[i - 1].id

\* Replay and live events neither leave a gap nor repeat one, in order, unless
\* the channel was full or a restart lost events the page had seen.
EachEventReachesThePage == ConnectedPageMissesNothing /\ DeliveredOnce

\* A status moves only along the documented machine: an ended task never comes
\* back and no stage is skipped, though the step to running does not ask. A
\* restart fails what was active on disk; only a snapshot that could not be
\* written lets it change what had ended.
StatusHistory ==
  [][\A t \in Tasks : rec'[t].status # rec[t].status =>
       \/ rec[t].status \in Active /\ rec'[t].status \in {"failed", "stopped"}
       \/ <<rec[t].status, rec'[t].status>> \in
            {<<"none", "starting">>, <<"starting", "resetting">>, <<"resetting", "running">>,
             <<"running", "collecting">>, <<"collecting", "completed">>}
       \/ rec[t].status \in Terminal /\ rec'[t].status = "gone" /\ order # order'
       \/ spent'.crash # spent.crash /\ disk.rec # rec]_vars

\* Every task ends, even if wrk2 never exits and nobody stops it.
EveryTaskEnds ==
  \A t \in Tasks : rec[t].status \in Active ~> rec[t].status \notin Active

\* A page that follows a task learns that it has ended, unless it has a gap or
\* the task has been pruned.
PageLearnsTheEnd ==
  \A p \in Pages, t \in Tasks :
    page[p].task = t /\ rec[t].status \in Terminal ~>
      \/ \E i \in page[p].seen : i \in DOMAIN rec[t].events /\ rec[t].events[i].end
      \/ page[p].gap \/ rec[t].status = "gone"
=============================================================================
