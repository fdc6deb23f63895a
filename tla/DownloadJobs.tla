----------------------------- MODULE DownloadJobs -----------------------------
(***************************************************************************)
(* The Setup Center's download jobs (server/scripts/download_jobs.py):     *)
(* a job table under one lock, and the workspaces on disk that its jobs    *)
(* own.  A builder thread per job, the HTTP threads that create, stream,   *)
(* cancel and poll jobs, the reaper and the shutdown meet in both.         *)
(*                                                                         *)
(* A step is one section under self.lock, or one piece of I/O outside it.  *)
(* Names, sizes, progress, phases and messages are left out; the deadline  *)
(* is whether READY + 30 minutes has passed.                               *)
(***************************************************************************)
EXTENDS Integers, FiniteSets, FiniteSetsExt

CONSTANTS
    Jobs,        \* job identifiers; one builder thread each
    Callers,     \* HTTP threads
    Reaper, Closer,
    MaxActive,   \* max_active
    MaxHistory,  \* MAX_HISTORY
    Slots,       \* initial value of build_slots
    MaxFaults    \* bound: builds, creations and removals that fail

ASSUME JobsAssumption ==
    /\ IsFiniteSet(Jobs) /\ Jobs \cap Callers = {} /\ Reaper # Closer
    /\ {Reaper, Closer} \cap (Jobs \cup Callers) = {}
    /\ MaxActive \in Nat /\ MaxHistory \in Nat /\ Slots \in Nat /\ MaxFaults \in Nat

VARIABLES
    jobs,    \* the table: one record per identifier
    dir,     \* the workspace on disk: "none", "marked" or "unmarked"
    closed,  \* self.closed
    slots,   \* build slots left
    pc, ctx, \* where each thread is, and its local variables
    masked,  \* history: a clean-up took another one's progress for its own success
    faults

vars == <<jobs, dir, closed, slots, pc, ctx, masked, faults>>

Threads  == Jobs \cup Callers \cup {Reaper, Closer}
RETAINED == {"ready", "delivered", "delivery-interrupted"}
CLEAN_TERMINAL == {"failed", "cancelled", "expired"}
Occupied == RETAINED \cup {"queued", "building", "delivering", "cleanup-pending", "cleaning"}
Status   == Occupied \cup CLEAN_TERMINAL \cup {"unborn", "trimmed"}

(* A cleanup_owned_temp to be done: the arguments of _finish_cleanup. *)
NoJob == "none"
Item  == [job : Jobs, work : {"", "set"}, target : CLEAN_TERMINAL]
Ctx   == [job : Jobs \cup {NoJob}, final : CLEAN_TERMINAL \cup RETAINED,
          work : {"", "set"}, todo : SUBSET Item, then : {"idle", "done", "begin", "reap"},
          req : Jobs \cup {NoJob}]

Fault   == faults > 0 /\ faults' = faults - 1
NoFault == UNCHANGED faults

Present(j)   == jobs[j].status \notin {"unborn", "trimmed"}
Goto(t, l)   == pc' = [pc EXCEPT ![t] = l]
Cancelled(j) == ~Present(j) \/ jobs[j].cancel = "yes" \/ closed = "yes"

(* self._update(job_id, status=...): nothing happens to a trimmed job. *)
Updated(j, s) == IF Present(j) THEN [jobs EXCEPT ![j].status = s] ELSE jobs

(* _trim_history_locked: the oldest clean terminal rows go while the table is
   too long.  Which ones are oldest is left open. *)
Trimmed(table) ==
    LET rows   == {j \in Jobs : table[j].status \notin {"unborn", "trimmed"}}
        old    == {j \in rows : table[j].status \in CLEAN_TERMINAL /\ table[j].work = ""}
        excess == Cardinality(rows) - MaxHistory
        n      == IF excess <= Cardinality(old) THEN excess ELSE Cardinality(old)
    IN  IF excess <= 0 THEN {table}
        ELSE {[j \in Jobs |-> IF j \in gone THEN [table[j] EXCEPT !.status = "trimmed"]
                                            ELSE table[j]] : gone \in kSubset(n, old)}

(* A thread that returns keeps no local variables. *)
Local(t) == [job |-> IF t \in Jobs THEN t ELSE NoJob, final |-> "failed", work |-> "",
             todo |-> {}, then |-> IF t \in Jobs THEN "done" ELSE "idle", req |-> NoJob]

Return(t) == ctx' = [ctx EXCEPT ![t] = Local(t)] /\ Goto(t, Local(t).then)

(* Thread t starts on the first item of a list of clean-ups, or goes on to
   what it does after them. *)
Proceed(t, todo, then, req) ==
    IF todo # {}
    THEN \E it \in todo :
            /\ ctx' = [ctx EXCEPT ![t] = [job |-> it.job, final |-> it.target, work |-> it.work,
                                          todo |-> todo \ {it}, then |-> then, req |-> req]]
            /\ Goto(t, IF t = Closer THEN "prove" ELSE "cleaning")
    ELSE /\ ctx' = [ctx EXCEPT ![t] = [Local(t) EXCEPT !.job = IF then = "begin" THEN req ELSE @]]
         /\ Goto(t, then)

-----------------------------------------------------------------------------
(* reap_expired, the section under the lock: expired rows are claimed, rows
   whose clean-up failed are not. *)
Doomed ==
    {[job |-> j, work |-> jobs[j].work, target |-> jobs[j].target] :
        j \in {i \in Jobs : jobs[i].status = "cleanup-pending"}}
    \cup {[job |-> j, work |-> jobs[j].work, target |-> "expired"] :
        j \in {i \in Jobs : jobs[i].status \in RETAINED /\ jobs[i].deadline = "past"}}

reap_expired(t, then, req) ==
    /\ jobs' \in Trimmed([j \in Jobs |->
          IF jobs[j].status \in RETAINED /\ jobs[j].deadline = "past"
          THEN [jobs[j] EXCEPT !.status = "cleaning"] ELSE jobs[j]])
    /\ Proceed(t, Doomed, then, req)
    /\ UNCHANGED <<dir, closed, slots, masked, faults>>

(* A poll of status and a round of the reaper's loop; the status() in which
   create and cancel end. *)
Poll(t) == t \in Callers \cup {Reaper} /\ pc[t] = "idle" /\ closed = "no" /\ reap_expired(t, "idle", NoJob)
StatusReap(t) == pc[t] = "reap" /\ reap_expired(t, "idle", NoJob)

(* begin_delivery starts with a reap, too. *)
RequestDelivery(c, j) ==
    pc[c] = "idle" /\ closed = "no" /\ Present(j) /\ reap_expired(c, "begin", j)

Create(c, j) ==
    /\ pc[c] = "idle" /\ closed = "no"
    /\ jobs[j].status = "unborn"
    /\ Cardinality({i \in Jobs : jobs[i].status \in Occupied}) < MaxActive
    /\ jobs' \in Trimmed([jobs EXCEPT ![j].status = "queued"])
    /\ pc' = [pc EXCEPT ![j] = "register", ![c] = "reap"]
    /\ UNCHANGED <<dir, closed, slots, ctx, masked, faults>>

(* Mutant: a delivery in progress is cleaned up by the cancellation itself. *)
MutCancelCleansDelivery(c, j) ==
    /\ pc[c] = "idle" /\ closed = "no" /\ Present(j)
    /\ LET cleanup == jobs[j].status \in RETAINED \cup {"queued", "cleanup-pending", "delivering"}
           item    == [job |-> j, work |-> jobs[j].work, target |-> "cancelled"]
       IN  /\ jobs' = [jobs EXCEPT ![j].cancel = "yes",
                                   ![j].status = IF cleanup THEN "cleaning" ELSE @]
           /\ Proceed(c, IF cleanup THEN {item} ELSE {}, IF cleanup THEN "reap" ELSE "idle", NoJob)
    /\ UNCHANGED <<dir, closed, slots, masked, faults>>

cancel(c, j) ==
    /\ pc[c] = "idle" /\ closed = "no" /\ Present(j)
    /\ LET cleanup == jobs[j].status \in RETAINED \cup {"queued", "cleanup-pending"}
           item    == [job |-> j, work |-> jobs[j].work, target |-> "cancelled"]
       IN  /\ jobs' = [jobs EXCEPT ![j].cancel = "yes",
                                   ![j].status = IF cleanup THEN "cleaning" ELSE @]
           /\ Proceed(c, IF cleanup THEN {item} ELSE {}, IF cleanup THEN "reap" ELSE "idle", NoJob)
    /\ UNCHANGED <<dir, closed, slots, masked, faults>>

-----------------------------------------------------------------------------
(* _finish_cleanup: mark, remove the workspace, publish the result. *)
MarkCleaning(t) ==
    /\ pc[t] = "cleaning"
    /\ jobs' = Updated(ctx[t].job, "cleaning")
    /\ Goto(t, "prove")
    /\ UNCHANGED <<dir, closed, slots, ctx, masked, faults>>

(* _cleanup_dir and cleanup_owned_temp: a directory without its marker is
   nobody's and stays. *)
ProveOwned(t) ==
    /\ pc[t] = "prove"
    /\ Goto(t, IF ctx[t].work = "" \/ dir[ctx[t].job] = "none" THEN "removed"
               ELSE IF dir[ctx[t].job] = "marked" THEN "rmtree" ELSE "kept")
    /\ UNCHANGED <<jobs, dir, closed, slots, ctx, masked, faults>>

(* Another thread's rmtree has taken entries that this one may have listed. *)
Overtaken(t, j) == dir[j] # "marked" \/ \E u \in Threads \ {t} : pc[u] = "rmdir" /\ ctx[u].job = j

(* shutil.rmtree empties the directory, the marker at any time among the other
   entries.  An entry that has vanished raises FileNotFoundError, which
   _cleanup_dir takes for success; any other error leaves the rest. *)
RemoveEntries(t) ==
    LET j == ctx[t].job IN
    /\ pc[t] = "rmtree"
    /\ \/ /\ dir[j] # "none"
          /\ dir' \in {dir, [dir EXCEPT ![j] = "unmarked"]}
          /\ \/ Goto(t, "rmdir") /\ NoFault
             \/ Goto(t, "kept") /\ Fault
          /\ UNCHANGED masked
       \/ /\ Overtaken(t, j)
          /\ masked' = [masked EXCEPT ![j] = IF dir[j] = "none" THEN @ ELSE "yes"]
          /\ Goto(t, "removed")
          /\ UNCHANGED <<dir, faults>>
    /\ UNCHANGED <<jobs, closed, slots, ctx>>

RemoveRoot(t) ==
    /\ pc[t] = "rmdir"
    /\ \/ dir' = [dir EXCEPT ![ctx[t].job] = "none"] /\ Goto(t, "removed") /\ NoFault
       \/ dir[ctx[t].job] # "none" /\ Fault /\ Goto(t, "kept") /\ UNCHANGED dir
    /\ UNCHANGED <<jobs, closed, slots, ctx, masked>>

(* Mutant: a failed removal is published like a completed one. *)
MutPublishesFailure(t) ==
    /\ pc[t] \in {"removed", "kept"} /\ t # Closer
    /\ LET j == ctx[t].job IN
         jobs' \in IF ~Present(j) THEN {jobs}
                   ELSE Trimmed([jobs EXCEPT ![j] = [@ EXCEPT !.status = ctx[t].final,
                                    !.work = "", !.deadline = "none", !.target = "none"]])
    /\ Proceed(t, ctx[t].todo, ctx[t].then, ctx[t].req)
    /\ UNCHANGED <<dir, closed, slots, masked, faults>>

PublishCleanup(t) ==
    /\ pc[t] \in {"removed", "kept"} /\ t # Closer
    /\ LET j == ctx[t].job IN
         jobs' \in IF ~Present(j) THEN {jobs}
                   ELSE Trimmed([jobs EXCEPT ![j] =
                     IF pc[t] = "removed"
                     THEN [@ EXCEPT !.status = ctx[t].final, !.work = "",
                                    !.deadline = "none", !.target = "none"]
                     ELSE [@ EXCEPT !.status = "cleanup-pending", !.target = ctx[t].final]])
    /\ Proceed(t, ctx[t].todo, ctx[t].then, ctx[t].req)
    /\ UNCHANGED <<dir, closed, slots, masked, faults>>

-----------------------------------------------------------------------------
(* Mutant: the builder gives its slot back and leaves its workspace. *)
MutAbandonLeavesFiles(j, result) ==
    /\ slots' = IF pc[j] \in {"register", "check", "slot"} THEN slots ELSE slots + 1
    /\ Return(j)

(* _run: the builder thread of job j ends with a result that is not READY; it
   gives its slot back if it has one and cleans up. *)
Abandon(j, result) ==
    /\ slots' = IF pc[j] \in {"register", "check", "slot"} THEN slots ELSE slots + 1
    /\ ctx' = [ctx EXCEPT ![j].final = result]
    /\ Goto(j, "cleaning")

RunRegister(j) ==
    /\ pc[j] = "register"
    /\ \/ Cancelled(j) /\ Return(j) /\ UNCHANGED <<jobs, dir, slots, faults>>
       \/ /\ ~Cancelled(j)
          /\ jobs' = [jobs EXCEPT ![j].work = "set"]
          /\ dir' = [dir EXCEPT ![j] = "marked"]
          /\ ctx' = [ctx EXCEPT ![j].work = "set"]
          /\ Goto(j, "check")
          /\ UNCHANGED <<slots, faults>>
       \/ ~Cancelled(j) /\ Fault /\ Abandon(j, "failed") /\ UNCHANGED <<jobs, dir>>
    /\ UNCHANGED <<closed, masked>>

(* The cancellation probes, each with the label where the thread goes on.  A
   report is a probe and then, in a section of its own, status="building"; _run
   reports once, and build_package again before it touches a file. *)
AfterProbe == [check |-> "queue", admitted |-> "locating", locating |-> "mark_locating",
               report |-> "mark", built |-> "stat"]

RunProbe(j) ==
    /\ pc[j] \in DOMAIN AfterProbe
    /\ \/ ~Cancelled(j) /\ Goto(j, AfterProbe[pc[j]]) /\ UNCHANGED <<slots, ctx>>
       \/ Cancelled(j) /\ Abandon(j, "cancelled")
    /\ UNCHANGED <<jobs, dir, closed, masked, faults>>

AfterUpdate == [queue |-> "slot", mark_locating |-> "name", mark |-> "build"]

RunUpdate(j) ==
    /\ pc[j] \in DOMAIN AfterUpdate
    /\ jobs' = Updated(j, IF pc[j] = "queue" THEN "queued" ELSE "building")
    /\ Goto(j, AfterUpdate[pc[j]])
    /\ UNCHANGED <<dir, closed, slots, ctx, masked, faults>>

(* build_slots.acquire(timeout=30): the time-out passes while none is free. *)
RunSlot(j) ==
    /\ pc[j] = "slot"
    /\ \/ slots > 0 /\ slots' = slots - 1 /\ Goto(j, "admitted") /\ UNCHANGED ctx
       \/ slots = 0 /\ Abandon(j, "failed")
    /\ UNCHANGED <<jobs, dir, closed, masked, faults>>

(* A row that was trimmed, and an output that is not there, end the run. *)
RunLookUp(j) ==
    /\ \/ pc[j] = "name" /\ IF Present(j) THEN Goto(j, "report") /\ UNCHANGED <<slots, ctx>>
                                           ELSE Abandon(j, "failed")
       \/ pc[j] = "stat" /\ IF dir[j] # "none" THEN Goto(j, "adopt") /\ UNCHANGED <<slots, ctx>>
                                                ELSE Abandon(j, "failed")
    /\ UNCHANGED <<jobs, dir, closed, masked, faults>>

(* build_func reports again, fails or returns.  zip_dir creates a workspace
   that has gone meanwhile anew, without a marker. *)
RunBuild(j) ==
    /\ pc[j] = "build"
    /\ \/ Goto(j, "report") /\ UNCHANGED <<dir, slots, ctx, faults>>
       \/ /\ dir' = [dir EXCEPT ![j] = IF @ = "none" THEN "unmarked" ELSE @]
          /\ Goto(j, "built")
          /\ UNCHANGED <<slots, ctx, faults>>
       \/ Fault /\ Abandon(j, "failed") /\ UNCHANGED dir
    /\ UNCHANGED <<jobs, closed, masked>>

(* Mutant: READY is published without asking for a cancellation again. *)
MutAdoptUnchecked(j) ==
    /\ pc[j] = "adopt"
    /\ jobs' = [jobs EXCEPT ![j].status = "ready", ![j].deadline = "ahead"]
    /\ slots' = slots + 1
    /\ Return(j)
    /\ UNCHANGED <<dir, closed, masked, faults>>

adopt_ready(j) ==
    /\ pc[j] = "adopt"
    /\ \/ /\ ~Cancelled(j)
          /\ jobs' = [jobs EXCEPT ![j].status = "ready", ![j].deadline = "ahead"]
          /\ slots' = slots + 1
          /\ Return(j)
       \/ Cancelled(j) /\ Abandon(j, "cancelled") /\ UNCHANGED jobs
    /\ UNCHANGED <<dir, closed, masked, faults>>

-----------------------------------------------------------------------------
(* begin_delivery, after its reap. *)
begin_delivery(c) ==
    LET j == ctx[c].job IN
    /\ pc[c] = "begin"
    /\ IF jobs[j].status \in RETAINED /\ jobs[j].deadline # "past" /\ dir[j] # "none"
       THEN jobs' = [jobs EXCEPT ![j].status = "delivering"] /\ Goto(c, "stream") /\ UNCHANGED ctx
       ELSE Return(c) /\ UNCHANGED jobs
    /\ UNCHANGED <<dir, closed, slots, masked, faults>>

(* _job_file's loop: probe, read a chunk, write it, update_delivery; it ends at
   the end of the file, at a cancellation or when the client has gone. *)
EndStream(c, final) == ctx' = [ctx EXCEPT ![c].final = final] /\ Goto(c, "finish")

StreamProbe(c) ==
    /\ pc[c] = "stream"
    /\ \/ Cancelled(ctx[c].job) /\ EndStream(c, "delivery-interrupted")
       \/ ~Cancelled(ctx[c].job) /\ Goto(c, "chunk") /\ UNCHANGED ctx
       \/ ~Cancelled(ctx[c].job) /\ Goto(c, "eof") /\ UNCHANGED ctx
    /\ UNCHANGED <<jobs, dir, closed, slots, masked, faults>>

StreamChunk(c) ==
    /\ pc[c] = "chunk"
    /\ \/ jobs' = Updated(ctx[c].job, "delivering") /\ Goto(c, "stream") /\ UNCHANGED ctx
       \/ EndStream(c, "delivery-interrupted") /\ UNCHANGED jobs
    /\ UNCHANGED <<dir, closed, slots, masked, faults>>

StreamEnd(c) ==
    /\ pc[c] = "eof"
    /\ EndStream(c, IF Cancelled(ctx[c].job) THEN "delivery-interrupted" ELSE "delivered")
    /\ UNCHANGED <<jobs, dir, closed, slots, masked, faults>>

(* finish_delivery asks for a cancellation in one section ... *)
FinishAsk(c) ==
    LET j == ctx[c].job IN
    /\ pc[c] = "finish"
    /\ \/ ~Present(j) /\ Return(c)
       \/ /\ Present(j) /\ jobs[j].cancel = "yes"
          /\ Proceed(c, {[job |-> j, work |-> jobs[j].work, target |-> "cancelled"]}, "idle", NoJob)
       \/ Present(j) /\ jobs[j].cancel = "no" /\ Goto(c, "retain") /\ UNCHANGED ctx
    /\ UNCHANGED <<jobs, dir, closed, slots, masked, faults>>

(* ... and retains the package in another. *)
FinishRetain(c) ==
    /\ pc[c] = "retain"
    /\ jobs' = Updated(ctx[c].job, ctx[c].final)
    /\ Return(c)
    /\ UNCHANGED <<dir, closed, slots, masked, faults>>

-----------------------------------------------------------------------------
(* Thirty minutes have passed since READY. *)
Expire(j) ==
    /\ jobs[j].deadline = "ahead"
    /\ jobs' = [jobs EXCEPT ![j].deadline = "past"]
    /\ UNCHANGED <<dir, closed, slots, pc, ctx, masked, faults>>

(* close: the event first, then the flags under the lock, then every
   workspace, whatever the removal returns; then the process ends, and its
   daemon threads with it. *)
CloseEvent ==
    /\ pc[Closer] = "idle"
    /\ closed' = "yes"
    /\ Goto(Closer, "flag")
    /\ UNCHANGED <<jobs, dir, slots, ctx, masked, faults>>

CloseFlag ==
    /\ pc[Closer] = "flag"
    /\ jobs' = [j \in Jobs |-> IF Present(j) THEN [jobs[j] EXCEPT !.cancel = "yes"] ELSE jobs[j]]
    /\ Proceed(Closer, {[job |-> j, work |-> jobs[j].work, target |-> "cancelled"] :
                          j \in {i \in Jobs : Present(i)}}, "done", NoJob)
    /\ UNCHANGED <<dir, closed, slots, masked, faults>>

CloseNext ==
    /\ pc[Closer] \in {"removed", "kept"}
    /\ Proceed(Closer, ctx[Closer].todo, "done", NoJob)
    /\ UNCHANGED <<jobs, dir, closed, slots, masked, faults>>

Exit ==
    /\ pc[Closer] = "done"
    /\ pc' = [t \in Threads |-> "dead"]
    /\ UNCHANGED <<jobs, dir, closed, slots, ctx, masked, faults>>

-----------------------------------------------------------------------------
Init ==
    /\ jobs = [j \in Jobs |-> [status |-> "unborn", cancel |-> "no", work |-> "",
                               deadline |-> "none", target |-> "none"]]
    /\ dir = [j \in Jobs |-> "none"]
    /\ closed = "no"
    /\ slots = Slots
    /\ pc = [t \in Threads |-> IF t \in Jobs THEN "unborn" ELSE "idle"]
    /\ ctx = [t \in Threads |-> Local(t)]
    /\ masked = [j \in Jobs |-> "no"]
    /\ faults = MaxFaults

CleanUp(t) ==
    MarkCleaning(t) \/ ProveOwned(t) \/ RemoveEntries(t) \/ RemoveRoot(t) \/ PublishCleanup(t)

Run(j) ==
    RunRegister(j) \/ RunProbe(j) \/ RunUpdate(j) \/ RunSlot(j)
    \/ RunLookUp(j) \/ RunBuild(j) \/ adopt_ready(j)

Deliver(c) ==
    begin_delivery(c) \/ StreamProbe(c) \/ StreamChunk(c) \/ StreamEnd(c)
    \/ FinishAsk(c) \/ FinishRetain(c)

Shutdown == CloseEvent \/ CloseFlag \/ CloseNext \/ Exit

Next ==
    \/ \E c \in Callers, j \in Jobs : Create(c, j) \/ RequestDelivery(c, j) \/ cancel(c, j)
    \/ \E t \in Threads : Poll(t) \/ StatusReap(t) \/ CleanUp(t)
    \/ \E j \in Jobs : Run(j) \/ Expire(j)
    \/ \E c \in Callers : Deliver(c)
    \/ Shutdown

Spec == Init /\ [][Next]_vars

(* The interpreter schedules every thread, the reaper's wait ends, time
   passes.  Requests and the shutdown need not come. *)
FairSpec ==
    /\ Spec
    /\ \A t \in Threads : WF_vars(StatusReap(t) \/ CleanUp(t))
    /\ \A j \in Jobs : WF_vars(Run(j)) /\ WF_vars(Expire(j))
    /\ \A c \in Callers : WF_vars(Deliver(c))
    /\ WF_vars(Poll(Reaper)) /\ WF_vars(CloseFlag \/ CloseNext)

-----------------------------------------------------------------------------
(* The type invariant; a row that waits for its clean-up to be tried again
   knows the result it is to get (cleanup_target_status). *)
TypeOK ==
    /\ jobs \in [Jobs -> [status : Status, cancel : {"yes", "no"}, work : {"", "set"},
                          deadline : {"none", "ahead", "past"},
                          target : CLEAN_TERMINAL \cup {"none"}]]
    /\ \A j \in Jobs : jobs[j].status = "cleanup-pending" => jobs[j].target # "none"
    /\ dir \in [Jobs -> {"none", "marked", "unmarked"}]
    /\ closed \in {"yes", "no"}
    /\ slots \in Nat
    /\ ctx \in [Threads -> Ctx]
    /\ masked \in [Jobs -> {"yes", "no"}]
    /\ faults \in 0..MaxFaults

(* Until the shutdown, no clean-up takes the files away from under a package
   that is offered or being streamed: READY, cancellation, expiry and delivery
   hand the workspace over and never share it. *)
OfferedIsIntact ==
    closed = "no" => \A j \in Jobs :
        jobs[j].status \in RETAINED \cup {"delivering"} =>
            /\ dir[j] = "marked" /\ jobs[j].work = "set"
            /\ \A t \in Threads : pc[t] \in {"prove", "rmtree", "rmdir"} => ctx[t].job # j

CleansUp(t, j) ==
    pc[t] \in {"cleaning", "prove", "rmtree", "rmdir", "removed", "kept"} /\ ctx[t].job = j

(* A clean terminal row owns no files ("a clean terminal row never owns a
   workspace or package path"), on disk as well as in the table, once no
   clean-up of it is under way any more. *)
NoFilesLeft(j) ==
    jobs[j].status \in CLEAN_TERMINAL \cup {"trimmed"} =>
        dir[j] = "none" \/ \E t \in Threads : CleansUp(t, j)

CleanTerminalOwnsNothing == closed = "no" => \A j \in Jobs : NoFilesLeft(j)

(* ... which holds as long as no clean-up mistook the progress of another for
   its own success. *)
CleanTerminalUnlessMasked == closed = "no" => \A j \in Jobs : masked[j] = "no" => NoFilesLeft(j)

(* The bound of the job table is a bound of the disk: however cancellations,
   failed clean-ups and new jobs interleave, no more workspaces exist than
   max_active allows. *)
WorkspacesBounded ==
    closed = "no" =>
        Cardinality({j \in Jobs : dir[j] # "none" /\ masked[j] = "no"}) <= MaxActive

(* A cancelled job is never offered anew; only a delivery that is already past
   its last probe can still put it back (CancelledIsNotRetained). *)
CancelWins ==
    [][\A j \in Jobs : jobs[j].cancel = "yes" /\ jobs'[j].status \in RETAINED =>
         jobs[j].status \in RETAINED \cup {"delivering"}]_vars

(* Once cancelled, a package is not retained for repeat download ("Cancel,
   Delete now and service shutdown clean immediately"). *)
CancelledIsNotRetained ==
    closed = "no" => \A j \in Jobs : jobs[j].cancel = "yes" => jobs[j].status \notin RETAINED

(* When close has returned, every workspace is gone ("service shutdown clean
   immediately"). *)
ShutdownLeavesNothing == pc[Closer] = "done" => \A j \in Jobs : dir[j] = "none"

(* The files of a job that is cancelled, whatever it was doing, and of a package
   that is offered beyond its deadline go, whatever clean-up failed before; unless
   a removal that failed has deleted the marker, or one was taken for a success. *)
WithdrawnIsCleaned ==
    \A j \in Jobs :
        jobs[j].cancel = "yes" \/ (jobs[j].deadline = "past" /\ jobs[j].status \in RETAINED)
            ~> dir[j] # "marked" \/ masked[j] = "yes" \/ closed = "yes"
=============================================================================
