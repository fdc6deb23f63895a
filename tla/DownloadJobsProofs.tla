-------------------------- MODULE DownloadJobsProofs --------------------------
(***************************************************************************)
(* Proofs about the download jobs, for any number of jobs, HTTP threads,   *)
(* build slots, failures and clean-ups at a time.                          *)
(*                                                                         *)
(* Who may touch the workspace of a job is decided by the row's status     *)
(* and by how far its builder is; the inductive invariant says for each    *)
(* combination which threads hold the job: as its builder, as the one that *)
(* streams it, or with a clean-up of it under way or still to be done.     *)
(***************************************************************************)
EXTENDS DownloadJobs, FiniteSetTheorems, TLAPS

CleanPc  == {"cleaning", "prove", "rmtree", "rmdir", "removed", "kept"}
StreamPc == {"stream", "chunk", "eof", "finish", "retain"}

(* The labels of a builder, before it has marked the row as building, after
   it, and behind the last probe that a queued row's cancellation can meet. *)
EarlyPc     == {"register", "check", "queue", "slot", "admitted", "locating", "mark_locating"}
CommittedPc == {"mark", "build", "built", "stat", "adopt"}
ActivePc    == EarlyPc \cup CommittedPc \cup {"name", "report"}

Label       == ActivePc \cup CleanPc \cup StreamPc
                 \cup {"unborn", "idle", "reap", "begin", "flag", "done", "dead"}

Workers == Threads \ {Closer}

(* Thread t streams job j, cleans it up or is going to. *)
Holds(t, j) ==
    \/ pc[t] \in CleanPc \cup StreamPc /\ ctx[t].job = j
    \/ \E it \in ctx[t].todo : it.job = j

Free(j) == \A t \in Workers : ~Holds(t, j)

(* Where each kind of thread can be, and what its local variables are there. *)
ThreadInv(t) ==
    /\ t \in Jobs =>
         /\ pc[t] \in ActivePc \cup CleanPc \cup {"unborn", "done", "dead"}
         /\ ctx[t].job = t /\ ctx[t].then = "done" /\ ctx[t].todo = {}
         /\ pc[t] \in ActivePc \ {"register"} => ctx[t].work = "set"
    /\ t \in Callers =>
         /\ pc[t] \in {"idle", "reap", "begin", "dead"} \cup CleanPc \cup StreamPc
         /\ ctx[t].then # "done"
    /\ t = Reaper => pc[t] \in {"idle", "dead"} \cup CleanPc /\ ctx[t].then = "idle"
    /\ t = Closer =>
         /\ pc[t] \in {"idle", "flag", "done", "dead"} \cup (CleanPc \ {"cleaning"})
         /\ pc[t] # "idle" => closed = "yes"
    /\ pc[t] \in CleanPc =>
         ctx[t].job \in Jobs /\ ctx[t].final \in CLEAN_TERMINAL /\ (ctx[t].then = "begin" => ctx[t].req \in Jobs)
    /\ pc[t] \in StreamPc \cup {"begin"} => ctx[t].job \in Jobs
    /\ pc[t] \in {"finish", "retain"} => ctx[t].final \in RETAINED
    /\ pc[t] \notin CleanPc \cup {"dead"} => ctx[t].todo = {}

(* The row of job j, its builder and the threads that hold it. *)
RowInv(j) ==
    /\ pc[j] = "unborn" => jobs[j].status = "unborn"
    /\ jobs[j].status = "unborn" =>
         pc[j] \in {"unborn", "dead"} /\ jobs[j].cancel = "no" /\ jobs[j].work = "" /\ Free(j)
    /\ pc[j] \in ActivePc /\ jobs[j].cancel = "no" =>
         /\ Free(j)
         /\ jobs[j].status = IF pc[j] \in EarlyPc THEN "queued" ELSE "building"
         /\ jobs[j].work = IF pc[j] = "register" THEN "" ELSE "set"
    /\ pc[j] \in CommittedPc => Free(j) /\ jobs[j].status = "building" /\ jobs[j].work = "set"
    /\ jobs[j].status \in RETAINED => pc[j] \in {"done", "dead"} /\ jobs[j].work = "set" /\ Free(j)
    /\ jobs[j].status = "delivering" =>
         /\ pc[j] \in {"done", "dead"} /\ jobs[j].work = "set"
         /\ \A t \in Workers : Holds(t, j) =>
              pc[t] \in StreamPc \cup {"cleaning"} /\ ctx[t].job = j /\ ctx[t].todo = {}
         /\ \A t, u \in Workers : Holds(t, j) /\ Holds(u, j) => t = u
    /\ \A t \in Workers : pc[t] \in StreamPc /\ ctx[t].job = j => jobs[j].status = "delivering"
    /\ jobs[j].status \in CLEAN_TERMINAL \cup {"trimmed"} => jobs[j].work = ""

(* The workspace of job j until the shutdown; a clean-up that found nothing to
   remove, or has removed it, is right about that unless it was misled. *)
DirInv(j) ==
    /\ jobs[j].status = "unborn" => dir[j] = "none"
    /\ pc[j] = "register" /\ jobs[j].cancel = "no" => dir[j] = "none"
    /\ pc[j] \in ActivePc \ {"register"} /\ jobs[j].cancel = "no" => dir[j] = "marked"
    /\ pc[j] \in CommittedPc => dir[j] = "marked"
    /\ jobs[j].status \in RETAINED \cup {"delivering"} => dir[j] = "marked"
    /\ masked[j] = "no" =>
         /\ jobs[j].work = "" => dir[j] = "none"
         /\ \A t \in Workers : CleansUp(t, j) /\ (ctx[t].work = "" \/ pc[t] = "removed") => dir[j] = "none"
         /\ \A t \in Workers : \A it \in ctx[t].todo : it.job = j /\ it.work = "" => dir[j] = "none"

JobsInv ==
    /\ TypeOK
    /\ pc \in [Threads -> Label]
    /\ \A t \in Threads : ThreadInv(t)
    /\ \A j \in Jobs : RowInv(j)
    /\ closed = "no" => \A j \in Jobs : DirInv(j)

(* The jobs that count against max_active although their rows come and go:
   the ones with a workspace, and the ones whose builder may still make one. *)
Owners == {j \in Jobs : jobs[j].work = "set" \/ (pc[j] = "register" /\ jobs[j].cancel = "no")}
OwnersBounded == Cardinality(Owners) <= MaxActive

-----------------------------------------------------------------------------
Row == [status : Status, cancel : {"yes", "no"}, work : {"", "set"},
        deadline : {"none", "ahead", "past"}, target : CLEAN_TERMINAL \cup {"none"}]

(* _trim_history_locked takes clean terminal rows without a workspace and
   leaves every other row as it is. *)
LEMMA TrimFacts ==
    ASSUME NEW table \in [Jobs -> Row], NEW new \in Trimmed(table)
    PROVE  /\ new \in [Jobs -> Row]
           /\ \A j \in Jobs :
                \/ new[j] = table[j]
                \/ /\ table[j].status \in CLEAN_TERMINAL /\ table[j].work = ""
                   /\ new[j].status = "trimmed" /\ new[j].work = table[j].work
                   /\ new[j].cancel = table[j].cancel
<1> DEFINE Rows   == {j \in Jobs : table[j].status \notin {"unborn", "trimmed"}}
           Old    == {j \in Rows : table[j].status \in CLEAN_TERMINAL /\ table[j].work = ""}
           Excess == Cardinality(Rows) - MaxHistory
           N      == IF Excess <= Cardinality(Old) THEN Excess ELSE Cardinality(Old)
           New(gone) == [j \in Jobs |-> IF j \in gone THEN [table[j] EXCEPT !.status = "trimmed"]
                                                      ELSE table[j]]
<1>1. new = table \/ \E gone \in kSubset(N, Old) : new = New(gone)
  BY Zenon DEF Trimmed
<1>2. CASE new = table
  BY <1>2
<1>3. CASE \E gone \in kSubset(N, Old) : new = New(gone)
  <2>1. PICK gone \in SUBSET Old : new = New(gone)
    BY <1>3, Zenon DEF kSubset
  <2>2. ASSUME NEW j \in Jobs
        PROVE  /\ [table[j] EXCEPT !.status = "trimmed"] \in Row
               /\ [table[j] EXCEPT !.status = "trimmed"].status = "trimmed"
               /\ [table[j] EXCEPT !.status = "trimmed"].work = table[j].work
               /\ [table[j] EXCEPT !.status = "trimmed"].cancel = table[j].cancel
    BY DEF Row, Status
  <2>3. new \in [Jobs -> Row]
    BY <2>1, <2>2
  <2>4. ASSUME NEW j \in Jobs
        PROVE  \/ new[j] = table[j]
               \/ /\ table[j].status \in CLEAN_TERMINAL /\ table[j].work = ""
                  /\ new[j].status = "trimmed" /\ new[j].work = table[j].work
                  /\ new[j].cancel = table[j].cancel
    <3>1. new[j] = IF j \in gone THEN [table[j] EXCEPT !.status = "trimmed"] ELSE table[j]
      BY <2>1
    <3>2. j \in gone => table[j].status \in CLEAN_TERMINAL /\ table[j].work = ""
      BY <2>1
    <3> QED BY <3>1, <3>2, <2>2
  <2> QED BY <2>3, <2>4
<1> QED BY <1>1, <1>2, <1>3

(* A thread that goes on with a list of clean-ups takes one of them, or goes
   where it goes after the last. *)
Proceeded(t, todo, then, req) ==
    /\ pc' \in [Threads -> Label] /\ ctx' \in [Threads -> Ctx]
    /\ \A u \in Threads \ {t} : pc'[u] = pc[u] /\ ctx'[u] = ctx[u]
    /\ \/ /\ pc'[t] = IF t = Closer THEN "prove" ELSE "cleaning"
          /\ ctx'[t].then = then /\ ctx'[t].req = req /\ ctx'[t].final \in CLEAN_TERMINAL
          /\ ctx'[t].todo \subseteq todo /\ ctx'[t].job \in Jobs
          /\ \E it \in todo :
               it.job = ctx'[t].job /\ it.work = ctx'[t].work /\ ctx'[t].todo = todo \ {it}
       \/ /\ todo = {} /\ pc'[t] = then
          /\ ctx'[t].todo = {} /\ ctx'[t].then = IF t \in Jobs THEN "done" ELSE "idle"
          /\ ctx'[t].job = IF then = "begin" THEN req ELSE IF t \in Jobs THEN t ELSE NoJob

(* What Proceed does, by the length of the list. *)
LEMMA ProceedFacts ==
    ASSUME ctx \in [Threads -> Ctx], pc \in [Threads -> Label],
           NEW t \in Threads, NEW todo \in SUBSET Item,
           NEW then \in {"idle", "done", "begin", "reap"}, NEW req \in Jobs \cup {NoJob},
           Proceed(t, todo, then, req)
    PROVE  Proceeded(t, todo, then, req)
<1>1. CASE todo # {}
  <2>1. PICK it \in todo :
            /\ ctx' = [ctx EXCEPT ![t] = [job |-> it.job, final |-> it.target, work |-> it.work,
                                          todo |-> todo \ {it}, then |-> then, req |-> req]]
            /\ Goto(t, IF t = Closer THEN "prove" ELSE "cleaning")
    BY <1>1, Zenon DEF Proceed
  <2> DEFINE e == [job |-> it.job, final |-> it.target, work |-> it.work,
                   todo |-> todo \ {it}, then |-> then, req |-> req]
             l == IF t = Closer THEN "prove" ELSE "cleaning"
  <2>2. it.job \in Jobs /\ it.work \in {"", "set"} /\ it.target \in CLEAN_TERMINAL
    BY DEF Item
  <2>a. todo \ {it} \in SUBSET Item
    OBVIOUS
  <2>b. e \in Ctx
    BY <2>a, <2>2 DEF Ctx
  <2>3. e \in Ctx /\ l \in Label
    BY <2>b DEF Label, CleanPc
  <2>4. /\ e.then = then /\ e.req = req /\ e.final \in CLEAN_TERMINAL
        /\ e.todo \subseteq todo /\ e.todo = todo \ {it}
        /\ e.job = it.job /\ it.work = e.work /\ e.job \in Jobs
    BY <2>2
  <2>5. ctx' = [ctx EXCEPT ![t] = e] /\ pc' = [pc EXCEPT ![t] = l]
    BY <2>1 DEF Goto
  <2> HIDE DEF e, l
  <2>6. l = IF t = Closer THEN "prove" ELSE "cleaning"
    BY DEF l
  <2>7. /\ pc' \in [Threads -> Label] /\ ctx' \in [Threads -> Ctx] /\ pc'[t] = l /\ ctx'[t] = e
        /\ \A u \in Threads \ {t} : pc'[u] = pc[u] /\ ctx'[u] = ctx[u]
    BY <2>3, <2>5
  <2> QED BY <2>4, <2>6, <2>7 DEF Proceeded
<1>2. CASE todo = {}
  <2> DEFINE e == [Local(t) EXCEPT !.job = IF then = "begin" THEN req ELSE @]
  <2>1. ctx' = [ctx EXCEPT ![t] = e] /\ pc' = [pc EXCEPT ![t] = then]
    BY <1>2 DEF Proceed, Goto
  <2>2. /\ Local(t) \in Ctx /\ Local(t).todo = {}
        /\ Local(t).then = IF t \in Jobs THEN "done" ELSE "idle"
        /\ Local(t).job = IF t \in Jobs THEN t ELSE NoJob
    BY DEF Local, Ctx, CLEAN_TERMINAL
  <2>3. /\ e \in Ctx /\ e.todo = {} /\ e.then = IF t \in Jobs THEN "done" ELSE "idle"
        /\ e.job = IF then = "begin" THEN req ELSE IF t \in Jobs THEN t ELSE NoJob
    BY <2>2 DEF Ctx
  <2>4. then \in Label
    BY DEF Label
  <2> HIDE DEF e
  <2>5. /\ pc' \in [Threads -> Label] /\ ctx' \in [Threads -> Ctx] /\ pc'[t] = then /\ ctx'[t] = e
        /\ \A u \in Threads \ {t} : pc'[u] = pc[u] /\ ctx'[u] = ctx[u]
    BY <2>1, <2>3, <2>4
  <2> QED BY <2>3, <2>5, <1>2 DEF Proceeded
<1> QED BY <1>1, <1>2

-----------------------------------------------------------------------------
(* The facts about a state that every step below starts from. *)
LEMMA Kinds ==
    /\ Jobs \subseteq Workers /\ Callers \subseteq Workers /\ Reaper \in Workers
    /\ Workers \subseteq Threads /\ Closer \in Threads /\ Closer \notin Workers
    /\ Closer \notin Jobs /\ Closer \notin Callers /\ Reaper \notin Jobs /\ Reaper \notin Callers
    /\ \A t \in Threads : t \in Jobs \/ t \in Callers \/ t = Reaper \/ t = Closer
    /\ \A j \in Jobs : j \notin Callers
  BY JobsAssumption DEF Workers, Threads

(* The types, as the steps below use them. *)
LEMMA Typed ==
    ASSUME JobsInv
    PROVE  /\ jobs \in [Jobs -> Row] /\ ctx \in [Threads -> Ctx] /\ pc \in [Threads -> Label]
           /\ dir \in [Jobs -> {"none", "marked", "unmarked"}] /\ masked \in [Jobs -> {"yes", "no"}]
           /\ closed \in {"yes", "no"} /\ slots \in Nat /\ faults \in 0..MaxFaults
           /\ \A j \in Jobs : jobs[j].status = "cleanup-pending" => jobs[j].target # "none"
  BY DEF JobsInv, TypeOK, Row

(* A thread that does not move, and whose variables stay, is where it was. *)
LEMMA ThreadFrame ==
    ASSUME JobsInv, NEW t \in Threads, pc'[t] = pc[t], ctx'[t] = ctx[t],
           closed' = closed \/ closed' = "yes"
    PROVE  ThreadInv(t)'
<1>1. ThreadInv(t)
  BY DEF JobsInv
<1> QED BY <1>1 DEF ThreadInv

(* Thread t does not take up job j: what it has of j after the step is a
   clean-up that it had to do before. *)
Passes(t, j) ==
    \/ pc'[t] = pc[t] /\ ctx'[t] = ctx[t]
    \/ /\ pc'[t] \in CleanPc \cup StreamPc /\ ctx'[t].job = j =>
            pc'[t] = "cleaning" /\ \E it \in ctx[t].todo : it.job = j /\ it.work = ctx'[t].work
       /\ \A it \in ctx'[t].todo : it.job = j => it \in ctx[t].todo

(* The row of job j stays, but for a cancellation or its removal as history. *)
SameRow(j) ==
    /\ jobs'[j].work = jobs[j].work
    /\ \/ jobs'[j].status = jobs[j].status
       \/ jobs[j].status \in CLEAN_TERMINAL /\ jobs'[j].status = "trimmed"
    /\ \/ jobs'[j].cancel = jobs[j].cancel
       \/ jobs[j].status # "unborn" /\ jobs'[j].cancel = "yes"

(* A job whose row and builder stay, and which no thread takes up. *)
LEMMA RowFrame ==
    ASSUME JobsInv, NEW j \in Jobs, SameRow(j), pc'[j] = pc[j],
           \A t \in Workers : Passes(t, j)
    PROVE  RowInv(j)'
<1>1. RowInv(j) /\ jobs[j].cancel \in {"yes", "no"}
  BY Typed DEF JobsInv, Row
<1>2. \A t \in Workers : Holds(t, j)' => Holds(t, j)
  BY DEF Passes, Holds
<1>3. Free(j) => Free(j)'
  BY <1>2 DEF Free
<1>4. jobs[j].status = "delivering" => \A t \in Workers :
         Holds(t, j)' => pc'[t] = pc[t] /\ ctx'[t] = ctx[t]
  <2> SUFFICES ASSUME jobs[j].status = "delivering", NEW t \in Workers, Holds(t, j)'
               PROVE  pc'[t] = pc[t] /\ ctx'[t] = ctx[t]
    OBVIOUS
  <2>1. Holds(t, j) /\ ctx[t].todo = {}
    BY <1>1, <1>2 DEF RowInv
  <2> QED BY <2>1 DEF Passes, Holds
<1>5. ASSUME NEW t \in Workers, pc'[t] \in StreamPc, ctx'[t].job = j
      PROVE  jobs[j].status = "delivering"
  <2>2. pc'[t] = pc[t] /\ ctx'[t] = ctx[t]
    BY <1>5 DEF Passes, StreamPc
  <2> QED BY <2>2, <1>5, <1>1 DEF RowInv
<1>6. CASE jobs'[j].status = jobs[j].status
  BY <1>1, <1>2, <1>3, <1>4, <1>5, <1>6 DEF RowInv, SameRow
<1>7. CASE jobs[j].status \in CLEAN_TERMINAL /\ jobs'[j].status = "trimmed"
  <2>1. /\ jobs'[j].work = "" /\ pc[j] \notin CommittedPc /\ pc[j] # "unborn"
        /\ pc[j] \in ActivePc => jobs'[j].cancel = "yes"
    BY <1>7, <1>1 DEF RowInv, SameRow, CLEAN_TERMINAL
  <2>2. ASSUME NEW t \in Workers, pc'[t] \in StreamPc, ctx'[t].job = j
        PROVE  FALSE
    BY <2>2, <1>5, <1>7 DEF CLEAN_TERMINAL
  <2> QED BY <2>1, <2>2, <1>7 DEF RowInv, RETAINED
<1> QED BY <1>6, <1>7 DEF SameRow

(* ... and whose workspace stays. *)
LEMMA DirFrame ==
    ASSUME JobsInv, NEW j \in Jobs, SameRow(j), pc'[j] = pc[j],
           \A t \in Workers : Passes(t, j),
           closed = "no", dir'[j] = dir[j], masked'[j] = masked[j]
    PROVE  DirInv(j)'
<1>1. DirInv(j) /\ jobs[j].cancel \in {"yes", "no"}
  BY Typed DEF JobsInv, Row
<1>3. ASSUME NEW t \in Workers, masked[j] = "no", CleansUp(t, j)', ctx'[t].work = "" \/ pc'[t] = "removed"
      PROVE  dir[j] = "none"
  <2>1. CASE pc'[t] = pc[t] /\ ctx'[t] = ctx[t]
    BY <2>1, <1>1, <1>3 DEF DirInv, CleansUp
  <2>2. CASE ~(pc'[t] = pc[t] /\ ctx'[t] = ctx[t])
    <3>1. pc'[t] = "cleaning" /\ \E it \in ctx[t].todo : it.job = j /\ it.work = ctx'[t].work
      BY <2>2, <1>3 DEF Passes, CleansUp, CleanPc
    <3> QED BY <3>1, <1>3, <1>1 DEF DirInv
  <2> QED BY <2>1, <2>2
<1>4. ASSUME NEW t \in Workers, masked[j] = "no", NEW it \in ctx'[t].todo, it.job = j, it.work = ""
      PROVE  dir[j] = "none"
  BY <1>1, <1>4 DEF Passes, DirInv
<1>5. /\ jobs'[j].status = "unborn" => dir[j] = "none"
      /\ jobs'[j].status \in RETAINED \cup {"delivering"} => dir[j] = "marked"
      /\ masked[j] = "no" /\ jobs'[j].work = "" => dir[j] = "none"
      /\ jobs'[j].cancel = "no" => jobs[j].cancel = "no"
  BY <1>1 DEF DirInv, SameRow, RETAINED
<1> QED BY <1>1, <1>3, <1>4, <1>5 DEF DirInv

(* A step of one thread: it is enough to look at that thread and at the jobs
   of the set J, if the others are left alone. *)
LEMMA Step ==
    ASSUME JobsInv, NEW t \in Threads, NEW J \in SUBSET Jobs,
           TypeOK', pc' \in [Threads -> Label], closed' = closed, ThreadInv(t)',
           \A u \in Threads \ {t} : pc'[u] = pc[u] /\ ctx'[u] = ctx[u],
           \A j \in J : RowInv(j)',
           \A j \in J : closed = "no" => DirInv(j)',
           \A j \in Jobs \ J : SameRow(j),
           \A j \in Jobs \ J : pc'[j] = pc[j],
           \A j \in Jobs \ J : dir'[j] = dir[j] /\ masked'[j] = masked[j],
           \A j \in Jobs \ J : t \in Workers => Passes(t, j)
    PROVE  JobsInv'
<1>1. \A u \in Threads : ThreadInv(u)'
  BY ThreadFrame
<1>2. ASSUME NEW j \in Jobs \ J PROVE RowInv(j)' /\ (closed = "no" => DirInv(j)')
  <2>1. \A u \in Workers : Passes(u, j)
    BY Kinds DEF Passes
  <2> QED BY <2>1, RowFrame, DirFrame
<1> QED BY <1>1, <1>2 DEF JobsInv

-----------------------------------------------------------------------------
(* The builder of job j moves from label to label: what it has to show. *)
LEMMA BuilderStep ==
    ASSUME JobsInv, NEW j \in Jobs,
           pc' \in [Threads -> Label], ctx' \in [Threads -> Ctx],
           jobs' \in [Jobs -> Row], dir' \in [Jobs -> {"none", "marked", "unmarked"}],
           \A u \in Threads \ {j} : pc'[u] = pc[u] /\ ctx'[u] = ctx[u],
           \A i \in Jobs \ {j} : jobs'[i] = jobs[i] /\ dir'[i] = dir[i],
           pc'[j] \in ActivePc \cup CleanPc \cup {"done"},
           ctx'[j].job = j, ctx'[j].then = "done", ctx'[j].todo = {},
           pc'[j] \in CleanPc => ctx'[j].final \in CLEAN_TERMINAL,
           pc'[j] \in ActivePc \ {"register"} => ctx'[j].work = "set",
           jobs'[j].status # "cleanup-pending" \/ jobs'[j] = jobs[j],
           slots' \in Nat, faults' \in 0..MaxFaults, closed' = closed, masked' = masked,
           RowInv(j)', closed = "no" => DirInv(j)'
    PROVE  JobsInv'
<1>2. TypeOK'
  <2>1. \A i \in Jobs : jobs'[i].status = "cleanup-pending" => jobs'[i].target # "none"
    BY Typed
  <2> QED BY <2>1, Typed DEF TypeOK, Row
<1>3. \A i \in Jobs \ {j} : pc'[i] = pc[i]
  BY Kinds
<1>4. ThreadInv(j)'
  <2>0. \A l \in ActivePc \cup CleanPc \cup {"done"} : l \notin StreamPc \cup {"begin", "finish", "retain"}
    BY DEF StreamPc, ActivePc, CleanPc, EarlyPc, CommittedPc
  <2>1. pc'[j] \notin StreamPc \cup {"begin", "finish", "retain"}
    BY <2>0
  <2> QED BY <2>1, Kinds DEF ThreadInv, StreamPc
<1>5. \A i \in Jobs \ {j} : SameRow(i) /\ Passes(j, i)
  BY <1>4, Kinds DEF SameRow, Passes
<1> DEFINE J == {j}
<1>6. J \in SUBSET Jobs /\ j \in Threads
  BY Kinds
<1>7. /\ \A i \in J : RowInv(i)'
      /\ \A i \in J : closed = "no" => DirInv(i)'
  OBVIOUS
<1>8. /\ \A i \in Jobs \ J : dir'[i] = dir[i] /\ masked'[i] = masked[i]
      /\ \A i \in Jobs \ J : SameRow(i)
      /\ \A i \in Jobs \ J : pc'[i] = pc[i]
      /\ \A i \in Jobs \ J : j \in Workers => Passes(j, i)
  BY <1>3, <1>5
<1> HIDE DEF J
<1> QED BY <1>2, <1>3, <1>4, <1>6, <1>7, <1>8, Step

(* What is known of a job whose builder runs. *)
LEMMA Running ==
    ASSUME JobsInv, NEW j \in Jobs, pc[j] \in ActivePc
    PROVE  /\ RowInv(j) /\ ThreadInv(j) /\ (closed = "no" => DirInv(j))
           /\ jobs[j] \in Row /\ ctx[j] \in Ctx /\ dir[j] \in {"none", "marked", "unmarked"}
           /\ jobs[j].status \notin RETAINED \cup {"delivering", "unborn"}
           /\ \A t \in Workers : ~(pc[t] \in StreamPc /\ ctx[t].job = j)
           /\ ctx[j].job = j /\ ctx[j].then = "done" /\ ctx[j].todo = {}
           /\ ~Holds(j, j)
<1>1. RowInv(j) /\ ThreadInv(j) /\ (closed = "no" => DirInv(j))
  BY Kinds DEF JobsInv
<1>2. jobs[j] \in Row /\ ctx[j] \in Ctx /\ dir[j] \in {"none", "marked", "unmarked"}
  BY Typed, Kinds
<1>3. pc[j] \notin CleanPc \cup StreamPc \cup {"unborn", "done", "dead"}
  BY DEF ActivePc, EarlyPc, CommittedPc, CleanPc, StreamPc
<1>4. jobs[j].status \notin RETAINED \cup {"delivering", "unborn"}
  BY <1>1, <1>3 DEF RowInv
<1>5. ctx[j].job = j /\ ctx[j].then = "done" /\ ctx[j].todo = {} /\ ~Holds(j, j)
  BY <1>1, <1>3 DEF ThreadInv, Holds
<1> QED BY <1>1, <1>2, <1>4, <1>5 DEF RowInv

(* While the builder goes from one of its labels to another, or ends, the
   other threads hold what they held. *)
LEMMA Moving ==
    ASSUME JobsInv, NEW j \in Jobs, pc[j] \in ActivePc, pc'[j] \in ActivePc \cup {"done"},
           \A u \in Threads \ {j} : pc'[u] = pc[u] /\ ctx'[u] = ctx[u], ctx'[j].todo = {}
    PROVE  /\ \A t \in Workers : Holds(t, j)' <=> Holds(t, j)
           /\ Free(j)' <=> Free(j)
           /\ \A t \in Workers : ~(pc'[t] \in StreamPc /\ ctx'[t].job = j)
           /\ \A t \in Workers \ {j} : pc'[t] = pc[t] /\ ctx'[t] = ctx[t]
           /\ pc'[j] \notin CleanPc
<1>1. \A t \in Workers \ {j} : pc'[t] = pc[t] /\ ctx'[t] = ctx[t]
  BY Kinds
<1>2. pc'[j] \notin CleanPc \cup StreamPc
  BY DEF ActivePc, EarlyPc, CommittedPc, CleanPc, StreamPc
<1>3. \A t \in Workers : Holds(t, j)' <=> Holds(t, j)
  BY <1>1, <1>2, Running DEF Holds
<1>4. Free(j)' <=> Free(j)
  BY <1>3 DEF Free
<1>5. \A t \in Workers : ~(pc'[t] \in StreamPc /\ ctx'[t].job = j)
  BY <1>1, <1>2, Running
<1> QED BY <1>1, <1>2, <1>3, <1>4, <1>5

(* The row and the workspace of a job whose builder moves on. *)
LEMMA MovedRow ==
    ASSUME JobsInv, NEW j \in Jobs, pc[j] \in ActivePc, pc'[j] \in ActivePc \cup {"done"},
           \A u \in Threads \ {j} : pc'[u] = pc[u] /\ ctx'[u] = ctx[u], ctx'[j].todo = {},
           jobs'[j] \in Row,
           jobs'[j].status \notin {"unborn", "delivering"},
           pc'[j] \in ActivePc /\ jobs'[j].cancel = "no" =>
             /\ Free(j)
             /\ jobs'[j].status = IF pc'[j] \in EarlyPc THEN "queued" ELSE "building"
             /\ jobs'[j].work = IF pc'[j] = "register" THEN "" ELSE "set",
           pc'[j] \in CommittedPc => Free(j) /\ jobs'[j].status = "building" /\ jobs'[j].work = "set",
           jobs'[j].status \in RETAINED => pc'[j] = "done" /\ jobs'[j].work = "set" /\ Free(j),
           jobs'[j].status \in CLEAN_TERMINAL \cup {"trimmed"} => jobs'[j].work = ""
    PROVE  RowInv(j)'
<1>0. /\ \A t \in Workers : Holds(t, j)' <=> Holds(t, j)
      /\ Free(j)' <=> Free(j)
      /\ \A t \in Workers : ~(pc'[t] \in StreamPc /\ ctx'[t].job = j)
      /\ \A t \in Workers \ {j} : pc'[t] = pc[t] /\ ctx'[t] = ctx[t]
      /\ pc'[j] \notin CleanPc
  BY Moving
<1>1. pc'[j] # "unborn"
  BY DEF ActivePc, EarlyPc, CommittedPc
<1> QED BY <1>0, <1>1 DEF RowInv, RETAINED

(* ... and its workspace, if it is as the new label wants it. *)
LEMMA MovedDir ==
    ASSUME JobsInv, NEW j \in Jobs, pc[j] \in ActivePc, pc'[j] \in ActivePc \cup {"done"},
           \A u \in Threads \ {j} : pc'[u] = pc[u] /\ ctx'[u] = ctx[u], ctx'[j].todo = {},
           jobs'[j].status # "unborn", pc'[j] # "register", closed = "no", masked' = masked,
           pc'[j] \in ActivePc /\ jobs'[j].cancel = "no" => dir'[j] = "marked",
           pc'[j] \in CommittedPc => dir'[j] = "marked",
           jobs'[j].status \in RETAINED \cup {"delivering"} => dir'[j] = "marked",
           masked[j] = "no" /\ jobs'[j].work = "" => dir'[j] = "none",
           dir'[j] = dir[j] \/ Free(j)
    PROVE  DirInv(j)'
<1>0. /\ \A t \in Workers : Holds(t, j)' <=> Holds(t, j)
      /\ Free(j)' <=> Free(j)
      /\ \A t \in Workers : ~(pc'[t] \in StreamPc /\ ctx'[t].job = j)
      /\ \A t \in Workers \ {j} : pc'[t] = pc[t] /\ ctx'[t] = ctx[t]
      /\ pc'[j] \notin CleanPc
  BY Moving
<1>1. DirInv(j)
  BY Running
<1>2. ASSUME NEW t \in Workers, masked[j] = "no", CleansUp(t, j)', ctx'[t].work = "" \/ pc'[t] = "removed"
      PROVE  dir'[j] = "none"
  <2>1. t # j /\ pc'[t] = pc[t] /\ ctx'[t] = ctx[t]
    BY <1>2, <1>0 DEF CleansUp, CleanPc
  <2>2. Holds(t, j) /\ dir[j] = "none"
    BY <2>1, <1>1, <1>2 DEF CleansUp, Holds, CleanPc, DirInv
  <2> QED BY <2>2 DEF Free
<1>3. ASSUME NEW t \in Workers, masked[j] = "no", NEW it \in ctx'[t].todo, it.job = j, it.work = ""
      PROVE  dir'[j] = "none"
  <2>1. t # j /\ pc'[t] = pc[t] /\ ctx'[t] = ctx[t]
    BY <1>3, <1>0
  <2>2. Holds(t, j) /\ dir[j] = "none"
    BY <2>1, <1>1, <1>3 DEF Holds, DirInv
  <2> QED BY <2>2 DEF Free
<1> QED BY <1>0, <1>2, <1>3 DEF DirInv

(* The variables of a thread that has returned. *)
LEMMA LocalFacts ==
    ASSUME NEW t
    PROVE  /\ t \in Jobs => Local(t) \in Ctx /\ Local(t).job = t /\ Local(t).then = "done"
           /\ t \notin Jobs => Local(t) \in Ctx /\ Local(t).job = NoJob /\ Local(t).then = "idle"
           /\ Local(t).todo = {} /\ Local(t).final \in CLEAN_TERMINAL
  BY DEF Local, Ctx, CLEAN_TERMINAL

(* A builder that gives up becomes the first to clean up its job. *)
LEMMA AbandonStep ==
    ASSUME JobsInv, NEW j \in Jobs, pc[j] \in ActivePc, NEW result \in CLEAN_TERMINAL,
           Abandon(j, result), UNCHANGED <<jobs, dir, closed, masked>>, faults' \in 0..MaxFaults,
           pc[j] = "register" => jobs[j].cancel = "no"
    PROVE  JobsInv'
<1> DEFINE e == [ctx[j] EXCEPT !.final = result]
           l == "cleaning"
<1>1. /\ RowInv(j) /\ ThreadInv(j) /\ (closed = "no" => DirInv(j))
      /\ jobs[j] \in Row /\ ctx[j] \in Ctx /\ dir[j] \in {"none", "marked", "unmarked"}
      /\ jobs[j].status \notin RETAINED \cup {"delivering", "unborn"}
      /\ \A t \in Workers : ~(pc[t] \in StreamPc /\ ctx[t].job = j)
      /\ ctx[j].job = j /\ ctx[j].then = "done" /\ ctx[j].todo = {}
  BY Running
<1>2. /\ e \in Ctx /\ e.job = j /\ e.then = "done" /\ e.todo = {} /\ e.final \in CLEAN_TERMINAL
      /\ e.work = ctx[j].work
  BY <1>1 DEF Ctx
<1>3. pc' = [pc EXCEPT ![j] = l] /\ ctx' = [ctx EXCEPT ![j] = e] /\ slots' \in Nat
  BY Typed DEF Abandon, Goto
<1>5. l \in CleanPc /\ l \notin ActivePc \cup {"unborn", "done", "dead"} \cup StreamPc /\ l # "removed"
  BY DEF CleanPc, ActivePc, EarlyPc, CommittedPc, StreamPc
<1> HIDE DEF e, l
<1>6. /\ pc'[j] = l /\ ctx'[j] = e /\ jobs' = jobs
      /\ \A t \in Workers \ {j} : pc'[t] = pc[t] /\ ctx'[t] = ctx[t]
  BY <1>3, Typed, Kinds
<1>7. RowInv(j)'
  <2>1. \A t \in Workers : ~(pc'[t] \in StreamPc /\ ctx'[t].job = j)
    BY <1>1, <1>5, <1>6
  <2>2. l \notin CommittedPc
    BY <1>5 DEF ActivePc
  <2> QED BY <2>1, <2>2, <1>1, <1>5, <1>6 DEF RowInv
<1>8. ASSUME closed = "no" PROVE DirInv(j)'
  <2>1. dir'[j] = dir[j] /\ masked' = masked /\ DirInv(j)
    BY <1>1, <1>8
  <2>2. e.work = "" => dir[j] = "none"
    BY <1>1, <1>2, <2>1 DEF ThreadInv, DirInv
  <2>3. l \notin CommittedPc /\ l # "register"
    BY <1>5 DEF ActivePc, EarlyPc
  <2>4. ASSUME NEW t \in Workers, masked[j] = "no", CleansUp(t, j)', ctx'[t].work = "" \/ pc'[t] = "removed"
        PROVE  dir[j] = "none"
    BY <2>4, <2>1, <2>2, <1>5, <1>6 DEF CleansUp, DirInv
  <2>5. ASSUME NEW t \in Workers, masked[j] = "no", NEW it \in ctx'[t].todo, it.job = j, it.work = ""
        PROVE  dir[j] = "none"
    BY <2>5, <2>1, <1>2, <1>6 DEF DirInv
  <2> QED BY <2>1, <2>3, <2>4, <2>5, <1>5, <1>6 DEF DirInv
<1>9. /\ pc' \in [Threads -> Label] /\ ctx' \in [Threads -> Ctx] /\ jobs' \in [Jobs -> Row]
      /\ dir' \in [Jobs -> {"none", "marked", "unmarked"}] /\ closed' = closed /\ masked' = masked
      /\ \A u \in Threads \ {j} : pc'[u] = pc[u] /\ ctx'[u] = ctx[u]
      /\ \A i \in Jobs \ {j} : jobs'[i] = jobs[i] /\ dir'[i] = dir[i]
  BY <1>2, <1>3, <1>5, Typed DEF Label
<1> QED BY <1>2, <1>3, <1>5, <1>6, <1>7, <1>8, <1>9, BuilderStep

(* A builder that moves on without an effect. *)
LEMMA GoOn ==
    ASSUME JobsInv, NEW j \in Jobs, pc[j] \in ActivePc \ {"register"}, NEW l \in ActivePc \ {"register"},
           Goto(j, l), UNCHANGED <<jobs, dir, closed, ctx, masked>>,
           slots' \in Nat, faults' \in 0..MaxFaults,
           \/ jobs[j].cancel = "no" /\ (pc[j] \in EarlyPc <=> l \in EarlyPc)
           \/ jobs[j].cancel = "yes" /\ (l \in CommittedPc => pc[j] \in CommittedPc)
    PROVE  JobsInv'
<1>1. /\ RowInv(j) /\ ThreadInv(j) /\ (closed = "no" => DirInv(j))
      /\ jobs[j] \in Row /\ ctx[j] \in Ctx /\ dir[j] \in {"none", "marked", "unmarked"}
      /\ jobs[j].status \notin RETAINED \cup {"delivering", "unborn"}
      /\ ctx[j].job = j /\ ctx[j].then = "done" /\ ctx[j].todo = {}
  BY Running
<1>2. /\ pc' = [pc EXCEPT ![j] = l] /\ ctx' = [ctx EXCEPT ![j] = ctx[j]]
      /\ jobs' = [jobs EXCEPT ![j] = jobs[j]] /\ dir' = [dir EXCEPT ![j] = dir[j]]
      /\ jobs'[j] = jobs[j] /\ dir'[j] = dir[j] /\ masked' = masked
  BY Typed DEF Goto
<1>10. /\ pc' \in [Threads -> Label] /\ ctx' \in [Threads -> Ctx] /\ jobs' \in [Jobs -> Row]
       /\ dir' \in [Jobs -> {"none", "marked", "unmarked"}] /\ closed' = closed
       /\ \A u \in Threads \ {j} : pc'[u] = pc[u] /\ ctx'[u] = ctx[u]
       /\ \A i \in Jobs \ {j} : jobs'[i] = jobs[i] /\ dir'[i] = dir[i]
       /\ pc'[j] = l /\ ctx'[j] = ctx[j]
  BY <1>2, Typed, Kinds DEF Label
<1>3. l \in ActivePc \cup {"done"} /\ l \in ActivePc \cup CleanPc \cup {"done"} /\ l \notin CleanPc
  BY DEF ActivePc, EarlyPc, CommittedPc, CleanPc
<1>4. /\ l \in CommittedPc => l \notin EarlyPc
      /\ pc[j] \in ActivePc
  BY DEF EarlyPc, CommittedPc
<1>5. /\ jobs[j].cancel = "no" =>
           /\ Free(j) /\ jobs[j].work = "set"
           /\ jobs[j].status = IF l \in EarlyPc THEN "queued" ELSE "building"
      /\ l \in CommittedPc => Free(j) /\ jobs[j].status = "building" /\ jobs[j].work = "set"
      /\ jobs[j].status \in CLEAN_TERMINAL \cup {"trimmed"} => jobs[j].work = ""
  BY <1>1, <1>4 DEF RowInv
<1>6. RowInv(j)'
  BY <1>1, <1>2, <1>3, <1>4, <1>5, <1>10, MovedRow
<1>7. closed = "no" =>
        /\ jobs[j].cancel = "no" => dir[j] = "marked"
        /\ l \in CommittedPc => dir[j] = "marked"
        /\ masked[j] = "no" /\ jobs[j].work = "" => dir[j] = "none"
  BY <1>1, <1>4 DEF DirInv
<1>8. closed = "no" => DirInv(j)'
  BY <1>1, <1>2, <1>3, <1>4, <1>7, <1>10, MovedDir
<1>9. l \in ActivePc \ {"register"} => ctx[j].work = "set"
  BY <1>1 DEF ThreadInv
<1> QED BY <1>1, <1>2, <1>3, <1>6, <1>8, <1>9, <1>10, BuilderStep

(* _run, action by action. *)
LEMMA RunRegisterInv ==
    ASSUME JobsInv, NEW j \in Jobs, RunRegister(j)
    PROVE  JobsInv'
<1>0. pc[j] = "register" /\ pc[j] \in ActivePc /\ closed' = closed /\ masked' = masked
  BY DEF RunRegister, ActivePc, EarlyPc
<1>1. /\ RowInv(j) /\ ThreadInv(j) /\ (closed = "no" => DirInv(j))
      /\ jobs[j] \in Row /\ ctx[j] \in Ctx /\ dir[j] \in {"none", "marked", "unmarked"}
      /\ jobs[j].status \notin RETAINED \cup {"delivering", "unborn"}
      /\ ctx[j].job = j /\ ctx[j].then = "done" /\ ctx[j].todo = {}
  BY <1>0, Running
<1>2. CASE Cancelled(j) /\ Return(j) /\ UNCHANGED <<jobs, dir, slots, faults>>
  <2> DEFINE e == Local(j)
  <2>1. e \in Ctx /\ e.job = j /\ e.then = "done" /\ e.todo = {}
    BY LocalFacts
  <2>2. pc' = [pc EXCEPT ![j] = "done"] /\ ctx' = [ctx EXCEPT ![j] = e] /\ jobs' = jobs /\ dir' = dir
    BY <1>2, <2>1 DEF Return, Goto
  <2> HIDE DEF e
  <2>3. "done" \notin ActivePc \cup CleanPc /\ "done" \notin CommittedPc /\ "done" \in Label
    BY DEF ActivePc, EarlyPc, CommittedPc, CleanPc, Label
  <2>6. /\ pc' \in [Threads -> Label] /\ ctx' \in [Threads -> Ctx] /\ pc'[j] = "done" /\ ctx'[j] = e
        /\ \A u \in Threads \ {j} : pc'[u] = pc[u] /\ ctx'[u] = ctx[u]
    BY <2>1, <2>2, <2>3, Typed, Kinds
  <2>4. RowInv(j)'
    <3>1. jobs[j].status \in CLEAN_TERMINAL \cup {"trimmed"} => jobs[j].work = ""
      BY <1>1 DEF RowInv
    <3> QED BY <1>0, <1>1, <2>1, <2>2, <2>3, <2>6, <3>1, MovedRow
  <2>5. closed = "no" => DirInv(j)'
    <3>1. closed = "no" => (masked[j] = "no" /\ jobs[j].work = "" => dir[j] = "none")
      BY <1>1 DEF DirInv
    <3> QED BY <1>0, <1>1, <2>1, <2>2, <2>3, <2>6, <3>1, MovedDir
  <2> QED BY <1>0, <1>2, <2>1, <2>2, <2>3, <2>4, <2>5, <2>6, Typed, BuilderStep
<1>3. CASE /\ ~Cancelled(j)
           /\ jobs' = [jobs EXCEPT ![j].work = "set"]
           /\ dir' = [dir EXCEPT ![j] = "marked"]
           /\ ctx' = [ctx EXCEPT ![j].work = "set"]
           /\ Goto(j, "check")
           /\ UNCHANGED <<slots, faults>>
  <2> DEFINE e == [ctx[j] EXCEPT !.work = "set"]
             r == [jobs[j] EXCEPT !.work = "set"]
             l == "check"
  <2>1. e \in Ctx /\ e.job = j /\ e.then = "done" /\ e.todo = {} /\ e.work = "set"
    BY <1>1 DEF Ctx
  <2>2. r \in Row /\ r.work = "set" /\ r.status = jobs[j].status /\ r.cancel = jobs[j].cancel
    BY <1>1 DEF Row
  <2>3. /\ jobs[j].cancel = "no" /\ jobs[j].status = "queued" /\ Free(j)
    BY <1>0, <1>1, <1>3 DEF Cancelled, RowInv, ActivePc, EarlyPc, Row
  <2>4. /\ pc' = [pc EXCEPT ![j] = l] /\ ctx' = [ctx EXCEPT ![j] = e]
        /\ jobs' = [jobs EXCEPT ![j] = r] /\ dir' = [dir EXCEPT ![j] = "marked"]
    BY <1>3 DEF Goto
  <2>5. /\ l \in EarlyPc /\ l \in ActivePc /\ l \notin CleanPc /\ l \notin CommittedPc /\ l # "register"
        /\ l \in Label /\ l \in ActivePc \cup {"done"}
    BY DEF ActivePc, EarlyPc, CommittedPc, CleanPc, Label
  <2> HIDE DEF e, r, l
  <2>6. /\ pc' \in [Threads -> Label] /\ ctx' \in [Threads -> Ctx] /\ pc'[j] = l /\ ctx'[j] = e
        /\ jobs' \in [Jobs -> Row] /\ dir' \in [Jobs -> {"none", "marked", "unmarked"}]
        /\ \A u \in Threads \ {j} : pc'[u] = pc[u] /\ ctx'[u] = ctx[u]
        /\ \A i \in Jobs \ {j} : jobs'[i] = jobs[i] /\ dir'[i] = dir[i]
        /\ jobs'[j] = r /\ dir'[j] = "marked"
    BY <2>1, <2>2, <2>4, <2>5, Typed, Kinds
  <2>7. r.status \notin RETAINED \cup CLEAN_TERMINAL \cup {"unborn", "delivering", "trimmed", "cleanup-pending"}
    BY <2>2, <2>3 DEF RETAINED, CLEAN_TERMINAL
  <2>8. RowInv(j)'
    BY <1>0, <2>1, <2>2, <2>3, <2>5, <2>6, <2>7, MovedRow
  <2>9. closed = "no" => DirInv(j)'
    BY <1>0, <2>1, <2>2, <2>3, <2>5, <2>6, <2>7, MovedDir
  <2>10. slots' \in Nat /\ faults' \in 0..MaxFaults
    BY <1>3, Typed
  <2> QED BY <1>0, <2>1, <2>5, <2>6, <2>7, <2>8, <2>9, <2>10, BuilderStep
<1>4. CASE ~Cancelled(j) /\ Fault /\ Abandon(j, "failed") /\ UNCHANGED <<jobs, dir>>
  <2>1. jobs[j].cancel = "no" /\ "failed" \in CLEAN_TERMINAL
    BY <1>1, <1>4 DEF Cancelled, Row, CLEAN_TERMINAL
  <2>2. faults' \in 0..MaxFaults
    BY <1>4, Typed, JobsAssumption DEF Fault
  <2> QED BY <1>0, <1>4, <2>1, <2>2, AbandonStep
<1> QED BY <1>2, <1>3, <1>4 DEF RunRegister

(* The probes: the builder goes on, or ends as cancelled. *)
LEMMA RunProbeInv ==
    ASSUME JobsInv, NEW j \in Jobs, RunProbe(j)
    PROVE  JobsInv'
<1>0. /\ pc[j] \in {"check", "admitted", "locating", "report", "built"}
      /\ UNCHANGED <<jobs, dir, closed, masked, faults>>
  BY DEF RunProbe, AfterProbe
<1>1. pc[j] \in ActivePc \ {"register"}
  BY <1>0 DEF ActivePc, EarlyPc, CommittedPc
<1>2. CASE ~Cancelled(j) /\ Goto(j, AfterProbe[pc[j]]) /\ UNCHANGED <<slots, ctx>>
  <2>1. /\ AfterProbe[pc[j]] \in ActivePc \ {"register"}
        /\ pc[j] \in EarlyPc <=> AfterProbe[pc[j]] \in EarlyPc
    BY <1>0 DEF AfterProbe, ActivePc, EarlyPc, CommittedPc
  <2>2. jobs[j].cancel = "no"
    BY <1>2, Typed DEF Cancelled, Row
  <2>3. slots' \in Nat /\ faults' \in 0..MaxFaults
    BY <1>0, <1>2, Typed
  <2> QED BY <1>0, <1>1, <1>2, <2>1, <2>2, <2>3, GoOn
<1>3. CASE Cancelled(j) /\ Abandon(j, "cancelled")
  <2>1. "cancelled" \in CLEAN_TERMINAL /\ faults' \in 0..MaxFaults
    BY <1>0, Typed DEF CLEAN_TERMINAL
  <2> QED BY <1>0, <1>1, <1>3, <2>1, AbandonStep
<1> QED BY <1>2, <1>3 DEF RunProbe

(* A report marks the row; a row that was taken meanwhile is cancelled. *)
LEMMA RunUpdateInv ==
    ASSUME JobsInv, NEW j \in Jobs, RunUpdate(j)
    PROVE  JobsInv'
<1> DEFINE l == AfterUpdate[pc[j]]
           new == IF pc[j] = "queue" THEN "queued" ELSE "building"
<1>0. /\ pc[j] \in {"queue", "mark_locating", "mark"}
      /\ jobs' = Updated(j, new) /\ Goto(j, l)
      /\ UNCHANGED <<dir, closed, slots, ctx, masked, faults>>
  BY DEF RunUpdate, AfterUpdate
<1>1. /\ pc[j] \in ActivePc \ {"register"} /\ l \in ActivePc \ {"register"} /\ l \in Label
      /\ l \notin CleanPc
      /\ new = IF l \in EarlyPc THEN "queued" ELSE "building"
      /\ l \in CommittedPc => new = "building"
      /\ l \in CommittedPc <=> pc[j] \in CommittedPc
  BY <1>0 DEF AfterUpdate, ActivePc, EarlyPc, CommittedPc, CleanPc, Label
<1>2. /\ RowInv(j) /\ ThreadInv(j) /\ (closed = "no" => DirInv(j))
      /\ jobs[j] \in Row /\ ctx[j] \in Ctx /\ dir[j] \in {"none", "marked", "unmarked"}
      /\ jobs[j].status \notin RETAINED \cup {"delivering", "unborn"}
      /\ ctx[j].job = j /\ ctx[j].then = "done" /\ ctx[j].todo = {}
  BY <1>1, Running
<1>3. slots' \in Nat /\ faults' \in 0..MaxFaults
  BY <1>0, Typed
<1>4. CASE ~Present(j)
  <2>1. jobs' = jobs /\ jobs[j].status = "trimmed"
    BY <1>0, <1>2, <1>4 DEF Updated, Present
  <2>2. jobs[j].cancel = "yes"
    BY <2>1, <1>1, <1>2 DEF RowInv, Row
  <2> HIDE DEF l, new
  <2> QED BY <1>0, <1>1, <1>3, <2>1, <2>2, GoOn
<1>5. CASE Present(j)
  <2> DEFINE r == [jobs[j] EXCEPT !.status = new]
  <2>1. r \in Row /\ r.status = new /\ r.cancel = jobs[j].cancel /\ r.work = jobs[j].work
    BY <1>2 DEF Row, Status, Occupied
  <2>2. jobs' = [jobs EXCEPT ![j] = r]
    BY <1>0, <1>5 DEF Updated
  <2>3. new \notin RETAINED \cup CLEAN_TERMINAL \cup {"unborn", "delivering", "trimmed", "cleanup-pending"}
    BY DEF RETAINED, CLEAN_TERMINAL
  <2> HIDE DEF r, l, new
  <2>4. /\ pc' \in [Threads -> Label] /\ ctx' \in [Threads -> Ctx] /\ pc'[j] = l /\ ctx'[j] = ctx[j]
        /\ jobs' \in [Jobs -> Row] /\ dir' \in [Jobs -> {"none", "marked", "unmarked"}]
        /\ \A u \in Threads \ {j} : pc'[u] = pc[u] /\ ctx'[u] = ctx[u]
        /\ \A i \in Jobs \ {j} : jobs'[i] = jobs[i] /\ dir'[i] = dir[i]
        /\ jobs'[j] = r /\ dir'[j] = dir[j] /\ masked' = masked /\ closed' = closed
    BY <1>0, <1>1, <2>1, <2>2, Typed, Kinds DEF Goto
  <2>5. /\ jobs[j].cancel = "no" => Free(j) /\ jobs[j].work = "set"
        /\ l \in CommittedPc => Free(j) /\ jobs[j].work = "set"
    BY <1>1, <1>2 DEF RowInv
  <2>6. RowInv(j)'
    BY <1>1, <1>2, <2>1, <2>3, <2>4, <2>5, MovedRow
  <2>7. closed = "no" =>
          /\ jobs[j].cancel = "no" => dir[j] = "marked"
          /\ l \in CommittedPc => dir[j] = "marked"
          /\ masked[j] = "no" /\ jobs[j].work = "" => dir[j] = "none"
    BY <1>1, <1>2 DEF DirInv
  <2>8. closed = "no" => DirInv(j)'
    BY <1>1, <1>2, <2>1, <2>3, <2>4, <2>7, MovedDir
  <2>9. ctx[j].work = "set"
    BY <1>1, <1>2 DEF ThreadInv
  <2> QED BY <1>1, <1>2, <1>3, <2>1, <2>3, <2>4, <2>6, <2>8, <2>9, BuilderStep
<1> QED BY <1>4, <1>5

(* The builder waits for a build slot. *)
LEMMA RunSlotInv ==
    ASSUME JobsInv, NEW j \in Jobs, RunSlot(j)
    PROVE  JobsInv'
<1>0. pc[j] = "slot" /\ UNCHANGED <<jobs, dir, closed, masked, faults>>
  BY DEF RunSlot
<1>1. /\ pc[j] \in ActivePc \ {"register"} /\ "admitted" \in ActivePc \ {"register"}
      /\ pc[j] \in EarlyPc /\ "admitted" \in EarlyPc /\ "admitted" \notin CommittedPc
      /\ jobs[j].cancel \in {"yes", "no"} /\ faults' \in 0..MaxFaults
  BY <1>0, Typed DEF ActivePc, EarlyPc, CommittedPc, Row
<1>2. CASE slots > 0 /\ slots' = slots - 1 /\ Goto(j, "admitted") /\ UNCHANGED ctx
  <2>1. slots' \in Nat
    BY <1>2, Typed
  <2> QED BY <1>0, <1>1, <1>2, <2>1, GoOn
<1>3. CASE slots = 0 /\ Abandon(j, "failed")
  <2>1. "failed" \in CLEAN_TERMINAL
    BY DEF CLEAN_TERMINAL
  <2> QED BY <1>0, <1>1, <1>3, <2>1, AbandonStep
<1> QED BY <1>2, <1>3 DEF RunSlot

(* It reads its row, and asks for the size of its output. *)
LEMMA RunLookUpInv ==
    ASSUME JobsInv, NEW j \in Jobs, RunLookUp(j)
    PROVE  JobsInv'
<1>0. pc[j] \in {"name", "stat"} /\ UNCHANGED <<jobs, dir, closed, masked, faults>>
  BY DEF RunLookUp
<1>1. /\ pc[j] \in ActivePc \ {"register"} /\ pc[j] \notin EarlyPc
      /\ {"report", "adopt"} \subseteq ActivePc \ {"register"}
      /\ {"report", "adopt"} \cap EarlyPc = {} /\ "report" \notin CommittedPc
      /\ "stat" \in CommittedPc
      /\ jobs[j].cancel \in {"yes", "no"} /\ faults' \in 0..MaxFaults
  BY <1>0, Typed DEF ActivePc, EarlyPc, CommittedPc, Row
<1>2. CASE pc[j] = "name" /\ Goto(j, "report") /\ UNCHANGED <<slots, ctx>>
  <2>1. slots' \in Nat
    BY <1>2, Typed
  <2> QED BY <1>0, <1>1, <1>2, <2>1, GoOn
<1>3. CASE pc[j] = "stat" /\ Goto(j, "adopt") /\ UNCHANGED <<slots, ctx>>
  <2>1. slots' \in Nat
    BY <1>3, Typed
  <2> QED BY <1>0, <1>1, <1>3, <2>1, GoOn
<1>4. CASE Abandon(j, "failed")
  <2>1. "failed" \in CLEAN_TERMINAL
    BY DEF CLEAN_TERMINAL
  <2> QED BY <1>0, <1>1, <1>4, <2>1, AbandonStep
<1> QED BY <1>2, <1>3, <1>4 DEF RunLookUp

(* It writes the package; nobody has taken the workspace away. *)
LEMMA RunBuildInv ==
    ASSUME JobsInv, NEW j \in Jobs, RunBuild(j)
    PROVE  JobsInv'
<1>0. pc[j] = "build" /\ UNCHANGED <<jobs, closed, masked>>
  BY DEF RunBuild
<1>1. /\ pc[j] \in ActivePc \ {"register"} /\ pc[j] \notin EarlyPc /\ pc[j] \in CommittedPc
      /\ {"report", "built"} \subseteq ActivePc \ {"register"}
      /\ {"report", "built"} \cap EarlyPc = {} /\ "report" \notin CommittedPc
      /\ jobs[j].cancel \in {"yes", "no"}
  BY <1>0, Typed DEF ActivePc, EarlyPc, CommittedPc, Row
<1>2. CASE Goto(j, "report") /\ UNCHANGED <<dir, slots, ctx, faults>>
  <2>1. slots' \in Nat /\ faults' \in 0..MaxFaults
    BY <1>2, Typed
  <2> QED BY <1>0, <1>1, <1>2, <2>1, GoOn
<1>3. CASE /\ dir' = [dir EXCEPT ![j] = IF @ = "none" THEN "unmarked" ELSE @]
           /\ Goto(j, "built")
           /\ UNCHANGED <<slots, ctx, faults>>
  <2>1. slots' \in Nat /\ faults' \in 0..MaxFaults
    BY <1>3, Typed
  <2>2. CASE dir[j] # "none"
    <3>1. dir' = dir
      BY <1>3, <2>2, Typed
    <3> QED BY <1>0, <1>1, <1>3, <2>1, <3>1, GoOn
  <2>3. CASE dir[j] = "none"
    <3> DEFINE l == "built"
    <3>1. l \in Label /\ l \in ActivePc /\ l \in ActivePc \cup {"done"} /\ l \notin CleanPc /\ l # "register"
      BY DEF Label, ActivePc, CommittedPc, EarlyPc, CleanPc
    <3>2. /\ RowInv(j) /\ ThreadInv(j) /\ (closed = "no" => DirInv(j))
          /\ jobs[j] \in Row /\ ctx[j] \in Ctx
          /\ jobs[j].status \notin RETAINED \cup {"delivering", "unborn"}
          /\ ctx[j].job = j /\ ctx[j].then = "done" /\ ctx[j].todo = {}
      BY <1>1, Running
    <3>3. closed # "no"
      BY <3>2, <2>3, <1>1 DEF DirInv
    <3>4. /\ pc' \in [Threads -> Label] /\ ctx' \in [Threads -> Ctx] /\ pc'[j] = l /\ ctx'[j] = ctx[j]
          /\ jobs' \in [Jobs -> Row] /\ dir' \in [Jobs -> {"none", "marked", "unmarked"}]
          /\ \A u \in Threads \ {j} : pc'[u] = pc[u] /\ ctx'[u] = ctx[u]
          /\ \A i \in Jobs \ {j} : jobs'[i] = jobs[i] /\ dir'[i] = dir[i]
          /\ jobs'[j] = jobs[j] /\ masked' = masked /\ closed' = closed
      BY <1>0, <1>3, <3>1, Typed, Kinds DEF Goto
    <3> HIDE DEF l
    <3>5. Free(j) /\ jobs[j].status = "building" /\ jobs[j].work = "set" /\ ctx[j].work = "set"
      BY <1>1, <3>2 DEF RowInv, ThreadInv
    <3>6. RowInv(j)'
      <4>1. l \notin EarlyPc
        BY DEF l, EarlyPc
      <4>2. "building" \notin RETAINED \cup CLEAN_TERMINAL \cup {"trimmed", "unborn", "delivering"}
        BY DEF RETAINED, CLEAN_TERMINAL
      <4>3. pc[j] \in ActivePc
        BY <1>1
      <4> QED BY <4>3, <3>1, <3>2, <3>4, <3>5, <4>1, <4>2, MovedRow
    <3> QED BY <2>1, <3>1, <3>2, <3>3, <3>4, <3>5, <3>6, BuilderStep
  <2> QED BY <2>2, <2>3
<1>4. CASE Fault /\ Abandon(j, "failed") /\ UNCHANGED dir
  <2>1. "failed" \in CLEAN_TERMINAL /\ faults' \in 0..MaxFaults
    BY <1>4, Typed, JobsAssumption DEF CLEAN_TERMINAL, Fault
  <2> QED BY <1>0, <1>1, <1>4, <2>1, AbandonStep
<1> QED BY <1>2, <1>3, <1>4 DEF RunBuild

(* READY: nobody else holds the job, and its workspace is intact. *)
LEMMA AdoptInv ==
    ASSUME JobsInv, NEW j \in Jobs, adopt_ready(j)
    PROVE  JobsInv'
<1>0. /\ pc[j] = "adopt" /\ pc[j] \in ActivePc \ {"register"} /\ pc[j] \in CommittedPc
      /\ UNCHANGED <<dir, closed, masked, faults>> /\ faults' \in 0..MaxFaults
  BY Typed DEF adopt_ready, ActivePc, CommittedPc
<1>1. CASE /\ ~Cancelled(j)
           /\ jobs' = [jobs EXCEPT ![j].status = "ready", ![j].deadline = "ahead"]
           /\ slots' = slots + 1
           /\ Return(j)
  <2> DEFINE r == [[jobs[j] EXCEPT !.status = "ready"] EXCEPT !.deadline = "ahead"]
             e == Local(j)
             l == "done"
  <2>1. /\ RowInv(j) /\ ThreadInv(j) /\ (closed = "no" => DirInv(j))
        /\ jobs[j] \in Row /\ ctx[j] \in Ctx
    BY <1>0, Running
  <2>2. /\ r \in Row /\ r.status = "ready" /\ r.work = jobs[j].work
    BY <2>1 DEF Row, Status, Occupied, RETAINED
  <2>3. e \in Ctx /\ e.job = j /\ e.then = "done" /\ e.todo = {}
    BY LocalFacts
  <2>4. jobs' = [jobs EXCEPT ![j] = r] /\ ctx' = [ctx EXCEPT ![j] = e] /\ pc' = [pc EXCEPT ![j] = l]
    BY <1>1, <2>3, Typed DEF Return, Goto
  <2>5. /\ l \notin ActivePc \cup CleanPc /\ l \notin CommittedPc /\ l \in Label
        /\ l \in ActivePc \cup {"done"} /\ l # "register"
    BY DEF ActivePc, EarlyPc, CommittedPc, CleanPc, Label
  <2>6. Free(j) /\ r.work = "set" /\ (closed = "no" => dir[j] = "marked")
    BY <1>0, <2>1, <2>2 DEF RowInv, DirInv
  <2>7. r.status \in RETAINED /\ r.status \notin CLEAN_TERMINAL \cup {"trimmed", "unborn", "delivering", "cleanup-pending"}
    BY <2>2 DEF RETAINED, CLEAN_TERMINAL
  <2>8. l = "done"
    OBVIOUS
  <2> HIDE DEF r, e, l
  <2>9. /\ pc' \in [Threads -> Label] /\ ctx' \in [Threads -> Ctx] /\ pc'[j] = l /\ ctx'[j] = e
        /\ jobs' \in [Jobs -> Row] /\ dir' \in [Jobs -> {"none", "marked", "unmarked"}]
        /\ \A u \in Threads \ {j} : pc'[u] = pc[u] /\ ctx'[u] = ctx[u]
        /\ \A i \in Jobs \ {j} : jobs'[i] = jobs[i] /\ dir'[i] = dir[i]
        /\ jobs'[j] = r /\ dir'[j] = dir[j] /\ masked' = masked /\ closed' = closed
    BY <1>0, <2>2, <2>3, <2>4, <2>5, Typed, Kinds
  <2>10. RowInv(j)'
    BY <1>0, <2>2, <2>3, <2>5, <2>6, <2>7, <2>8, <2>9, MovedRow
  <2>11. closed = "no" => DirInv(j)'
    BY <1>0, <2>2, <2>3, <2>5, <2>6, <2>7, <2>8, <2>9, MovedDir
  <2>12. slots' \in Nat
    BY <1>1, Typed
  <2> QED BY <1>0, <2>3, <2>5, <2>7, <2>9, <2>10, <2>11, <2>12, BuilderStep
<1>2. CASE Cancelled(j) /\ Abandon(j, "cancelled") /\ UNCHANGED jobs
  <2>1. "cancelled" \in CLEAN_TERMINAL
    BY DEF CLEAN_TERMINAL
  <2> QED BY <1>0, <1>2, <2>1, AbandonStep
<1> QED BY <1>1, <1>2 DEF adopt_ready

-----------------------------------------------------------------------------
(* What is known of a job that a thread cleans up: it is not offered, its
   builder can no longer get it ready, and nobody streams it. *)
LEMMA Held ==
    ASSUME JobsInv, NEW t \in Workers, pc[t] \in CleanPc
    PROVE  /\ ctx[t] \in Ctx /\ ctx[t].job \in Jobs /\ ThreadInv(t)
           /\ jobs[ctx[t].job] \in Row /\ RowInv(ctx[t].job) /\ (closed = "no" => DirInv(ctx[t].job))
           /\ jobs[ctx[t].job].status \notin RETAINED \cup {"unborn"}
           /\ jobs[ctx[t].job].status = "delivering" => pc[t] = "cleaning" /\ ctx[t].todo = {}
           /\ pc[ctx[t].job] \notin CommittedPc \cup {"unborn"}
           /\ pc[ctx[t].job] \in ActivePc => jobs[ctx[t].job].cancel = "yes"
           /\ \A u \in Workers : ~(pc[u] \in StreamPc /\ ctx[u].job = ctx[t].job)
           /\ t \in Jobs => ctx[t].job = t
<1> DEFINE j == ctx[t].job
<1>1. t \in Threads /\ ThreadInv(t) /\ ctx[t] \in Ctx
  BY Kinds, Typed DEF JobsInv
<1>2. j \in Jobs /\ (t \in Jobs => j = t)
  BY <1>1 DEF ThreadInv
<1>3. RowInv(j) /\ (closed = "no" => DirInv(j)) /\ jobs[j] \in Row
  BY <1>2, Typed DEF JobsInv
<1>4. Holds(t, j)
  BY DEF Holds
<1> HIDE DEF j
<1>5. ~Free(j)
  BY <1>4 DEF Free
<1>6. pc[t] \notin StreamPc
  BY DEF CleanPc, StreamPc
<1>7. /\ jobs[j].status \notin RETAINED \cup {"unborn"}
      /\ jobs[j].status = "delivering" => pc[t] = "cleaning" /\ ctx[t].todo = {}
  BY <1>3, <1>4, <1>5, <1>6 DEF RowInv
<1>8. /\ pc[j] \notin CommittedPc \cup {"unborn"}
      /\ pc[j] \in ActivePc => jobs[j].cancel = "yes"
  BY <1>3, <1>5, <1>7 DEF RowInv, Row
<1>9. ASSUME NEW u \in Workers, pc[u] \in StreamPc, ctx[u].job = j PROVE FALSE
  <2>1. Holds(u, j) /\ jobs[j].status = "delivering"
    BY <1>3, <1>9 DEF Holds, RowInv
  <2>2. u = t
    BY <2>1, <1>3, <1>4 DEF RowInv
  <2> QED BY <2>2, <1>6, <1>9
<1> QED BY <1>1, <1>2, <1>3, <1>7, <1>8, <1>9 DEF j

(* Such a row is consistent as long as it does not come back. *)
LEMMA LostRow ==
    ASSUME NEW j \in Jobs, jobs'[j].status \notin RETAINED \cup {"delivering", "unborn"},
           pc'[j] \notin CommittedPc \cup {"unborn"},
           pc'[j] \in ActivePc => jobs'[j].cancel = "yes",
           jobs'[j].status \in CLEAN_TERMINAL \cup {"trimmed"} => jobs'[j].work = "",
           \A u \in Workers : ~(pc'[u] \in StreamPc /\ ctx'[u].job = j)
    PROVE  RowInv(j)'
  BY DEF RowInv

(* ... and its workspace may change under a clean-up. *)
LEMMA LostDir ==
    ASSUME NEW j \in Jobs, jobs'[j].status \notin RETAINED \cup {"delivering", "unborn"},
           pc'[j] \notin CommittedPc,
           pc'[j] \in ActivePc => jobs'[j].cancel = "yes",
           \/ dir'[j] = "none"
           \/ masked'[j] # "no"
           \/ /\ jobs'[j].work # ""
              /\ \A u \in Workers : CleansUp(u, j)' => ctx'[u].work # "" /\ pc'[u] # "removed"
              /\ \A u \in Workers : \A it \in ctx'[u].todo : it.job = j => it.work # ""
    PROVE  DirInv(j)'
<1>1. pc'[j] = "register" => pc'[j] \in ActivePc
  BY DEF ActivePc, EarlyPc
<1> QED BY <1>1 DEF DirInv

(* Steps of the thread that shuts the service down leave rows and the other
   threads alone, and are taken when it is closed. *)
LEMMA CloserStep ==
    ASSUME JobsInv, TypeOK', pc' \in [Threads -> Label], closed' = "yes",
           ThreadInv(Closer)', \A i \in Jobs : SameRow(i),
           \A u \in Threads \ {Closer} : pc'[u] = pc[u] /\ ctx'[u] = ctx[u]
    PROVE  JobsInv'
<1>1. \A u \in Threads : ThreadInv(u)'
  BY ThreadFrame
<1>2. ASSUME NEW i \in Jobs PROVE RowInv(i)'
  <2>1. pc'[i] = pc[i] /\ \A u \in Workers : Passes(u, i)
    BY Kinds DEF Passes
  <2> QED BY <2>1, RowFrame
<1> QED BY <1>1, <1>2 DEF JobsInv

(* The thread's own state after it has gone on with a list of clean-ups. *)
TookUp(t, todo) ==
    /\ pc' \in [Threads -> Label] /\ ctx' \in [Threads -> Ctx]
    /\ \A u \in Threads \ {t} : pc'[u] = pc[u] /\ ctx'[u] = ctx[u]
    /\ ThreadInv(t)'
    /\ pc'[t] \notin StreamPc /\ (pc'[t] \in CleanPc => pc'[t] = "cleaning")
    /\ pc'[t] = "cleaning" =>
         \E it \in todo : it.job = ctx'[t].job /\ it.work = ctx'[t].work /\ ctx'[t].todo = todo \ {it}
    /\ ctx'[t].todo \subseteq todo
    /\ t \in Jobs => pc'[t] = "done"

(* Proceed, for any thread but the shutdown's. *)
LEMMA ProceedThread ==
    ASSUME JobsInv, NEW t \in Workers, NEW todo \in SUBSET Item,
           NEW then \in {"idle", "done", "begin", "reap"}, NEW req \in Jobs \cup {NoJob},
           Proceed(t, todo, then, req), then = "begin" => req \in Jobs,
           t \in Jobs => todo = {} /\ then = "done",
           t \in Callers => then # "done", t = Reaper => then = "idle"
    PROVE  TookUp(t, todo)
<1>0. t \in Threads /\ ctx \in [Threads -> Ctx] /\ pc \in [Threads -> Label]
  BY Typed, Kinds
<1>1. /\ pc' \in [Threads -> Label] /\ ctx' \in [Threads -> Ctx]
      /\ \A u \in Threads \ {t} : pc'[u] = pc[u] /\ ctx'[u] = ctx[u]
      /\ \/ /\ pc'[t] = IF t = Closer THEN "prove" ELSE "cleaning"
            /\ ctx'[t].then = then /\ ctx'[t].req = req /\ ctx'[t].final \in CLEAN_TERMINAL
            /\ ctx'[t].todo \subseteq todo /\ ctx'[t].job \in Jobs
            /\ \E it \in todo :
                 it.job = ctx'[t].job /\ it.work = ctx'[t].work /\ ctx'[t].todo = todo \ {it}
         \/ /\ todo = {} /\ pc'[t] = then
            /\ ctx'[t].todo = {} /\ ctx'[t].then = IF t \in Jobs THEN "done" ELSE "idle"
            /\ ctx'[t].job = IF then = "begin" THEN req ELSE IF t \in Jobs THEN t ELSE NoJob
  <2>1. Proceeded(t, todo, then, req)
    BY <1>0, ProceedFacts
  <2> QED BY <2>1 DEF Proceeded
<1>3. t \in Threads /\ t # Closer
  BY Kinds
<1>4. CASE /\ pc'[t] = "cleaning"
           /\ ctx'[t].then = then /\ ctx'[t].req = req /\ ctx'[t].final \in CLEAN_TERMINAL
           /\ ctx'[t].todo \subseteq todo /\ ctx'[t].job \in Jobs
           /\ \E it \in todo :
                it.job = ctx'[t].job /\ it.work = ctx'[t].work /\ ctx'[t].todo = todo \ {it}
  <2>1. pc'[t] \in CleanPc /\ pc'[t] \notin StreamPc \cup {"begin", "finish", "retain"} /\ t \notin Jobs
    BY <1>4 DEF CleanPc, StreamPc
  <2>2. ThreadInv(t)'
    BY <1>1, <1>3, <1>4, <2>1 DEF ThreadInv
  <2> QED BY <1>1, <1>4, <2>1, <2>2 DEF TookUp
<1>5. CASE /\ todo = {} /\ pc'[t] = then
           /\ ctx'[t].todo = {} /\ ctx'[t].then = IF t \in Jobs THEN "done" ELSE "idle"
           /\ ctx'[t].job = IF then = "begin" THEN req ELSE IF t \in Jobs THEN t ELSE NoJob
  <2>1. pc'[t] \notin CleanPc /\ pc'[t] \notin StreamPc \cup {"finish", "retain"} /\ pc'[t] \notin ActivePc
    BY <1>5 DEF CleanPc, StreamPc, ActivePc, EarlyPc, CommittedPc
  <2>2. ThreadInv(t)'
    BY <1>1, <1>3, <1>5, <2>1, Kinds DEF ThreadInv
  <2>3. pc'[t] # "cleaning"
    BY <1>5
  <2> QED BY <1>1, <1>5, <2>1, <2>2, <2>3 DEF TookUp
<1> QED BY <1>1, <1>3, <1>4, <1>5

(* _finish_cleanup, action by action. *)
LEMMA MarkCleaningInv ==
    ASSUME JobsInv, NEW t \in Threads, MarkCleaning(t)
    PROVE  JobsInv'
<1>0. /\ pc[t] = "cleaning" /\ jobs' = Updated(ctx[t].job, "cleaning") /\ pc' = [pc EXCEPT ![t] = "prove"]
      /\ UNCHANGED <<dir, closed, slots, ctx, masked, faults>>
  BY DEF MarkCleaning, Goto
<1>1. t \in Workers /\ pc[t] \in CleanPc
  BY <1>0, Kinds DEF JobsInv, ThreadInv, CleanPc, Workers
<1>j. PICK j \in Jobs : j = ctx[t].job
  BY <1>1, Held
<1>2. /\ ctx[t] \in Ctx /\ j \in Jobs /\ ThreadInv(t)
      /\ jobs[j] \in Row /\ RowInv(j) /\ (closed = "no" => DirInv(j))
      /\ jobs[j].status \notin RETAINED \cup {"unborn"}
      /\ pc[j] \notin CommittedPc \cup {"unborn"}
      /\ pc[j] \in ActivePc => jobs[j].cancel = "yes"
      /\ \A u \in Workers : ~(pc[u] \in StreamPc /\ ctx[u].job = j)
      /\ t \in Jobs => j = t
  BY <1>1, <1>j, Held
<1>3. "prove" \in CleanPc /\ "prove" \in Label /\ "prove" \notin StreamPc \cup ActivePc
      /\ "prove" \notin CommittedPc \cup {"unborn", "begin", "finish", "retain", "removed"}
  BY DEF CleanPc, Label, StreamPc, ActivePc, EarlyPc, CommittedPc
<1>4. /\ pc' \in [Threads -> Label] /\ ctx' = ctx /\ pc'[t] = "prove"
      /\ \A u \in Threads \ {t} : pc'[u] = pc[u] /\ ctx'[u] = ctx[u]
  BY <1>0, <1>3, Typed
<1>5. /\ jobs' \in [Jobs -> Row] /\ \A i \in Jobs \ {j} : jobs'[i] = jobs[i]
      /\ jobs'[j].status \in {"cleaning", "trimmed"}
      /\ jobs'[j].work = jobs[j].work /\ jobs'[j].cancel = jobs[j].cancel
      /\ jobs'[j].status = "trimmed" => jobs[j].status = "trimmed"
  <2>1. CASE ~Present(j)
    <3>1. jobs' = jobs
      BY <1>0, <1>j, <2>1 DEF Updated
    <3> QED BY <2>1, <1>2, <3>1, Typed DEF Present
  <2>2. CASE Present(j)
    <3> DEFINE r == [jobs[j] EXCEPT !.status = "cleaning"]
    <3>1. r \in Row /\ r.status = "cleaning" /\ r.work = jobs[j].work /\ r.cancel = jobs[j].cancel
      BY <1>2 DEF Row, Status, Occupied
    <3>2. jobs' = [jobs EXCEPT ![j] = r]
      BY <1>0, <1>j, <2>2 DEF Updated
    <3> HIDE DEF r
    <3> QED BY <3>1, <3>2, <1>2, Typed
  <2> QED BY <2>1, <2>2
<1>6. TypeOK'
  <2>1. \A i \in Jobs : jobs'[i].status = "cleanup-pending" => jobs'[i].target # "none"
    BY <1>5, Typed
  <2> QED BY <1>0, <1>5, <2>1, Typed DEF TypeOK, Row
<1>7. ThreadInv(t)'
  BY <1>0, <1>1, <1>2, <1>3, <1>4, Kinds DEF ThreadInv
<1>a. /\ pc'[j] \notin CommittedPc \cup {"unborn"}
      /\ pc'[j] \in ActivePc => jobs'[j].cancel = "yes"
      /\ jobs'[j].status \notin RETAINED \cup {"delivering", "unborn"}
  <2>1. CASE j = t
    BY <2>1, <1>3, <1>4, <1>5 DEF RETAINED
  <2>2. CASE j # t
    <3>1. pc'[j] = pc[j]
      BY <2>2, <1>2, <1>4, Kinds
    <3> QED BY <3>1, <1>2, <1>5 DEF RETAINED
  <2> QED BY <2>1, <2>2
<1>8. RowInv(j)'
  <2>1. jobs'[j].status \in CLEAN_TERMINAL \cup {"trimmed"} => jobs'[j].work = ""
    BY <1>2, <1>5 DEF RowInv, CLEAN_TERMINAL
  <2>4. \A u \in Workers : ~(pc'[u] \in StreamPc /\ ctx'[u].job = j)
    BY <1>2, <1>3, <1>4, Kinds
  <2> QED BY <1>2, <1>a, <2>1, <2>4, LostRow
<1>9. ASSUME closed = "no" PROVE DirInv(j)'
  <2>3. dir' = dir /\ masked' = masked /\ jobs[j].work \in {"", "set"} /\ DirInv(j)
    BY <1>0, <1>2, <1>9 DEF Row
  <2>4. ASSUME dir[j] # "none", masked[j] = "no", NEW u \in Workers, CleansUp(u, j)'
        PROVE  ctx'[u].work # "" /\ pc'[u] # "removed"
    <3>1. u = t \/ pc'[u] = pc[u]
      BY <1>4, Kinds
    <3>2. CleansUp(u, j)
      BY <2>4, <3>1, <1>0, <1>4 DEF CleansUp
    <3>3. ctx[u].work # "" /\ pc[u] # "removed"
      BY <3>2, <2>3, <2>4 DEF DirInv
    <3> QED BY <3>1, <3>3, <1>3, <1>4
  <2>5. \/ dir'[j] = "none" \/ masked'[j] # "no"
        \/ /\ jobs'[j].work # ""
           /\ \A u \in Workers : CleansUp(u, j)' => ctx'[u].work # "" /\ pc'[u] # "removed"
           /\ \A u \in Workers : \A it \in ctx'[u].todo : it.job = j => it.work # ""
    BY <2>3, <2>4, <1>4, <1>5 DEF DirInv
  <2>6. pc'[j] \notin CommittedPc
    BY <1>a
  <2> QED BY <1>2, <1>a, <2>5, <2>6, LostDir
<1> DEFINE J == {j}
<1>10. /\ \A i \in Jobs \ J : SameRow(i)
       /\ \A i \in Jobs \ J : pc'[i] = pc[i]
       /\ \A i \in Jobs \ J : dir'[i] = dir[i] /\ masked'[i] = masked[i]
       /\ \A i \in Jobs \ J : t \in Workers => Passes(t, i)
       /\ J \in SUBSET Jobs /\ closed' = closed
  <2>1. \A i \in Jobs \ J : SameRow(i)
    BY <1>5 DEF SameRow
  <2>2. \A i \in Jobs \ J : pc'[i] = pc[i]
    BY <1>2, <1>4, Kinds
  <2>4. \A i \in Jobs \ J : Passes(t, i)
    BY <1>4, <1>j DEF Passes
  <2> QED BY <1>0, <1>2, <2>1, <2>2, <2>4
<1>11. /\ \A i \in J : RowInv(i)'
       /\ \A i \in J : closed = "no" => DirInv(i)'
  BY <1>8, <1>9
<1> HIDE DEF J
<1> QED BY <1>4, <1>6, <1>7, <1>10, <1>11, Step

(* The removal itself goes on: nothing but the workspace of the job changes. *)
LEMMA RemovalStep ==
    ASSUME JobsInv, NEW t \in Threads, pc[t] \in {"prove", "rmtree", "rmdir"}, NEW j \in Jobs, j = ctx[t].job,
           pc' \in [Threads -> Label], \A u \in Threads \ {t} : pc'[u] = pc[u],
           pc'[t] \in CleanPc \ {"cleaning"},
           ctx' = ctx, jobs' = jobs, closed' = closed, slots' = slots, faults' \in 0..MaxFaults,
           dir' \in [Jobs -> {"none", "marked", "unmarked"}], masked' \in [Jobs -> {"yes", "no"}],
           \A i \in Jobs \ {j} : dir'[i] = dir[i] /\ masked'[i] = masked[i],
           t \in Workers /\ closed = "no" /\ masked'[j] = "no" =>
              masked[j] = "no" /\ (dir'[j] = "none" \/ (pc'[t] # "removed" /\ dir[j] # "none"))
    PROVE  JobsInv'
<1>1. TypeOK'
  BY Typed DEF TypeOK, Row
<1>2. pc[t] \in CleanPc /\ ThreadInv(t) /\ pc[t] # "cleaning"
  BY DEF CleanPc, JobsInv
<1>3. pc'[t] \notin StreamPc \cup ActivePc /\ pc'[t] \notin CommittedPc \cup {"unborn", "begin", "finish", "retain"}
  BY DEF CleanPc, StreamPc, ActivePc, EarlyPc, CommittedPc
<1>4. ThreadInv(t)'
  BY <1>2, <1>3, Kinds DEF ThreadInv, CleanPc
<1>5. CASE t = Closer
  <2>1. closed' = "yes"
    BY <1>2, <1>5 DEF ThreadInv, CleanPc
  <2>2. \A i \in Jobs : SameRow(i)
    BY DEF SameRow
  <2> QED BY <1>1, <1>4, <1>5, <2>1, <2>2, CloserStep
<1>6. CASE t # Closer
  <2>1. t \in Workers
    BY <1>6 DEF Workers
  <2>2. /\ jobs[j] \in Row /\ RowInv(j) /\ (closed = "no" => DirInv(j))
        /\ jobs[j].status \notin RETAINED \cup {"unborn"} /\ jobs[j].status # "delivering"
        /\ pc[j] \notin CommittedPc \cup {"unborn"}
        /\ pc[j] \in ActivePc => jobs[j].cancel = "yes"
        /\ \A u \in Workers : ~(pc[u] \in StreamPc /\ ctx[u].job = j)
        /\ t \in Jobs => j = t
    BY <1>2, <2>1, Held
  <2>3. /\ pc'[j] \notin CommittedPc \cup {"unborn"}
        /\ pc'[j] \in ActivePc => jobs'[j].cancel = "yes"
        /\ jobs'[j].status \notin RETAINED \cup {"delivering", "unborn"}
    <3>1. j = t \/ pc'[j] = pc[j]
      BY Kinds
    <3> QED BY <3>1, <1>3, <2>2
  <2>4. RowInv(j)'
    <3>1. jobs'[j].status \in CLEAN_TERMINAL \cup {"trimmed"} => jobs'[j].work = ""
      BY <2>2 DEF RowInv
    <3>2. \A u \in Workers : ~(pc'[u] \in StreamPc /\ ctx'[u].job = j)
      BY <2>2, <1>3, Kinds
    <3> QED BY <2>3, <3>1, <3>2, LostRow
  <2>5. ASSUME closed = "no" PROVE DirInv(j)'
    <3>1. ASSUME dir'[j] # "none", masked'[j] = "no"
          PROVE  /\ jobs'[j].work # ""
                 /\ \A u \in Workers : CleansUp(u, j)' => ctx'[u].work # "" /\ pc'[u] # "removed"
                 /\ \A u \in Workers : \A it \in ctx'[u].todo : it.job = j => it.work # ""
      <4>1. masked[j] = "no" /\ pc'[t] # "removed" /\ dir[j] # "none" /\ DirInv(j)
        BY <3>1, <2>1, <2>2, <2>5
      <4>2. ASSUME NEW u \in Workers, CleansUp(u, j)'
            PROVE  ctx'[u].work # "" /\ pc'[u] # "removed"
        <5>1. u = t \/ pc'[u] = pc[u]
          BY Kinds
        <5>2. CleansUp(u, j)
          BY <4>2, <5>1, <1>2 DEF CleansUp, CleanPc
        <5> QED BY <4>1, <5>1, <5>2 DEF DirInv
      <4> QED BY <4>1, <4>2 DEF DirInv
    <3>2. pc'[j] \notin CommittedPc
      BY <2>3
    <3> QED BY <2>3, <3>1, <3>2, LostDir
  <2> DEFINE J == {j}
  <2>6. /\ J \in SUBSET Jobs
        /\ \A i \in Jobs \ J : SameRow(i)
        /\ \A i \in Jobs \ J : dir'[i] = dir[i] /\ masked'[i] = masked[i]
    BY DEF SameRow
  <2>7. \A i \in Jobs \ J : pc'[i] = pc[i]
    BY <2>2, Kinds
  <2>8. \A i \in Jobs \ J : t \in Workers => Passes(t, i)
    BY DEF Passes
  <2>9. /\ \A i \in J : RowInv(i)'
        /\ \A i \in J : closed = "no" => DirInv(i)'
        /\ \A u \in Threads \ {t} : pc'[u] = pc[u] /\ ctx'[u] = ctx[u]
    BY <2>4, <2>5
  <2> HIDE DEF J
  <2> QED BY <1>1, <1>4, <2>6, <2>7, <2>8, <2>9, Step
<1> QED BY <1>5, <1>6

(* The job of a thread at the removal. *)
LEMMA RemovedJob ==
    ASSUME JobsInv, NEW t \in Threads, pc[t] \in CleanPc
    PROVE  ctx[t].job \in Jobs /\ ctx[t] \in Ctx
  BY Typed DEF JobsInv, ThreadInv

(* The marker is looked up. *)
LEMMA ProveOwnedInv ==
    ASSUME JobsInv, NEW t \in Threads, ProveOwned(t)
    PROVE  JobsInv'
<1>1. pc[t] = "prove" /\ pc[t] \in CleanPc /\ UNCHANGED <<jobs, dir, closed, slots, ctx, masked, faults>>
  BY DEF ProveOwned, CleanPc
<1>2. PICK j \in Jobs : j = ctx[t].job
  BY <1>1, RemovedJob
<1> DEFINE l == IF ctx[t].work = "" \/ dir[j] = "none" THEN "removed"
                ELSE IF dir[j] = "marked" THEN "rmtree" ELSE "kept"
<1>3. pc' = [pc EXCEPT ![t] = l]
  BY <1>2 DEF ProveOwned, Goto
<1>4. l \in CleanPc \ {"cleaning"} /\ l \in Label
  BY DEF CleanPc, Label
<1>5. l = "removed" => ctx[t].work = "" \/ dir[j] = "none"
  OBVIOUS
<1> HIDE DEF l
<1>6. /\ pc' \in [Threads -> Label] /\ pc'[t] = l /\ \A u \in Threads \ {t} : pc'[u] = pc[u]
  BY <1>3, <1>4, Typed
<1>7. ASSUME t \in Workers, closed = "no", masked[j] = "no"
      PROVE  dir[j] = "none" \/ (l # "removed" /\ dir[j] # "none")
  <2>1. DirInv(j) /\ CleansUp(t, j)
    BY <1>1, <1>2, <1>7 DEF JobsInv, CleansUp
  <2> QED BY <2>1, <1>5, <1>7 DEF DirInv
<1> QED BY <1>1, <1>2, <1>4, <1>6, <1>7, Typed, RemovalStep

(* The entries go; a removal that is overtaken is noted in masked. *)
LEMMA RemoveEntriesInv ==
    ASSUME JobsInv, NEW t \in Threads, RemoveEntries(t)
    PROVE  JobsInv'
<1>1. pc[t] = "rmtree" /\ pc[t] \in CleanPc /\ UNCHANGED <<jobs, closed, slots, ctx>>
  BY DEF RemoveEntries, CleanPc
<1>2. PICK j \in Jobs : j = ctx[t].job
  BY <1>1, RemovedJob
<1>3. CASE /\ dir[j] # "none"
           /\ dir' \in {dir, [dir EXCEPT ![j] = "unmarked"]}
           /\ \/ Goto(t, "rmdir") /\ NoFault
              \/ Goto(t, "kept") /\ Fault
           /\ UNCHANGED masked
  <2>1. {"rmdir", "kept"} \subseteq CleanPc \ {"cleaning"} /\ {"rmdir", "kept"} \subseteq Label
    BY DEF CleanPc, Label
  <2>2. /\ pc' \in [Threads -> Label] /\ pc'[t] \in {"rmdir", "kept"}
        /\ \A u \in Threads \ {t} : pc'[u] = pc[u]
    BY <1>3, <2>1, Typed DEF Goto
  <2>3. faults' \in 0..MaxFaults
    BY <1>3, Typed, JobsAssumption DEF Fault, NoFault
  <2>4. /\ dir' \in [Jobs -> {"none", "marked", "unmarked"}] /\ masked' \in [Jobs -> {"yes", "no"}]
        /\ \A i \in Jobs \ {j} : dir'[i] = dir[i] /\ masked'[i] = masked[i]
        /\ masked'[j] = masked[j]
    BY <1>3, Typed
  <2>5. pc'[t] \in CleanPc \ {"cleaning"} /\ pc'[t] # "removed"
    BY <2>1, <2>2
  <2> QED BY <1>1, <1>2, <1>3, <2>2, <2>3, <2>4, <2>5, RemovalStep
<1>4. CASE /\ masked' = [masked EXCEPT ![j] = IF dir[j] = "none" THEN @ ELSE "yes"]
           /\ Goto(t, "removed")
           /\ UNCHANGED <<dir, faults>>
  <2>1. "removed" \in CleanPc \ {"cleaning"} /\ "removed" \in Label
    BY DEF CleanPc, Label
  <2>2. /\ pc' \in [Threads -> Label] /\ pc'[t] = "removed"
        /\ \A u \in Threads \ {t} : pc'[u] = pc[u]
    BY <1>4, <2>1, Typed DEF Goto
  <2>3. /\ dir' \in [Jobs -> {"none", "marked", "unmarked"}] /\ masked' \in [Jobs -> {"yes", "no"}]
        /\ \A i \in Jobs \ {j} : dir'[i] = dir[i] /\ masked'[i] = masked[i]
        /\ masked'[j] = "no" => dir'[j] = "none" /\ masked[j] = "no"
        /\ faults' \in 0..MaxFaults
    BY <1>4, Typed
  <2> QED BY <1>1, <1>2, <2>1, <2>2, <2>3, RemovalStep
<1> QED BY <1>2, <1>3, <1>4 DEF RemoveEntries

(* The directory goes. *)
LEMMA RemoveRootInv ==
    ASSUME JobsInv, NEW t \in Threads, RemoveRoot(t)
    PROVE  JobsInv'
<1>1. pc[t] = "rmdir" /\ pc[t] \in CleanPc /\ UNCHANGED <<jobs, closed, slots, ctx, masked>>
  BY DEF RemoveRoot, CleanPc
<1>2. PICK j \in Jobs : j = ctx[t].job
  BY <1>1, RemovedJob
<1>3. \/ dir' = [dir EXCEPT ![j] = "none"] /\ Goto(t, "removed") /\ NoFault
      \/ dir[j] # "none" /\ Fault /\ Goto(t, "kept") /\ UNCHANGED dir
  BY <1>2 DEF RemoveRoot
<1>4. {"removed", "kept"} \subseteq CleanPc \ {"cleaning"} /\ {"removed", "kept"} \subseteq Label
  BY DEF CleanPc, Label
<1>5. /\ pc' \in [Threads -> Label] /\ pc'[t] \in {"removed", "kept"}
      /\ \A u \in Threads \ {t} : pc'[u] = pc[u]
  BY <1>3, <1>4, Typed DEF Goto
<1>6. /\ dir' \in [Jobs -> {"none", "marked", "unmarked"}] /\ masked' \in [Jobs -> {"yes", "no"}]
      /\ \A i \in Jobs \ {j} : dir'[i] = dir[i] /\ masked'[i] = masked[i]
  BY <1>1, <1>3, Typed
<1>7. faults' \in 0..MaxFaults
  BY <1>3, Typed, JobsAssumption DEF Fault, NoFault
<1>8. dir'[j] = "none" \/ (pc'[t] # "removed" /\ dir[j] # "none")
  BY <1>3, Typed DEF Goto
<1>9. pc'[t] \in CleanPc \ {"cleaning"}
  BY <1>4, <1>5
<1> QED BY <1>1, <1>2, <1>5, <1>6, <1>7, <1>8, <1>9, RemovalStep

(* The result is published, and the thread goes on with its list. *)
LEMMA PublishCleanupInv ==
    ASSUME JobsInv, NEW t \in Threads, PublishCleanup(t)
    PROVE  JobsInv'
<1>1. /\ pc[t] \in {"removed", "kept"} /\ pc[t] \in CleanPc /\ t \in Workers
      /\ UNCHANGED <<dir, closed, slots, masked, faults>>
  BY DEF PublishCleanup, CleanPc, Workers
<1>2. PICK j \in Jobs : j = ctx[t].job
  BY <1>1, RemovedJob
<1>3. /\ ctx[t] \in Ctx /\ ThreadInv(t)
      /\ jobs[j] \in Row /\ RowInv(j) /\ (closed = "no" => DirInv(j))
      /\ jobs[j].status \notin RETAINED \cup {"unborn", "delivering"}
      /\ pc[j] \notin CommittedPc \cup {"unborn"}
      /\ pc[j] \in ActivePc => jobs[j].cancel = "yes"
      /\ \A u \in Workers : ~(pc[u] \in StreamPc /\ ctx[u].job = j)
      /\ t \in Jobs => j = t
  BY <1>1, <1>2, Held
<1> DEFINE todo == ctx[t].todo
           then == ctx[t].then
           req  == ctx[t].req
<1>4. /\ todo \in SUBSET Item /\ then \in {"idle", "done", "begin", "reap"} /\ req \in Jobs \cup {NoJob}
      /\ then = "begin" => req \in Jobs
      /\ t \in Jobs => todo = {} /\ then = "done"
      /\ t \in Callers => then # "done"
      /\ t = Reaper => then = "idle"
      /\ ctx[t].final \in CLEAN_TERMINAL
  BY <1>1, <1>3 DEF Ctx, ThreadInv
<1>5. TookUp(t, todo)
  <2>1. Proceed(t, todo, then, req)
    BY DEF PublishCleanup
  <2> HIDE DEF todo, then, req
  <2> QED BY <1>1, <1>4, <2>1, ProceedThread
<1>6. /\ jobs' \in [Jobs -> Row]
      /\ \A i \in Jobs : jobs'[i].status = "cleanup-pending" => jobs'[i].target # "none"
      /\ \A i \in Jobs \ {j} : SameRow(i)
      /\ jobs'[j].status \in CLEAN_TERMINAL \cup {"trimmed", "cleanup-pending"}
      /\ jobs'[j].cancel = jobs[j].cancel
      /\ jobs'[j].status \in CLEAN_TERMINAL \cup {"trimmed"} => jobs'[j].work = ""
      /\ pc[t] # "removed" => jobs'[j].work = jobs[j].work
  <2>1. CASE ~Present(j)
    <3>1. jobs' = jobs /\ jobs[j].status = "trimmed"
      BY <2>1, <1>2, <1>3 DEF PublishCleanup, Present
    <3> QED BY <3>1, <1>3, Typed DEF SameRow, RowInv
  <2>2. CASE Present(j)
    <3> DEFINE r == IF pc[t] = "removed"
                    THEN [jobs[j] EXCEPT !.status = ctx[t].final, !.work = "",
                                         !.deadline = "none", !.target = "none"]
                    ELSE [jobs[j] EXCEPT !.status = "cleanup-pending", !.target = ctx[t].final]
               table == [jobs EXCEPT ![j] = r]
    <3>1. jobs' \in Trimmed(table)
      BY <2>2, <1>2 DEF PublishCleanup
    <3>2. /\ r \in Row /\ r.cancel = jobs[j].cancel
          /\ pc[t] = "removed" => r.status \in CLEAN_TERMINAL /\ r.work = ""
          /\ pc[t] # "removed" => r.status = "cleanup-pending" /\ r.work = jobs[j].work /\ r.target \in CLEAN_TERMINAL
      <4>1. CASE pc[t] = "removed"
        BY <4>1, <1>3, <1>4 DEF Row, Status
      <4>2. CASE pc[t] # "removed"
        BY <4>2, <1>3, <1>4 DEF Row, Status, Occupied
      <4> QED BY <4>1, <4>2
    <3> HIDE DEF r
    <3>3. table \in [Jobs -> Row] /\ table[j] = r /\ \A i \in Jobs \ {j} : table[i] = jobs[i]
      BY <3>2, Typed
    <3> HIDE DEF table
    <3>4. /\ jobs' \in [Jobs -> Row]
          /\ \A i \in Jobs :
                \/ jobs'[i] = table[i]
                \/ /\ table[i].status \in CLEAN_TERMINAL /\ table[i].work = ""
                   /\ jobs'[i].status = "trimmed" /\ jobs'[i].work = table[i].work
                   /\ jobs'[i].cancel = table[i].cancel
      BY <3>1, <3>3, TrimFacts
    <3>5. \A i \in Jobs \ {j} : SameRow(i)
      BY <3>3, <3>4 DEF SameRow
    <3>6. "none" \notin CLEAN_TERMINAL /\ "cleanup-pending" \notin CLEAN_TERMINAL
      BY DEF CLEAN_TERMINAL
    <3>7. \A i \in Jobs : jobs'[i].status = "cleanup-pending" => jobs'[i].target # "none"
      <4>1. \A i \in Jobs : table[i].status = "cleanup-pending" => table[i].target # "none"
        BY <3>2, <3>3, <3>6, Typed
      <4> QED BY <4>1, <3>4
    <3>8. /\ jobs'[j].status \in CLEAN_TERMINAL \cup {"trimmed", "cleanup-pending"}
          /\ jobs'[j].cancel = jobs[j].cancel
          /\ jobs'[j].status \in CLEAN_TERMINAL \cup {"trimmed"} => jobs'[j].work = ""
          /\ pc[t] # "removed" => jobs'[j].work = jobs[j].work
      BY <3>2, <3>3, <3>4, <3>6
    <3> QED BY <3>4, <3>5, <3>7, <3>8
  <2> QED BY <2>1, <2>2
<1>7. /\ pc' \in [Threads -> Label] /\ ctx' \in [Threads -> Ctx] /\ ThreadInv(t)'
      /\ \A u \in Threads \ {t} : pc'[u] = pc[u] /\ ctx'[u] = ctx[u]
      /\ pc'[t] \notin StreamPc /\ (pc'[t] \in CleanPc => pc'[t] = "cleaning")
      /\ pc'[t] = "cleaning" => \E it \in ctx[t].todo : it.job = ctx'[t].job /\ it.work = ctx'[t].work
      /\ ctx'[t].todo \subseteq ctx[t].todo
      /\ t \in Jobs => pc'[t] = "done"
  BY <1>5 DEF TookUp
<1> HIDE DEF todo, then, req
<1>8. TypeOK'
  BY <1>1, <1>6, <1>7, Typed DEF TypeOK, Row
<1>9. /\ pc'[j] \notin CommittedPc \cup {"unborn"}
      /\ pc'[j] \in ActivePc => jobs'[j].cancel = "yes"
      /\ jobs'[j].status \notin RETAINED \cup {"delivering", "unborn"}
  <2>1. "done" \notin CommittedPc \cup ActivePc
    BY DEF ActivePc, EarlyPc, CommittedPc
  <2>2. j = t \/ pc'[j] = pc[j]
    BY <1>7, Kinds
  <2>3. jobs'[j].status \notin RETAINED \cup {"delivering", "unborn"}
    BY <1>6 DEF RETAINED, CLEAN_TERMINAL
  <2> QED BY <1>3, <1>6, <1>7, <2>1, <2>2, <2>3
<1>10. RowInv(j)'
  <2>1. \A u \in Workers : ~(pc'[u] \in StreamPc /\ ctx'[u].job = j)
    BY <1>3, <1>7, Kinds
  <2> QED BY <1>6, <1>9, <2>1, LostRow
<1>11. ASSUME closed = "no" PROVE DirInv(j)'
  <2>1. ASSUME dir'[j] # "none", masked'[j] = "no"
        PROVE  /\ jobs'[j].work # ""
               /\ \A u \in Workers : CleansUp(u, j)' => ctx'[u].work # "" /\ pc'[u] # "removed"
               /\ \A u \in Workers : \A it \in ctx'[u].todo : it.job = j => it.work # ""
    <3>1. dir[j] # "none" /\ masked[j] = "no" /\ DirInv(j) /\ CleansUp(t, j)
      BY <2>1, <1>1, <1>2, <1>3, <1>11 DEF CleansUp
    <3>2. pc[t] # "removed" /\ jobs[j].work # ""
      BY <3>1, <1>1 DEF DirInv
    <3>3. ASSUME NEW u \in Workers, CleansUp(u, j)'
          PROVE  ctx'[u].work # "" /\ pc'[u] # "removed"
      <4>1. CASE u = t
        <5>1. pc'[t] = "cleaning"
          BY <3>3, <4>1, <1>7 DEF CleansUp, CleanPc
        <5>2. PICK it \in ctx[t].todo : it.job = j /\ it.work = ctx'[t].work
          BY <5>1, <3>3, <4>1, <1>7 DEF CleansUp
        <5> QED BY <5>1, <5>2, <4>1, <3>1, <1>1 DEF DirInv
      <4>2. CASE u # t
        <5>1. pc'[u] = pc[u] /\ ctx'[u] = ctx[u]
          BY <4>2, <1>7, Kinds
        <5>2. CleansUp(u, j)
          BY <5>1, <3>3 DEF CleansUp
        <5> QED BY <5>1, <5>2, <3>1 DEF DirInv
      <4> QED BY <4>1, <4>2
    <3>4. ASSUME NEW u \in Workers, NEW it \in ctx'[u].todo, it.job = j
          PROVE  it.work # ""
      <4>1. it \in ctx[u].todo
        BY <1>7, Kinds
      <4> QED BY <4>1, <3>1, <3>4 DEF DirInv
    <3> QED BY <3>2, <3>3, <3>4, <1>6
  <2>2. pc'[j] \notin CommittedPc
    BY <1>9
  <2> QED BY <1>9, <2>1, <2>2, LostDir
<1> DEFINE J == {j}
<1>12. /\ J \in SUBSET Jobs /\ closed' = closed
       /\ \A i \in Jobs \ J : SameRow(i)
       /\ \A i \in Jobs \ J : dir'[i] = dir[i] /\ masked'[i] = masked[i]
  BY <1>1, <1>6
<1>13. \A i \in Jobs \ J : pc'[i] = pc[i]
  BY <1>3, <1>7, Kinds
<1>14. \A i \in Jobs \ J : t \in Workers => Passes(t, i)
  BY <1>7 DEF Passes
<1>15. /\ \A i \in J : RowInv(i)'
       /\ \A i \in J : closed = "no" => DirInv(i)'
  BY <1>10, <1>11
<1> HIDE DEF J
<1> QED BY <1>7, <1>8, <1>12, <1>13, <1>14, <1>15, Step

-----------------------------------------------------------------------------
(* The rows that a reap takes up, claimed or not. *)
DoomedJobs == {i \in Jobs : jobs[i].status = "cleanup-pending" \/ (jobs[i].status \in RETAINED /\ jobs[i].deadline = "past")}

(* The list of reap_expired names rows that nobody streams, with their workspaces. *)
LEMMA DoomedFacts ==
    ASSUME JobsInv
    PROVE  /\ Doomed \in SUBSET Item
           /\ \A it \in Doomed : it.job \in DoomedJobs /\ it.work = jobs[it.job].work
<1> DEFINE A(j) == [job |-> j, work |-> jobs[j].work, target |-> jobs[j].target]
           B(j) == [job |-> j, work |-> jobs[j].work, target |-> "expired"]
<1>1. ASSUME NEW j \in Jobs, jobs[j].status = "cleanup-pending"
      PROVE  A(j) \in Item /\ A(j).job = j /\ A(j).work = jobs[j].work
  <2>1. jobs[j] \in Row /\ jobs[j].target # "none"
    BY <1>1, Typed
  <2> QED BY <2>1 DEF Row, Item
<1>2. ASSUME NEW j \in Jobs, jobs[j].status \in RETAINED
      PROVE  B(j) \in Item /\ B(j).job = j /\ B(j).work = jobs[j].work
  <2>1. jobs[j] \in Row /\ "expired" \in CLEAN_TERMINAL
    BY Typed DEF CLEAN_TERMINAL
  <2> QED BY <2>1 DEF Row, Item
<1>3. ASSUME NEW it \in Doomed
      PROVE  it \in Item /\ it.job \in DoomedJobs /\ it.work = jobs[it.job].work
  <2>1. \/ \E j \in Jobs : jobs[j].status = "cleanup-pending" /\ it = A(j)
        \/ \E j \in Jobs : jobs[j].status \in RETAINED /\ jobs[j].deadline = "past" /\ it = B(j)
    BY <1>3 DEF Doomed
  <2>2. CASE \E j \in Jobs : jobs[j].status = "cleanup-pending" /\ it = A(j)
    <3>1. PICK j \in Jobs : jobs[j].status = "cleanup-pending" /\ it = A(j)
      BY <2>2
    <3> HIDE DEF A
    <3> QED BY <3>1, <1>1 DEF DoomedJobs
  <2>3. CASE \E j \in Jobs : jobs[j].status \in RETAINED /\ jobs[j].deadline = "past" /\ it = B(j)
    <3>1. PICK j \in Jobs : jobs[j].status \in RETAINED /\ jobs[j].deadline = "past" /\ it = B(j)
      BY <2>3
    <3> HIDE DEF B
    <3> QED BY <3>1, <1>2 DEF DoomedJobs
  <2> QED BY <2>1, <2>2, <2>3
<1> QED BY <1>3

(* A thread other than a builder takes up the clean-ups of todo, each with the
   workspace that the row names, of jobs that nobody else may want any more. *)
LEMMA TakeUp ==
    ASSUME JobsInv, NEW t \in Callers \cup {Reaper}, pc[t] \notin CleanPc \cup StreamPc,
           NEW todo, TookUp(t, todo), NEW J \in SUBSET Jobs,
           \A it \in todo : it.job \in J /\ it.work = jobs[it.job].work,
           TypeOK', UNCHANGED <<dir, closed, masked>>,
           \A i \in Jobs \ J : SameRow(i),
           \A i \in J : jobs[i].status \notin {"unborn", "delivering"} /\ pc[i] \notin CommittedPc,
           \A i \in J : pc[i] \in ActivePc => jobs'[i].cancel = "yes",
           \A i \in J : jobs'[i].status \in {"cleaning", "cleanup-pending"},
           \A i \in J : jobs'[i].work = jobs[i].work
    PROVE  JobsInv'
<1>1. /\ pc' \in [Threads -> Label] /\ ctx' \in [Threads -> Ctx] /\ ThreadInv(t)'
      /\ \A u \in Threads \ {t} : pc'[u] = pc[u] /\ ctx'[u] = ctx[u]
      /\ pc'[t] \notin StreamPc /\ (pc'[t] \in CleanPc => pc'[t] = "cleaning")
      /\ pc'[t] = "cleaning" => \E it \in todo : it.job = ctx'[t].job /\ it.work = ctx'[t].work
      /\ ctx'[t].todo \subseteq todo
  BY DEF TookUp
<1>2. t \in Workers /\ t \in Threads /\ t \notin Jobs
  BY Kinds
<1>3. \A i \in Jobs : pc'[i] = pc[i]
  BY <1>1, <1>2, Kinds
<1>4. \A i \in Jobs \ J : Passes(t, i)
  BY <1>1 DEF Passes
<1>5. ASSUME NEW i \in J
      PROVE  /\ pc'[i] \notin CommittedPc \cup {"unborn"}
             /\ pc'[i] \in ActivePc => jobs'[i].cancel = "yes"
             /\ jobs'[i].status \notin RETAINED \cup {"delivering", "unborn"} \cup CLEAN_TERMINAL \cup {"trimmed"}
             /\ RowInv(i) /\ (closed = "no" => DirInv(i))
  <2>1. RowInv(i) /\ (closed = "no" => DirInv(i))
    BY DEF JobsInv
  <2>2. pc[i] # "unborn"
    BY <2>1 DEF RowInv
  <2>3. jobs'[i].status \notin RETAINED \cup {"delivering", "unborn"} \cup CLEAN_TERMINAL \cup {"trimmed"}
    BY DEF RETAINED, CLEAN_TERMINAL
  <2> QED BY <1>3, <2>1, <2>2, <2>3
<1>6. ASSUME NEW i \in J PROVE RowInv(i)'
  <2>1. ASSUME NEW u \in Workers, pc'[u] \in StreamPc, ctx'[u].job = i PROVE FALSE
    <3>1. pc[u] = pc'[u] /\ ctx[u] = ctx'[u]
      BY <2>1, <1>1, Kinds
    <3>2. jobs[i].status = "delivering"
      BY <3>1, <2>1, <1>5 DEF RowInv
    <3> QED BY <3>2
  <2> QED BY <1>5, <2>1, LostRow
<1>7. ASSUME NEW i \in J, closed = "no" PROVE DirInv(i)'
  <2>1. ASSUME dir'[i] # "none", masked'[i] = "no"
        PROVE  /\ jobs'[i].work # ""
               /\ \A u \in Workers : CleansUp(u, i)' => ctx'[u].work # "" /\ pc'[u] # "removed"
               /\ \A u \in Workers : \A it \in ctx'[u].todo : it.job = i => it.work # ""
    <3>1. dir[i] # "none" /\ masked[i] = "no" /\ DirInv(i)
      BY <2>1, <1>5, <1>7
    <3>2. jobs[i].work # ""
      BY <3>1 DEF DirInv
    <3>3. ASSUME NEW u \in Workers, CleansUp(u, i)'
          PROVE  ctx'[u].work # "" /\ pc'[u] # "removed"
      <4>1. CASE u = t
        <5>1. pc'[t] = "cleaning"
          BY <3>3, <4>1, <1>1 DEF CleansUp, CleanPc
        <5>2. PICK it \in todo : it.job = i /\ it.work = ctx'[t].work
          BY <5>1, <3>3, <4>1, <1>1 DEF CleansUp
        <5> QED BY <5>1, <5>2, <4>1, <3>2
      <4>2. CASE u # t
        <5>1. pc'[u] = pc[u] /\ ctx'[u] = ctx[u]
          BY <4>2, <1>1, Kinds
        <5>2. CleansUp(u, i)
          BY <5>1, <3>3 DEF CleansUp
        <5> QED BY <5>1, <5>2, <3>1 DEF DirInv
      <4> QED BY <4>1, <4>2
    <3>4. ASSUME NEW u \in Workers, NEW it \in ctx'[u].todo, it.job = i
          PROVE  it.work # ""
      <4>1. CASE u = t
        BY <4>1, <3>2, <3>4, <1>1
      <4>2. CASE u # t
        <5>1. it \in ctx[u].todo
          BY <4>2, <1>1, Kinds
        <5> QED BY <5>1, <3>1, <3>4 DEF DirInv
      <4> QED BY <4>1, <4>2
    <3> QED BY <3>2, <3>3, <3>4
  <2>2. pc'[i] \notin CommittedPc
    BY <1>5
  <2> QED BY <1>5, <2>1, <2>2, LostDir
<1>8. /\ closed' = closed
      /\ \A i \in Jobs \ J : pc'[i] = pc[i]
      /\ \A i \in Jobs \ J : dir'[i] = dir[i] /\ masked'[i] = masked[i]
      /\ \A i \in Jobs \ J : t \in Workers => Passes(t, i)
  BY <1>3, <1>4
<1> QED BY <1>1, <1>2, <1>6, <1>7, <1>8, Step

(* reap_expired claims the rows on its list in the section that builds it. *)
LEMMA ReapInv ==
    ASSUME JobsInv, NEW t \in Callers \cup {Reaper}, pc[t] \in {"idle", "reap"},
           NEW then \in {"idle", "begin"}, NEW req \in Jobs \cup {NoJob},
           then = "begin" => t \in Callers /\ req \in Jobs,
           reap_expired(t, then, req)
    PROVE  JobsInv'
<1>1. /\ Doomed \in SUBSET Item
      /\ \A it \in Doomed : it.job \in DoomedJobs /\ it.work = jobs[it.job].work
  BY DoomedFacts
<1>2. t \in Workers /\ t \notin Jobs /\ pc[t] \notin CleanPc \cup StreamPc
  BY Kinds DEF CleanPc, StreamPc
<1>3. PICK todo \in SUBSET Item : todo = Doomed
  BY <1>1
<1>4. TookUp(t, todo)
  <2>1. Proceed(t, todo, then, req) /\ then \in {"idle", "done", "begin", "reap"}
    BY <1>3 DEF reap_expired
  <2>2. (t \in Callers => then # "done") /\ (t = Reaper => then = "idle")
    BY Kinds
  <2> QED BY <1>2, <2>1, <2>2, ProceedThread
<1>5. PICK J \in SUBSET Jobs : J = DoomedJobs
  BY DEF DoomedJobs
<1> DEFINE Row1(j) == [jobs[j] EXCEPT !.status = "cleaning"]
           table == [j \in Jobs |-> IF jobs[j].status \in RETAINED /\ jobs[j].deadline = "past"
                                    THEN Row1(j) ELSE jobs[j]]
<1>6. jobs' \in Trimmed(table) /\ UNCHANGED <<dir, closed, slots, masked, faults>>
  BY DEF reap_expired
<1>7. ASSUME NEW j \in Jobs
      PROVE  /\ jobs[j] \in Row /\ Row1(j) \in Row /\ Row1(j).status = "cleaning"
             /\ Row1(j).work = jobs[j].work /\ Row1(j).cancel = jobs[j].cancel
  <2>1. jobs[j] \in Row
    BY Typed
  <2> QED BY <2>1 DEF Row, Status, Occupied
<1> HIDE DEF Row1
<1>8. table \in [Jobs -> Row]
  BY <1>7
<1>9. ASSUME NEW j \in Jobs
      PROVE  /\ table[j] = jobs[j] \/ (j \in J /\ jobs[j].status # "cleanup-pending" /\ table[j] = Row1(j))
             /\ j \in J => table[j].status \in {"cleaning", "cleanup-pending"}
  BY <1>5, <1>7 DEF DoomedJobs, RETAINED
<1> HIDE DEF table
<1>10. /\ jobs' \in [Jobs -> Row]
       /\ \A i \in Jobs :
             \/ jobs'[i] = table[i]
             \/ /\ table[i].status \in CLEAN_TERMINAL /\ table[i].work = ""
                /\ jobs'[i].status = "trimmed" /\ jobs'[i].work = table[i].work
                /\ jobs'[i].cancel = table[i].cancel
  BY <1>6, <1>8, TrimFacts
<1>11. ASSUME NEW i \in J
       PROVE  /\ jobs'[i].status \in {"cleaning", "cleanup-pending"}
              /\ jobs'[i].work = jobs[i].work /\ jobs'[i].cancel = jobs[i].cancel
  <2>1. table[i].status \in {"cleaning", "cleanup-pending"} /\ i \in Jobs
    BY <1>9
  <2>2. table[i].status \notin CLEAN_TERMINAL
    BY <2>1 DEF CLEAN_TERMINAL
  <2>3. jobs'[i] = table[i]
    BY <2>1, <2>2, <1>10
  <2> QED BY <2>1, <2>3, <1>7, <1>9
<1>12. \A i \in Jobs \ J : SameRow(i)
  BY <1>9, <1>10 DEF SameRow
<1>13. \A i \in Jobs : jobs'[i].status = "cleanup-pending" => jobs'[i].target # "none"
  <2>1. \A i \in Jobs : table[i].status = "cleanup-pending" => table[i].target # "none"
    BY <1>7, <1>9, Typed
  <2> QED BY <2>1, <1>10
<1>14. TypeOK'
  BY <1>4, <1>6, <1>10, <1>13, Typed DEF TypeOK, Row, TookUp
<1>15. ASSUME NEW i \in J
       PROVE  /\ jobs[i].status \notin {"unborn", "delivering"} /\ pc[i] \notin CommittedPc
              /\ pc[i] \in ActivePc => jobs'[i].cancel = "yes"
  <2>1. RowInv(i) /\ jobs[i] \in Row /\ (jobs[i].status = "cleanup-pending" \/ jobs[i].status \in RETAINED)
    BY <1>5, Typed DEF JobsInv, DoomedJobs
  <2>2. jobs[i].status \notin {"unborn", "delivering", "queued", "building"}
    BY <2>1 DEF RETAINED
  <2>3. pc[i] \notin CommittedPc
    BY <2>1, <2>2 DEF RowInv
  <2>4. pc[i] \in ActivePc => jobs[i].cancel = "yes"
    BY <2>1, <2>2 DEF RowInv, Row
  <2> QED BY <2>2, <2>3, <2>4, <1>11
<1>16. \A it \in todo : it.job \in J /\ it.work = jobs[it.job].work
  BY <1>1, <1>3, <1>5
<1>17. /\ \A i \in J : jobs[i].status \notin {"unborn", "delivering"} /\ pc[i] \notin CommittedPc
       /\ \A i \in J : pc[i] \in ActivePc => jobs'[i].cancel = "yes"
       /\ \A i \in J : jobs'[i].status \in {"cleaning", "cleanup-pending"}
       /\ \A i \in J : jobs'[i].work = jobs[i].work
  BY <1>11, <1>15
<1> QED BY <1>2, <1>4, <1>6, <1>12, <1>14, <1>16, <1>17, TakeUp

(* A cancellation claims the row unless somebody else has it. *)
LEMMA CancelInv ==
    ASSUME JobsInv, NEW c \in Callers, NEW j \in Jobs, cancel(c, j)
    PROVE  JobsInv'
<1> DEFINE cleanup == jobs[j].status \in RETAINED \cup {"queued", "cleanup-pending"}
           item    == [job |-> j, work |-> jobs[j].work, target |-> "cancelled"]
           r       == [[jobs[j] EXCEPT !.cancel = "yes"] EXCEPT !.status = IF cleanup THEN "cleaning" ELSE @]
<1>1. /\ pc[c] = "idle" /\ Present(j) /\ jobs' = [jobs EXCEPT ![j] = r]
      /\ Proceed(c, IF cleanup THEN {item} ELSE {}, IF cleanup THEN "reap" ELSE "idle", NoJob)
      /\ UNCHANGED <<dir, closed, slots, masked, faults>>
  BY Typed DEF cancel
<1>2. jobs[j] \in Row /\ RowInv(j) /\ jobs[j].status # "unborn"
  BY <1>1, Typed DEF JobsInv, Present
<1>3. /\ r \in Row /\ r.cancel = "yes" /\ r.work = jobs[j].work
      /\ r.status = IF cleanup THEN "cleaning" ELSE jobs[j].status
      /\ r.target = jobs[j].target
  BY <1>2 DEF Row, Status, Occupied
<1>4. item \in Item /\ item.job = j /\ item.work = jobs[j].work
  BY <1>2 DEF Item, Row, CLEAN_TERMINAL
<1> HIDE DEF r, item
<1>5. /\ jobs' \in [Jobs -> Row] /\ jobs'[j] = r /\ \A i \in Jobs \ {j} : jobs'[i] = jobs[i]
  BY <1>1, <1>3, Typed
<1>6. c \in Workers /\ c \notin Jobs /\ c \in Callers \cup {Reaper} /\ pc[c] \notin CleanPc \cup StreamPc
      /\ c # Reaper /\ NoJob \in Jobs \cup {NoJob}
  BY <1>1, Kinds DEF CleanPc, StreamPc
<1>7. \A i \in Jobs : jobs'[i].status = "cleanup-pending" => jobs'[i].target # "none"
  BY <1>3, <1>5, Typed
<1>8. CASE cleanup
  <2>1. PICK todo \in SUBSET Item : todo = {item}
    BY <1>4
  <2>2. TookUp(c, todo)
    <3>1. Proceed(c, todo, "reap", NoJob)
      BY <1>1, <1>8, <2>1
    <3> QED BY <1>6, <3>1, ProceedThread
  <2>3. TypeOK'
    BY <1>1, <1>5, <1>7, <2>2, Typed DEF TypeOK, Row, TookUp
  <2>4. PICK J \in SUBSET Jobs : J = {j}
    OBVIOUS
  <2>5. jobs[j].status \notin {"unborn", "delivering", "building"}
    BY <1>2, <1>8 DEF RETAINED
  <2>6. /\ \A i \in J : jobs[i].status \notin {"unborn", "delivering"} /\ pc[i] \notin CommittedPc
        /\ \A i \in J : pc[i] \in ActivePc => jobs'[i].cancel = "yes"
        /\ \A i \in J : jobs'[i].status \in {"cleaning", "cleanup-pending"}
        /\ \A i \in J : jobs'[i].work = jobs[i].work
    BY <1>2, <1>3, <1>5, <1>8, <2>4, <2>5 DEF RowInv
  <2>7. \A i \in Jobs \ J : SameRow(i)
    BY <1>5, <2>4 DEF SameRow
  <2>8. \A it \in todo : it.job \in J /\ it.work = jobs[it.job].work
    BY <1>4, <2>1, <2>4
  <2> QED BY <1>1, <1>6, <2>2, <2>3, <2>6, <2>7, <2>8, TakeUp
<1>9. CASE ~cleanup
  <2>1. PICK todo \in SUBSET Item : todo = {}
    OBVIOUS
  <2>2. TookUp(c, todo)
    <3>1. Proceed(c, todo, "idle", NoJob)
      BY <1>1, <1>9, <2>1
    <3> QED BY <1>6, <3>1, ProceedThread
  <2>3. TypeOK'
    BY <1>1, <1>5, <1>7, <2>2, Typed DEF TypeOK, Row, TookUp
  <2>4. PICK J \in SUBSET Jobs : J = {}
    OBVIOUS
  <2>5. \A i \in Jobs \ J : SameRow(i)
    BY <1>2, <1>3, <1>5, <1>9, <2>4 DEF SameRow
  <2> QED BY <1>1, <1>6, <2>1, <2>2, <2>3, <2>4, <2>5, TakeUp
<1> QED BY <1>8, <1>9

(* A new job: its builder and the caller move. *)
LEMMA CreateInv ==
    ASSUME JobsInv, NEW c \in Callers, NEW j \in Jobs, Create(c, j)
    PROVE  JobsInv'
<1> DEFINE r == [jobs[j] EXCEPT !.status = "queued"]
           table == [jobs EXCEPT ![j] = r]
<1>1. /\ pc[c] = "idle" /\ closed = "no" /\ jobs[j].status = "unborn"
      /\ jobs' \in Trimmed(table)
      /\ pc' = [pc EXCEPT ![j] = "register", ![c] = "reap"]
      /\ UNCHANGED <<dir, closed, slots, ctx, masked, faults>>
  BY DEF Create
<1>2. jobs[j] \in Row /\ RowInv(j) /\ DirInv(j) /\ c \in Threads /\ j \in Threads /\ c # j /\ ThreadInv(j) /\ ThreadInv(c)
  BY <1>1, Typed, Kinds DEF JobsInv
<1>3. /\ r \in Row /\ r.status = "queued" /\ r.cancel = "no" /\ r.work = ""
      /\ Free(j) /\ dir[j] = "none"
  BY <1>1, <1>2 DEF Row, Status, Occupied, RowInv, DirInv
<1> HIDE DEF r
<1>4. table \in [Jobs -> Row] /\ table[j] = r /\ \A i \in Jobs \ {j} : table[i] = jobs[i]
  BY <1>3, Typed
<1> HIDE DEF table
<1>5. /\ jobs' \in [Jobs -> Row]
      /\ \A i \in Jobs :
            \/ jobs'[i] = table[i]
            \/ /\ table[i].status \in CLEAN_TERMINAL /\ table[i].work = ""
               /\ jobs'[i].status = "trimmed" /\ jobs'[i].work = table[i].work
               /\ jobs'[i].cancel = table[i].cancel
  BY <1>1, <1>4, TrimFacts
<1>6. jobs'[j] = r
  BY <1>3, <1>4, <1>5 DEF CLEAN_TERMINAL
<1>7. \A i \in Jobs \ {j} : SameRow(i)
  BY <1>4, <1>5 DEF SameRow
<1>8. \A i \in Jobs : jobs'[i].status = "cleanup-pending" => jobs'[i].target # "none"
  BY <1>3, <1>4, <1>5, <1>6, Typed
<1>9. /\ pc' \in [Threads -> Label] /\ pc'[j] = "register" /\ pc'[c] = "reap"
      /\ \A u \in Threads \ {j, c} : pc'[u] = pc[u]
  BY <1>1, <1>2, Typed DEF Label, ActivePc, EarlyPc
<1>10. TypeOK'
  BY <1>1, <1>5, <1>8, Typed DEF TypeOK, Row
<1>11. /\ {"register", "reap", "idle"} \cap (CleanPc \cup StreamPc \cup CommittedPc) = {}
       /\ "register" \in ActivePc /\ "register" \in EarlyPc
       /\ {"register", "reap", "idle"} \cap {"unborn", "begin", "finish", "retain"} = {}
  BY DEF CleanPc, StreamPc, CommittedPc, ActivePc, EarlyPc
<1>12. pc[j] \notin CleanPc \cup StreamPc
  BY <1>1, <1>2 DEF RowInv, CleanPc, StreamPc
<1>13. \A u \in Threads : ThreadInv(u)'
  <2>1. ThreadInv(j)'
    BY <1>1, <1>2, <1>9, <1>11, <1>12, Kinds DEF ThreadInv
  <2>2. ThreadInv(c)'
    BY <1>1, <1>2, <1>9, <1>11, Kinds DEF ThreadInv
  <2>3. ASSUME NEW u \in Threads \ {j, c} PROVE ThreadInv(u)'
    BY <1>1, <1>9, ThreadFrame
  <2> QED BY <2>1, <2>2, <2>3
<1>14. \A u \in Workers, i \in Jobs : Passes(u, i)
  <2> SUFFICES ASSUME NEW u \in Workers, NEW i \in Jobs PROVE Passes(u, i)
    OBVIOUS
  <2>1. CASE u \in {j, c}
    BY <2>1, <1>1, <1>9, <1>11 DEF Passes
  <2>2. CASE u \notin {j, c}
    BY <2>2, <1>1, <1>9, Kinds DEF Passes
  <2> QED BY <2>1, <2>2
<1>15. ASSUME NEW i \in Jobs \ {j} PROVE RowInv(i)' /\ DirInv(i)'
  <2>1. pc'[i] = pc[i] /\ dir'[i] = dir[i] /\ masked'[i] = masked[i]
    BY <1>1, <1>9, Kinds
  <2> QED BY <2>1, <1>1, <1>7, <1>14, RowFrame, DirFrame
<1>16. Free(j)' /\ \A u \in Workers : ~(pc'[u] \in StreamPc /\ ctx'[u].job = j)
  <2>1. ASSUME NEW u \in Workers PROVE ~Holds(u, j)'
    BY <1>1, <1>3, <1>9, <1>11, <1>14, Kinds DEF Passes, Holds, Free
  <2> QED BY <2>1 DEF Free, Holds
<1>17. RowInv(j)'
  BY <1>3, <1>6, <1>9, <1>11, <1>16 DEF RowInv, RETAINED, CLEAN_TERMINAL
<1>18. DirInv(j)'
  BY <1>1, <1>3, <1>6, <1>9, <1>11 DEF DirInv, RETAINED
<1> QED BY <1>1, <1>9, <1>10, <1>13, <1>15, <1>17, <1>18 DEF JobsInv

-----------------------------------------------------------------------------
(* The delivery.  A thread that streams a job is the only one that holds it. *)
LEMMA Streaming ==
    ASSUME JobsInv, NEW c \in Workers, pc[c] \in StreamPc
    PROVE  /\ ctx[c] \in Ctx /\ ctx[c].job \in Jobs /\ ThreadInv(c) /\ c \in Callers
           /\ ctx[c].todo = {} /\ jobs[ctx[c].job] \in Row
           /\ RowInv(ctx[c].job) /\ (closed = "no" => DirInv(ctx[c].job))
           /\ jobs[ctx[c].job].status = "delivering"
           /\ \A u \in Workers : Holds(u, ctx[c].job) => u = c
<1> DEFINE j == ctx[c].job
<1>1. c \in Threads /\ ThreadInv(c) /\ ctx[c] \in Ctx
  BY Kinds, Typed DEF JobsInv
<1>2. pc[c] \notin CleanPc \cup ActivePc \cup {"unborn", "done", "dead", "idle", "flag"}
  BY DEF CleanPc, StreamPc, ActivePc, EarlyPc, CommittedPc
<1>3. j \in Jobs /\ ctx[c].todo = {} /\ c \in Callers
  BY <1>1, <1>2, Kinds DEF ThreadInv
<1>4. RowInv(j) /\ (closed = "no" => DirInv(j)) /\ jobs[j] \in Row /\ Holds(c, j)
  BY <1>3, Typed DEF JobsInv, Holds
<1>5. jobs[j].status = "delivering"
  BY <1>4 DEF RowInv
<1>6. \A u \in Workers : Holds(u, j) => u = c
  BY <1>4, <1>5 DEF RowInv
<1> QED BY <1>1, <1>3, <1>4, <1>5, <1>6

(* A step of that thread, which goes on with the stream, or to the clean-up
   after it, or has put the package back. *)
LEMMA StreamStep ==
    ASSUME JobsInv, NEW c \in Workers, pc[c] \in StreamPc, NEW j \in Jobs, j = ctx[c].job,
           pc' \in [Threads -> Label], ctx' \in [Threads -> Ctx],
           \A u \in Threads \ {c} : pc'[u] = pc[u] /\ ctx'[u] = ctx[u],
           ThreadInv(c)', TypeOK', UNCHANGED <<dir, closed, masked>>,
           \A i \in Jobs \ {j} : jobs'[i] = jobs[i],
           ctx'[c].todo = {}, jobs'[j].work = jobs[j].work,
           \/ jobs'[j].status = "delivering" /\ pc'[c] \in StreamPc /\ ctx'[c].job = j
           \/ /\ jobs'[j].status = "delivering" /\ pc'[c] = "cleaning" /\ ctx'[c].job = j
              /\ ctx'[c].work = jobs[j].work
           \/ jobs'[j].status \in RETAINED /\ pc'[c] = "idle"
    PROVE  JobsInv'
<1>1. /\ c \in Callers /\ ctx[c].todo = {} /\ RowInv(j) /\ (closed = "no" => DirInv(j))
      /\ jobs[j].status = "delivering" /\ jobs[j] \in Row
      /\ \A u \in Workers : Holds(u, j) => u = c
  BY Streaming
<1>2. c \in Threads /\ \A i \in Jobs : pc'[i] = pc[i]
  BY <1>1, Kinds
<1>3. pc[j] \in {"done", "dead"} /\ jobs[j].work = "set" /\ pc[j] \notin ActivePc /\ pc[j] \notin CommittedPc
  BY <1>1 DEF RowInv, ActivePc, EarlyPc, CommittedPc
<1>4. ASSUME NEW u \in Workers, Holds(u, j)' PROVE u = c
  <2>1. CASE u # c
    BY <2>1, <1>1, <1>4, Kinds DEF Holds
  <2> QED BY <2>1
<1>5. "idle" \notin CleanPc \cup StreamPc /\ "cleaning" \notin StreamPc
  BY DEF CleanPc, StreamPc
<1>6. ASSUME jobs'[j].status = "delivering", pc'[c] \in StreamPc \cup {"cleaning"}, ctx'[c].job = j
      PROVE  RowInv(j)'
  <2>1. "delivering" \notin RETAINED \cup CLEAN_TERMINAL \cup {"trimmed", "unborn"}
    BY DEF RETAINED, CLEAN_TERMINAL
  <2> QED BY <1>2, <1>3, <1>4, <1>6, <2>1 DEF RowInv
<1>7. ASSUME jobs'[j].status \in RETAINED, pc'[c] = "idle"
      PROVE  RowInv(j)'
  <2>1. jobs'[j].status \notin CLEAN_TERMINAL \cup {"trimmed", "unborn", "delivering"}
    BY <1>7 DEF RETAINED, CLEAN_TERMINAL
  <2>2. ~Holds(c, j)'
    BY <1>5, <1>7 DEF Holds
  <2>3. Free(j)' /\ \A u \in Workers : ~(pc'[u] \in StreamPc /\ ctx'[u].job = j)
    BY <1>4, <2>2 DEF Free, Holds
  <2> QED BY <1>2, <1>3, <1>7, <2>1, <2>3 DEF RowInv
<1>8. RowInv(j)'
  BY <1>6, <1>7
<1>9. ASSUME closed = "no" PROVE DirInv(j)'
  <2>1. dir'[j] = "marked"
    BY <1>1, <1>9 DEF DirInv
  <2>2. ASSUME NEW u \in Workers, CleansUp(u, j)' PROVE ctx'[u].work # "" /\ pc'[u] # "removed"
    <3>1. Holds(u, j)'
      BY <2>2 DEF CleansUp, Holds, CleanPc
    <3>2. u = c
      BY <1>4, <3>1
    <3>3. pc'[c] = "cleaning" /\ ctx'[c].work = jobs[j].work
      BY <2>2, <3>2, <1>5 DEF CleansUp, CleanPc, StreamPc
    <3> QED BY <3>2, <3>3, <1>3
  <2>3. ASSUME NEW u \in Workers, NEW it \in ctx'[u].todo, it.job = j PROVE FALSE
    <3>1. Holds(u, j)'
      BY <2>3 DEF Holds
    <3> QED BY <3>1, <1>4, <2>3
  <2>4. jobs'[j].status # "unborn" /\ pc'[j] # "register"
    BY <1>2, <1>3 DEF RETAINED
  <2> QED BY <2>1, <2>2, <2>3, <2>4, <1>3 DEF DirInv
<1> DEFINE J == {j}
<1>10. /\ J \in SUBSET Jobs /\ closed' = closed
       /\ \A i \in Jobs \ J : SameRow(i)
       /\ \A i \in Jobs \ J : pc'[i] = pc[i]
       /\ \A i \in Jobs \ J : dir'[i] = dir[i] /\ masked'[i] = masked[i]
  BY <1>2 DEF SameRow
<1>11. \A i \in Jobs \ J : c \in Workers => Passes(c, i)
  BY <1>5 DEF Passes
<1>12. /\ \A i \in J : RowInv(i)'
       /\ \A i \in J : closed = "no" => DirInv(i)'
  BY <1>8, <1>9
<1> HIDE DEF J
<1> QED BY <1>2, <1>10, <1>11, <1>12, Step

(* The delivery claims a package that is still offered. *)
LEMMA BeginDeliveryInv ==
    ASSUME JobsInv, NEW c \in Callers, begin_delivery(c)
    PROVE  JobsInv'
<1>1. /\ pc[c] = "begin" /\ c \in Workers /\ c \in Threads /\ ThreadInv(c) /\ ctx[c] \in Ctx
      /\ UNCHANGED <<dir, closed, slots, masked, faults>>
  BY Kinds, Typed DEF begin_delivery, JobsInv
<1>2. PICK j \in Jobs : j = ctx[c].job
  BY <1>1 DEF ThreadInv
<1>3. /\ "begin" \notin CleanPc \cup StreamPc \cup {"dead"} /\ "idle" \notin CleanPc \cup StreamPc
      /\ {"idle", "stream"} \subseteq Label /\ "stream" \in StreamPc /\ "stream" \notin CleanPc
      /\ c \notin Jobs /\ c # Reaper /\ c # Closer
  BY Kinds DEF CleanPc, StreamPc, Label
<1>4. ctx[c].todo = {}
  BY <1>1, <1>3 DEF ThreadInv
<1>5. CASE Return(c) /\ UNCHANGED jobs
  <2> DEFINE e == Local(c)
  <2>1. e \in Ctx /\ e.then = "idle" /\ e.todo = {}
    BY <1>3, LocalFacts
  <2>2. ctx' = [ctx EXCEPT ![c] = e] /\ pc' = [pc EXCEPT ![c] = "idle"]
    BY <1>5, <2>1 DEF Return, Goto
  <2> HIDE DEF e
  <2>3. /\ pc' \in [Threads -> Label] /\ ctx' \in [Threads -> Ctx] /\ pc'[c] = "idle" /\ ctx'[c] = e
        /\ \A u \in Threads \ {c} : pc'[u] = pc[u] /\ ctx'[u] = ctx[u]
    BY <1>1, <1>3, <2>1, <2>2, Typed
  <2>4. TypeOK'
    BY <1>1, <1>5, <2>3, Typed DEF TypeOK, Row
  <2>5. ThreadInv(c)'
    BY <1>3, <2>1, <2>3 DEF ThreadInv, CleanPc, StreamPc
  <2>6. PICK J \in SUBSET Jobs : J = {}
    OBVIOUS
  <2>7. /\ \A i \in Jobs \ J : SameRow(i)
        /\ \A i \in Jobs \ J : pc'[i] = pc[i]
        /\ \A i \in Jobs \ J : dir'[i] = dir[i] /\ masked'[i] = masked[i]
        /\ \A i \in Jobs \ J : c \in Workers => Passes(c, i)
        /\ closed' = closed
    BY <1>1, <1>3, <1>5, <2>1, <2>3, Kinds DEF SameRow, Passes
  <2>8. /\ \A i \in J : RowInv(i)'
        /\ \A i \in J : closed = "no" => DirInv(i)'
    BY <2>6
  <2> QED BY <1>1, <2>3, <2>4, <2>5, <2>7, <2>8, Step
<1>6. CASE /\ jobs[j].status \in RETAINED
           /\ jobs' = [jobs EXCEPT ![j].status = "delivering"] /\ Goto(c, "stream") /\ UNCHANGED ctx
  <2> DEFINE r == [jobs[j] EXCEPT !.status = "delivering"]
  <2>1. jobs[j] \in Row /\ RowInv(j) /\ (closed = "no" => DirInv(j))
    BY Typed DEF JobsInv
  <2>2. r \in Row /\ r.status = "delivering" /\ r.work = jobs[j].work
    BY <2>1 DEF Row, Status, Occupied
  <2>3. jobs' = [jobs EXCEPT ![j] = r] /\ pc' = [pc EXCEPT ![c] = "stream"] /\ ctx' = ctx
    BY <1>6 DEF Goto
  <2> HIDE DEF r
  <2>4. /\ pc' \in [Threads -> Label] /\ pc'[c] = "stream" /\ jobs' \in [Jobs -> Row] /\ jobs'[j] = r
        /\ \A u \in Threads \ {c} : pc'[u] = pc[u] /\ ctx'[u] = ctx[u]
        /\ \A i \in Jobs \ {j} : jobs'[i] = jobs[i]
        /\ \A i \in Jobs : pc'[i] = pc[i]
    BY <1>1, <1>3, <2>2, <2>3, Typed, Kinds
  <2>5. TypeOK'
    <3>1. \A i \in Jobs : jobs'[i].status = "cleanup-pending" => jobs'[i].target # "none"
      BY <2>2, <2>4, Typed
    <3> QED BY <1>1, <2>3, <2>4, <3>1, Typed DEF TypeOK, Row
  <2>6. ThreadInv(c)'
    BY <1>1, <1>2, <1>3, <1>4, <2>3, <2>4 DEF ThreadInv
  <2>7. pc[j] \in {"done", "dead"} /\ jobs[j].work = "set" /\ Free(j)
    BY <1>6, <2>1 DEF RowInv
  <2>8. pc[j] \notin ActivePc /\ pc[j] \notin CommittedPc
    BY <2>7 DEF ActivePc, EarlyPc, CommittedPc
  <2>9. ASSUME NEW u \in Workers, Holds(u, j)'
        PROVE  u = c
    BY <2>9, <2>4, <2>7, Kinds DEF Holds, Free
  <2>10. RowInv(j)'
    <3>1. "delivering" \notin RETAINED \cup CLEAN_TERMINAL \cup {"trimmed", "unborn"}
      BY DEF RETAINED, CLEAN_TERMINAL
    <3>2. ctx'[c].job = j /\ ctx'[c].todo = {}
      BY <1>2, <1>4, <2>3
    <3> QED BY <1>3, <2>2, <2>4, <2>7, <2>8, <2>9, <3>1, <3>2 DEF RowInv
  <2>11. ASSUME closed = "no" PROVE DirInv(j)'
    <3>1. dir'[j] = "marked"
      BY <1>1, <1>6, <2>1, <2>11 DEF DirInv
    <3>2. ASSUME NEW u \in Workers, CleansUp(u, j)' PROVE FALSE
      <4>1. Holds(u, j)'
        BY <3>2 DEF CleansUp, Holds, CleanPc
      <4> QED BY <4>1, <2>9, <3>2, <2>4, <1>3 DEF CleansUp, CleanPc
    <3>3. ASSUME NEW u \in Workers, NEW it \in ctx'[u].todo, it.job = j PROVE FALSE
      <4>1. Holds(u, j)'
        BY <3>3 DEF Holds
      <4> QED BY <4>1, <2>9, <3>3, <1>4, <2>3
    <3>4. jobs'[j].status # "unborn" /\ pc'[j] # "register"
      BY <2>2, <2>4, <2>7
    <3> QED BY <3>1, <3>2, <3>3, <3>4, <2>2, <2>4, <2>7, <2>8 DEF DirInv
  <2> DEFINE J == {j}
  <2>12. /\ J \in SUBSET Jobs /\ closed' = closed
         /\ \A i \in Jobs \ J : SameRow(i)
         /\ \A i \in Jobs \ J : pc'[i] = pc[i]
         /\ \A i \in Jobs \ J : dir'[i] = dir[i] /\ masked'[i] = masked[i]
         /\ \A i \in Jobs \ J : c \in Workers => Passes(c, i)
    BY <1>1, <1>2, <1>4, <2>3, <2>4 DEF SameRow, Passes
  <2>13. /\ \A i \in J : RowInv(i)'
         /\ \A i \in J : closed = "no" => DirInv(i)'
    BY <2>10, <2>11
  <2> HIDE DEF J
  <2> QED BY <1>1, <2>4, <2>5, <2>6, <2>12, <2>13, Step
<1> QED BY <1>2, <1>5, <1>6 DEF begin_delivery

(* The stream goes on, or ends with a result that is to be retained. *)
LEMMA StreamMove ==
    ASSUME JobsInv, NEW c \in Callers, pc[c] \in StreamPc, NEW l \in StreamPc, NEW e \in Ctx,
           pc' = [pc EXCEPT ![c] = l], ctx' = [ctx EXCEPT ![c] = e],
           e.job = ctx[c].job, e.then = ctx[c].then, e.todo = ctx[c].todo,
           l \in {"finish", "retain"} => e.final \in RETAINED,
           jobs' = jobs \/ jobs' = Updated(ctx[c].job, "delivering"),
           UNCHANGED <<dir, closed, slots, masked, faults>>
    PROVE  JobsInv'
<1>1. c \in Workers /\ c \in Threads /\ c \notin Jobs /\ c # Reaper /\ c # Closer
  BY Kinds
<1>2. PICK j \in Jobs : j = ctx[c].job
  BY <1>1, Streaming
<1>3. /\ ctx[c] \in Ctx /\ ThreadInv(c) /\ ctx[c].todo = {} /\ jobs[j].status = "delivering" /\ jobs[j] \in Row
  BY <1>1, <1>2, Streaming
<1>4. jobs' = jobs
  <2>1. [jobs[j] EXCEPT !.status = "delivering"] = jobs[j]
    BY <1>3 DEF Row
  <2>2. Updated(j, "delivering") = [jobs EXCEPT ![j] = [jobs[j] EXCEPT !.status = "delivering"]]
    BY <1>3 DEF Updated, Present
  <2>3. [jobs EXCEPT ![j] = jobs[j]] = jobs
    BY Typed
  <2> QED BY <1>2, <2>1, <2>2, <2>3
<1>5. l \in Label /\ l \notin CleanPc
  BY DEF Label, StreamPc, CleanPc
<1>6. /\ pc' \in [Threads -> Label] /\ ctx' \in [Threads -> Ctx] /\ pc'[c] = l /\ ctx'[c] = e
      /\ \A u \in Threads \ {c} : pc'[u] = pc[u] /\ ctx'[u] = ctx[u]
  BY <1>1, <1>5, Typed
<1>7. TypeOK'
  BY <1>4, <1>6, Typed DEF TypeOK, Row
<1>8. ThreadInv(c)'
  BY <1>1, <1>2, <1>3, <1>5, <1>6 DEF ThreadInv
<1> QED BY <1>1, <1>2, <1>3, <1>4, <1>6, <1>7, <1>8, StreamStep

(* The stream, step by step. *)
LEMMA StreamInv ==
    ASSUME JobsInv, NEW c \in Callers, StreamProbe(c) \/ StreamChunk(c) \/ StreamEnd(c)
    PROVE  JobsInv'
<1>1. pc[c] \in {"stream", "chunk", "eof"} /\ UNCHANGED <<dir, closed, slots, masked, faults>>
  BY DEF StreamProbe, StreamChunk, StreamEnd
<1>2. pc[c] \in StreamPc /\ c \in Workers /\ ctx[c] \in Ctx /\ {"stream", "chunk", "eof", "finish"} \subseteq StreamPc
  BY <1>1, Kinds, Typed DEF StreamPc
<1>3. \/ jobs' = jobs \/ jobs' = Updated(ctx[c].job, "delivering")
  BY DEF StreamProbe, StreamChunk, StreamEnd
<1>4. \/ \E l \in {"stream", "chunk", "eof"} : Goto(c, l) /\ UNCHANGED ctx
      \/ \E final \in {"delivery-interrupted", "delivered"} : EndStream(c, final)
  BY DEF StreamProbe, StreamChunk, StreamEnd
<1>5. CASE \E l \in {"stream", "chunk", "eof"} : Goto(c, l) /\ UNCHANGED ctx
  <2>1. PICK l \in {"stream", "chunk", "eof"} : Goto(c, l) /\ UNCHANGED ctx
    BY <1>5
  <2>2. /\ l \in StreamPc /\ pc' = [pc EXCEPT ![c] = l] /\ ctx' = [ctx EXCEPT ![c] = ctx[c]]
        /\ l \notin {"finish", "retain"}
    BY <1>2, <2>1, Typed DEF Goto
  <2> QED BY <1>1, <1>2, <1>3, <2>2, StreamMove
<1>6. CASE \E final \in {"delivery-interrupted", "delivered"} : EndStream(c, final)
  <2>1. PICK final \in {"delivery-interrupted", "delivered"} : EndStream(c, final)
    BY <1>6
  <2> DEFINE e == [ctx[c] EXCEPT !.final = final]
  <2>2. final \in RETAINED
    BY DEF RETAINED
  <2>3. e \in Ctx /\ e.job = ctx[c].job /\ e.then = ctx[c].then /\ e.todo = ctx[c].todo /\ e.final \in RETAINED
    BY <1>2, <2>2 DEF Ctx
  <2>4. pc' = [pc EXCEPT ![c] = "finish"] /\ ctx' = [ctx EXCEPT ![c] = e]
    BY <2>1 DEF EndStream, Goto
  <2> HIDE DEF e
  <2> QED BY <1>1, <1>2, <1>3, <2>3, <2>4, StreamMove
<1> QED BY <1>4, <1>5, <1>6

(* finish_delivery starts the clean-up of a cancelled job, or goes on to put the
   package back. *)
LEMMA FinishAskInv ==
    ASSUME JobsInv, NEW c \in Callers, FinishAsk(c)
    PROVE  JobsInv'
<1>1. /\ pc[c] = "finish" /\ UNCHANGED <<jobs, dir, closed, slots, masked, faults>>
      /\ c \in Workers /\ c \notin Jobs /\ c # Reaper /\ c # Closer /\ pc[c] \in StreamPc /\ "retain" \in StreamPc
  BY Kinds DEF FinishAsk, StreamPc
<1>2. PICK j \in Jobs : j = ctx[c].job
  BY <1>1, Streaming
<1>3. /\ ctx[c] \in Ctx /\ ThreadInv(c) /\ ctx[c].todo = {} /\ jobs[j].status = "delivering" /\ jobs[j] \in Row
  BY <1>1, <1>2, Streaming
<1> DEFINE item == [job |-> j, work |-> jobs[j].work, target |-> "cancelled"]
<1>4. \/ Proceed(c, {item}, "idle", NoJob)
      \/ Goto(c, "retain") /\ UNCHANGED ctx
  BY <1>2, <1>3 DEF FinishAsk, Present
<1>5. CASE Goto(c, "retain") /\ UNCHANGED ctx
  <2>1. pc' = [pc EXCEPT ![c] = "retain"] /\ ctx' = [ctx EXCEPT ![c] = ctx[c]] /\ ctx[c].final \in RETAINED
    BY <1>1, <1>3, <1>5, Typed, Kinds DEF Goto, ThreadInv
  <2> QED BY <1>1, <1>3, <2>1, StreamMove
<1>6. CASE Proceed(c, {item}, "idle", NoJob)
  <2>1. item \in Item /\ item.job = j /\ item.work = jobs[j].work
    BY <1>3 DEF Item, Row, CLEAN_TERMINAL
  <2>2. PICK todo \in SUBSET Item : todo = {item}
    BY <2>1
  <2>3. Proceed(c, todo, "idle", NoJob)
    BY <1>6, <2>2
  <2>4. TookUp(c, todo)
    BY <1>1, <2>3, ProceedThread
  <2> HIDE DEF item
  <2>5. /\ pc' \in [Threads -> Label] /\ ctx' \in [Threads -> Ctx]
        /\ \A u \in Threads \ {c} : pc'[u] = pc[u] /\ ctx'[u] = ctx[u]
        /\ ThreadInv(c)'
    BY <2>4 DEF TookUp
  <2>6. pc'[c] = "cleaning"
    BY <2>2, <2>3, <1>1, Typed, Kinds DEF Proceed, Goto
  <2>7. ctx'[c].job = j /\ ctx'[c].work = jobs[j].work /\ ctx'[c].todo = {}
    BY <2>1, <2>2, <2>4, <2>6 DEF TookUp
  <2>8. TypeOK'
    BY <1>1, <2>5, Typed DEF TypeOK, Row
  <2> QED BY <1>1, <1>2, <1>3, <2>5, <2>6, <2>7, <2>8, StreamStep
<1> QED BY <1>4, <1>5, <1>6

(* ... and puts it back. *)
LEMMA FinishRetainInv ==
    ASSUME JobsInv, NEW c \in Callers, FinishRetain(c)
    PROVE  JobsInv'
<1>1. /\ pc[c] = "retain" /\ UNCHANGED <<dir, closed, slots, masked, faults>> /\ Return(c)
      /\ c \in Workers /\ c \notin Jobs /\ c # Reaper /\ c # Closer /\ pc[c] \in StreamPc /\ c \in Threads
  BY Kinds DEF FinishRetain, StreamPc
<1>2. PICK j \in Jobs : j = ctx[c].job
  BY <1>1, Streaming
<1>3. /\ ctx[c] \in Ctx /\ ThreadInv(c) /\ ctx[c].todo = {} /\ jobs[j].status = "delivering" /\ jobs[j] \in Row
  BY <1>1, <1>2, Streaming
<1>4. ctx[c].final \in RETAINED
  BY <1>1, <1>3 DEF ThreadInv
<1> DEFINE e == Local(c)
           r == [jobs[j] EXCEPT !.status = ctx[c].final]
<1>5. e \in Ctx /\ e.then = "idle" /\ e.todo = {}
  BY <1>1, LocalFacts
<1>6. r \in Row /\ r.status \in RETAINED /\ r.work = jobs[j].work
  BY <1>3, <1>4 DEF Row, Status, Occupied
<1>7. jobs' = [jobs EXCEPT ![j] = r] /\ ctx' = [ctx EXCEPT ![c] = e] /\ pc' = [pc EXCEPT ![c] = "idle"]
  BY <1>1, <1>2, <1>3, <1>5 DEF FinishRetain, Updated, Present, Return, Goto
<1>8. "idle" \in Label /\ "idle" \notin CleanPc \cup StreamPc \cup {"begin", "finish", "retain"}
  BY DEF Label, CleanPc, StreamPc
<1> HIDE DEF e, r
<1>9. /\ pc' \in [Threads -> Label] /\ ctx' \in [Threads -> Ctx] /\ jobs' \in [Jobs -> Row]
      /\ pc'[c] = "idle" /\ ctx'[c] = e /\ jobs'[j] = r
      /\ \A u \in Threads \ {c} : pc'[u] = pc[u] /\ ctx'[u] = ctx[u]
      /\ \A i \in Jobs \ {j} : jobs'[i] = jobs[i]
  BY <1>1, <1>5, <1>6, <1>7, <1>8, Typed
<1>10. TypeOK'
  <2>1. \A i \in Jobs : jobs'[i].status = "cleanup-pending" => jobs'[i].target # "none"
    BY <1>6, <1>9, Typed DEF RETAINED
  <2> QED BY <1>1, <1>9, <2>1, Typed DEF TypeOK, Row
<1>11. ThreadInv(c)'
  BY <1>1, <1>5, <1>8, <1>9 DEF ThreadInv
<1> QED BY <1>1, <1>2, <1>5, <1>6, <1>9, <1>10, <1>11, StreamStep

-----------------------------------------------------------------------------
(* The deadline of a package passes; nobody moves and nobody's job changes. *)
LEMMA ExpireInv ==
    ASSUME JobsInv, NEW j \in Jobs, Expire(j)
    PROVE  JobsInv'
<1> DEFINE r == [jobs[j] EXCEPT !.deadline = "past"]
<1>1. /\ jobs[j] \in Row /\ jobs' = [jobs EXCEPT ![j] = r]
      /\ UNCHANGED <<dir, closed, slots, pc, ctx, masked, faults>>
  BY Typed DEF Expire
<1>2. /\ r \in Row /\ r.status = jobs[j].status /\ r.work = jobs[j].work
      /\ r.cancel = jobs[j].cancel /\ r.target = jobs[j].target
  BY <1>1 DEF Row
<1> HIDE DEF r
<1>3. jobs' \in [Jobs -> Row] /\ jobs'[j] = r /\ \A i \in Jobs \ {j} : jobs'[i] = jobs[i]
  BY <1>1, <1>2, Typed
<1>4. TypeOK'
  <2>1. \A i \in Jobs : jobs'[i].status = "cleanup-pending" => jobs'[i].target # "none"
    BY <1>2, <1>3, Typed
  <2> QED BY <1>1, <1>3, <2>1, Typed DEF TypeOK, Row
<1>5. \A i \in Jobs : SameRow(i)
  BY <1>2, <1>3 DEF SameRow
<1>6. \A u \in Threads : ThreadInv(u)'
  BY <1>1, ThreadFrame
<1>7. ASSUME NEW i \in Jobs PROVE RowInv(i)' /\ (closed = "no" => DirInv(i)')
  <2>1. pc'[i] = pc[i] /\ \A u \in Workers : Passes(u, i)
    BY <1>1 DEF Passes
  <2>2. dir'[i] = dir[i] /\ masked'[i] = masked[i]
    BY <1>1
  <2> QED BY <1>5, <2>1, <2>2, RowFrame, DirFrame
<1> QED BY <1>1, <1>4, <1>6, <1>7, Typed DEF JobsInv

-----------------------------------------------------------------------------
(* The shutdown goes on with its list of workspaces, or is done with it. *)
LEMMA CloserProceeds ==
    ASSUME JobsInv, NEW todo \in SUBSET Item, Proceed(Closer, todo, "done", NoJob), closed' = "yes"
    PROVE  /\ pc' \in [Threads -> Label] /\ ctx' \in [Threads -> Ctx]
           /\ \A u \in Threads \ {Closer} : pc'[u] = pc[u] /\ ctx'[u] = ctx[u]
           /\ ThreadInv(Closer)'
<1>1. Closer \in Threads /\ Closer \notin Jobs /\ Closer \notin Callers /\ Closer # Reaper
  BY Kinds
<1>2. NoJob \in Jobs \cup {NoJob} /\ "done" \in {"idle", "done", "begin", "reap"}
  OBVIOUS
<1>3. Proceeded(Closer, todo, "done", NoJob)
  BY <1>1, <1>2, Typed, ProceedFacts
<1>4. "prove" \in CleanPc /\ "prove" \notin StreamPc /\ "done" \notin CleanPc \cup StreamPc \cup {"dead"}
  BY DEF CleanPc, StreamPc
<1>5. \/ /\ pc'[Closer] = "prove" /\ ctx'[Closer].then = "done"
         /\ ctx'[Closer].final \in CLEAN_TERMINAL /\ ctx'[Closer].job \in Jobs
      \/ pc'[Closer] = "done" /\ ctx'[Closer].todo = {}
  BY <1>3 DEF Proceeded
<1>6. ThreadInv(Closer)'
  BY <1>1, <1>4, <1>5 DEF ThreadInv
<1> QED BY <1>3, <1>6 DEF Proceeded

(* close: the event, the flags, then one workspace after the other. *)
LEMMA CloseInv ==
    ASSUME JobsInv, CloseEvent \/ CloseFlag \/ CloseNext
    PROVE  JobsInv'
<1>1. Closer \in Threads /\ Closer \notin Jobs /\ Closer \notin Callers /\ Closer # Reaper /\ ThreadInv(Closer)
  BY Kinds DEF JobsInv
<1>2. CASE CloseEvent
  <2>1. /\ pc[Closer] = "idle" /\ closed' = "yes" /\ pc' = [pc EXCEPT ![Closer] = "flag"]
        /\ UNCHANGED <<jobs, dir, slots, ctx, masked, faults>>
    BY <1>2 DEF CloseEvent, Goto
  <2>2. /\ "flag" \in Label /\ "flag" \notin CleanPc \cup StreamPc \cup {"dead"}
        /\ "idle" \notin CleanPc \cup StreamPc \cup {"dead"}
    BY DEF Label, CleanPc, StreamPc
  <2>3. /\ pc' \in [Threads -> Label] /\ pc'[Closer] = "flag"
        /\ \A u \in Threads \ {Closer} : pc'[u] = pc[u] /\ ctx'[u] = ctx[u]
    BY <1>1, <2>1, <2>2, Typed
  <2>4. ThreadInv(Closer)'
    BY <1>1, <2>1, <2>2, <2>3 DEF ThreadInv
  <2>5. TypeOK' /\ \A i \in Jobs : SameRow(i)
    BY <2>1, Typed DEF TypeOK, Row, SameRow
  <2> QED BY <2>1, <2>3, <2>4, <2>5, CloserStep
<1>3. CASE CloseFlag
  <2> DEFINE New == [j \in Jobs |-> IF Present(j) THEN [jobs[j] EXCEPT !.cancel = "yes"] ELSE jobs[j]]
             All == {[job |-> j, work |-> jobs[j].work, target |-> "cancelled"] :
                        j \in {i \in Jobs : Present(i)}}
  <2>1. /\ pc[Closer] = "flag" /\ jobs' = New /\ Proceed(Closer, All, "done", NoJob)
        /\ UNCHANGED <<dir, closed, slots, masked, faults>>
    BY <1>3 DEF CloseFlag
  <2>2. closed' = "yes"
    BY <1>1, <2>1 DEF ThreadInv
  <2>3. All \in SUBSET Item
    <3>1. ASSUME NEW j \in Jobs PROVE [job |-> j, work |-> jobs[j].work, target |-> "cancelled"] \in Item
      <4>1. jobs[j].work \in {"", "set"}
        BY Typed DEF Row
      <4> QED BY <4>1 DEF Item, CLEAN_TERMINAL
    <3> QED BY <3>1
  <2>4. ASSUME NEW j \in Jobs
        PROVE  /\ New[j] \in Row /\ New[j].status = jobs[j].status /\ New[j].work = jobs[j].work
               /\ New[j].target = jobs[j].target
               /\ New[j].cancel = jobs[j].cancel \/ (jobs[j].status # "unborn" /\ New[j].cancel = "yes")
    <3>1. jobs[j] \in Row
      BY Typed
    <3>2. CASE ~Present(j)
      BY <3>1, <3>2
    <3>3. CASE Present(j)
      <4>1. New[j] = [jobs[j] EXCEPT !.cancel = "yes"]
        BY <3>3
      <4>2. jobs[j].status # "unborn"
        BY <3>3 DEF Present
      <4> HIDE DEF New
      <4> QED BY <3>1, <4>1, <4>2 DEF Row
    <3> QED BY <3>2, <3>3
  <2>5. PICK todo \in SUBSET Item : todo = All
    BY <2>3
  <2>6. PICK new \in [Jobs -> Row] : new = New
    BY <2>4
  <2>7. Proceed(Closer, todo, "done", NoJob) /\ jobs' = new
    BY <2>1, <2>5, <2>6
  <2>8. \A i \in Jobs : SameRow(i) /\ jobs'[i].target = jobs[i].target /\ jobs'[i].status = jobs[i].status
    BY <2>4, <2>6, <2>7 DEF SameRow
  <2> HIDE DEF New, All
  <2>9. /\ pc' \in [Threads -> Label] /\ ctx' \in [Threads -> Ctx]
        /\ \A u \in Threads \ {Closer} : pc'[u] = pc[u] /\ ctx'[u] = ctx[u]
        /\ ThreadInv(Closer)'
    BY <2>2, <2>7, CloserProceeds
  <2>10. TypeOK'
    <3>1. \A i \in Jobs : jobs'[i].status = "cleanup-pending" => jobs'[i].target # "none"
      BY <2>8, Typed
    <3> QED BY <2>1, <2>2, <2>7, <2>9, <3>1, Typed DEF TypeOK, Row
  <2> QED BY <2>2, <2>8, <2>9, <2>10, CloserStep
<1>4. CASE CloseNext
  <2>1. /\ pc[Closer] \in {"removed", "kept"} /\ Proceed(Closer, ctx[Closer].todo, "done", NoJob)
        /\ UNCHANGED <<jobs, dir, closed, slots, masked, faults>>
    BY <1>4 DEF CloseNext
  <2>2. closed' = "yes" /\ ctx[Closer].todo \in SUBSET Item
    BY <1>1, <2>1, Typed DEF ThreadInv, Ctx
  <2>3. PICK todo \in SUBSET Item : todo = ctx[Closer].todo
    BY <2>2
  <2>4. Proceed(Closer, todo, "done", NoJob)
    BY <2>1, <2>3
  <2>5. /\ pc' \in [Threads -> Label] /\ ctx' \in [Threads -> Ctx]
        /\ \A u \in Threads \ {Closer} : pc'[u] = pc[u] /\ ctx'[u] = ctx[u]
        /\ ThreadInv(Closer)'
    BY <2>2, <2>4, CloserProceeds
  <2>6. TypeOK' /\ \A i \in Jobs : SameRow(i)
    BY <2>1, <2>5, Typed DEF TypeOK, Row, SameRow
  <2> QED BY <2>2, <2>5, <2>6, CloserStep
<1> QED BY <1>2, <1>3, <1>4

(* The process ends with every thread where it was; the rows stay. *)
LEMMA ExitInv ==
    ASSUME JobsInv, Exit
    PROVE  JobsInv'
<1>1. /\ pc[Closer] = "done" /\ pc' = [t \in Threads |-> "dead"]
      /\ UNCHANGED <<jobs, dir, closed, slots, ctx, masked, faults>>
  BY DEF Exit
<1>2. closed = "yes"
  BY <1>1, Kinds DEF JobsInv, ThreadInv
<1>3. "dead" \in Label /\ "dead" \notin CleanPc \cup StreamPc \cup ActivePc \cup CommittedPc
  BY DEF Label, CleanPc, StreamPc, ActivePc, EarlyPc, CommittedPc
<1>4. TypeOK' /\ pc' \in [Threads -> Label]
  BY <1>1, <1>3, Typed DEF TypeOK, Row
<1>5. ASSUME NEW t \in Threads PROVE ThreadInv(t)'
  <2>1. ThreadInv(t) /\ pc'[t] = "dead" /\ ctx'[t] = ctx[t]
    BY <1>1 DEF JobsInv
  <2> QED BY <1>1, <1>2, <1>3, <2>1 DEF ThreadInv
<1>6. ASSUME NEW j \in Jobs PROVE RowInv(j)'
  <2>1. RowInv(j) /\ jobs'[j] = jobs[j] /\ pc'[j] = "dead" /\ \A t \in Workers : pc'[t] = "dead"
    BY <1>1, Kinds DEF JobsInv
  <2>2. ASSUME NEW t \in Workers, Holds(t, j)' PROVE Holds(t, j) /\ ctx[t].todo # {}
    BY <2>1, <2>2, <1>1, <1>3 DEF Holds
  <2>3. Free(j) => Free(j)'
    BY <2>2 DEF Free
  <2>4. jobs[j].status = "delivering" => \A t \in Workers : ~Holds(t, j)'
    BY <2>1, <2>2 DEF RowInv
  <2> QED BY <1>3, <2>1, <2>3, <2>4 DEF RowInv
<1> QED BY <1>1, <1>2, <1>4, <1>5, <1>6 DEF JobsInv

-----------------------------------------------------------------------------
(* No jobs and no workspaces at the start of the service. *)
LEMMA JobsInit == Init => JobsInv
<1> SUFFICES ASSUME Init PROVE JobsInv
  OBVIOUS
<1>1. /\ "idle" \in Label /\ "unborn" \in Label
      /\ {"idle", "unborn"} \cap (CleanPc \cup StreamPc \cup ActivePc \cup CommittedPc) = {}
      /\ "unborn" \in Status /\ "unborn" \notin RETAINED \cup CLEAN_TERMINAL
  BY DEF Label, CleanPc, StreamPc, ActivePc, EarlyPc, CommittedPc, Status, RETAINED, CLEAN_TERMINAL
<1> DEFINE r == [status |-> "unborn", cancel |-> "no", work |-> "", deadline |-> "none", target |-> "none"]
<1>2. r \in Row /\ r.status = "unborn" /\ r.cancel = "no" /\ r.work = ""
  BY <1>1 DEF Row
<1>3. jobs = [j \in Jobs |-> r]
  BY DEF Init
<1> HIDE DEF r
<1>4. jobs \in [Jobs -> Row] /\ \A j \in Jobs : jobs[j] = r
  BY <1>2, <1>3
<1>5. ctx \in [Threads -> Ctx] /\ \A t \in Threads : ctx[t] = Local(t)
  BY LocalFacts DEF Init
<1>6. TypeOK
  <2>1. MaxFaults \in 0..MaxFaults /\ Slots \in Nat
    BY JobsAssumption
  <2>2. \A j \in Jobs : jobs[j].status = "cleanup-pending" => jobs[j].target # "none"
    BY <1>2, <1>4
  <2> QED BY <1>4, <1>5, <2>1, <2>2 DEF Init, TypeOK, Row
<1>7. pc \in [Threads -> Label] /\ \A t \in Threads : pc[t] = IF t \in Jobs THEN "unborn" ELSE "idle"
  BY <1>1 DEF Init
<1>8. ASSUME NEW t \in Threads
      PROVE  /\ ctx[t].todo = {} /\ (t \in Jobs => ctx[t].job = t /\ ctx[t].then = "done")
             /\ (t \notin Jobs => ctx[t].then = "idle") /\ pc[t] \in {"idle", "unborn"}
  <2>1. ctx[t] = Local(t) /\ Local(t).todo = {} /\ pc[t] \in {"idle", "unborn"}
    BY <1>5, <1>7 DEF Local
  <2> QED BY <2>1, LocalFacts
<1>9. ASSUME NEW t \in Threads PROVE ThreadInv(t)
  BY <1>1, <1>7, <1>8, Kinds DEF ThreadInv
<1>10. ASSUME NEW j \in Jobs, NEW t \in Workers
       PROVE  ~Holds(t, j) /\ ~CleansUp(t, j) /\ pc[t] \notin StreamPc /\ ctx[t].todo = {}
  <2>1. t \in Threads
    BY Kinds
  <2> QED BY <2>1, <1>1, <1>8 DEF Holds, CleansUp, CleanPc
<1>11. ASSUME NEW j \in Jobs PROVE RowInv(j) /\ DirInv(j)
  <2>1. jobs[j] = r /\ dir[j] = "none" /\ pc[j] = "unborn" /\ Free(j)
    BY <1>4, <1>7, <1>10, Kinds DEF Init, Free
  <2>2. RowInv(j)
    BY <1>1, <1>2, <1>10, <2>1 DEF RowInv
  <2>3. DirInv(j)
    BY <1>1, <1>2, <1>10, <2>1 DEF DirInv
  <2> QED BY <2>2, <2>3
<1> QED BY <1>6, <1>7, <1>9, <1>11 DEF JobsInv

(* A step that changes nothing. *)
LEMMA JobsStutter == JobsInv /\ UNCHANGED vars => JobsInv'
<1> SUFFICES ASSUME JobsInv, UNCHANGED vars PROVE JobsInv'
  OBVIOUS
<1>1. UNCHANGED <<jobs, dir, closed, slots, pc, ctx, masked, faults>>
  BY DEF vars
<1>2. TypeOK' /\ pc' \in [Threads -> Label]
  BY <1>1 DEF JobsInv, TypeOK
<1>3. \A t \in Threads : ThreadInv(t)'
  BY <1>1, ThreadFrame
<1>4. ASSUME NEW j \in Jobs PROVE RowInv(j)' /\ (closed = "no" => DirInv(j)')
  <2>1. SameRow(j) /\ pc'[j] = pc[j] /\ dir'[j] = dir[j] /\ masked'[j] = masked[j]
    BY <1>1 DEF SameRow
  <2>2. \A u \in Workers : Passes(u, j)
    BY <1>1 DEF Passes
  <2> QED BY <2>1, <2>2, RowFrame, DirFrame
<1> QED BY <1>1, <1>2, <1>3, <1>4 DEF JobsInv

(* Every step of every thread keeps the invariant. *)
LEMMA JobsNext == JobsInv /\ [Next]_vars => JobsInv'
<1> SUFFICES ASSUME JobsInv, [Next]_vars PROVE JobsInv'
  OBVIOUS
<1>1. ASSUME NEW c \in Callers, NEW j \in Jobs, RequestDelivery(c, j)
      PROVE  JobsInv'
  <2>1. pc[c] \in {"idle", "reap"} /\ reap_expired(c, "begin", j)
    BY <1>1 DEF RequestDelivery
  <2> QED BY <2>1, ReapInv
<1>2. ASSUME NEW t \in Threads, Poll(t) \/ StatusReap(t)
      PROVE  JobsInv'
  <2>1. pc[t] \in {"idle", "reap"} /\ reap_expired(t, "idle", NoJob)
    BY <1>2 DEF Poll, StatusReap
  <2>2. t \in Callers \cup {Reaper}
    <3>1. CASE Poll(t)
      BY <3>1 DEF Poll
    <3>2. CASE StatusReap(t)
      <4>1. pc[t] = "reap" /\ ThreadInv(t)
        BY <3>2 DEF StatusReap, JobsInv
      <4>2. "reap" \notin ActivePc \cup CleanPc
        BY DEF ActivePc, EarlyPc, CommittedPc, CleanPc
      <4> QED BY <4>1, <4>2, Kinds DEF ThreadInv
    <3> QED BY <1>2, <3>1, <3>2
  <2> QED BY <2>1, <2>2, ReapInv
<1>3. ASSUME NEW t \in Threads, CleanUp(t) PROVE JobsInv'
  BY <1>3, MarkCleaningInv, ProveOwnedInv, RemoveEntriesInv, RemoveRootInv, PublishCleanupInv DEF CleanUp
<1>4. ASSUME NEW j \in Jobs, Run(j) PROVE JobsInv'
  BY <1>4, RunRegisterInv, RunProbeInv, RunUpdateInv, RunSlotInv, RunLookUpInv, RunBuildInv, AdoptInv DEF Run
<1>5. ASSUME NEW c \in Callers, Deliver(c) PROVE JobsInv'
  BY <1>5, BeginDeliveryInv, StreamInv, FinishAskInv, FinishRetainInv DEF Deliver
<1>6. ASSUME Shutdown PROVE JobsInv'
  BY <1>6, CloseInv, ExitInv DEF Shutdown
<1> QED BY <1>1, <1>2, <1>3, <1>4, <1>5, <1>6, CreateInv, CancelInv, ExpireInv, JobsStutter DEF Next

(* The job table, the workspaces and the threads keep to the invariant: who
   holds a job, and what is left of its workspace, follow from the row's status
   and the builder's place. *)
THEOREM JobsInvariant == Spec => []JobsInv
  BY JobsInit, JobsNext, PTL DEF Spec

(* The types hold, and a row that waits for another try of its clean-up knows
   the result it is to get (cleanup_target_status). *)
THEOREM JobsTypeTheorem == Spec => []TypeOK
<1>1. JobsInv => TypeOK
  BY DEF JobsInv
<1> QED BY <1>1, JobsInvariant, PTL

(* Until the shutdown, no clean-up - of a cancellation, of the reaper, of a
   status poll - touches the files of a package that is offered or streamed. *)
THEOREM IntactTheorem == Spec => []OfferedIsIntact
<1>1. JobsInv => OfferedIsIntact
  <2> SUFFICES ASSUME JobsInv, closed = "no", NEW j \in Jobs, jobs[j].status \in RETAINED \cup {"delivering"}
               PROVE  /\ dir[j] = "marked" /\ jobs[j].work = "set"
                      /\ \A t \in Threads : pc[t] \in {"prove", "rmtree", "rmdir"} => ctx[t].job # j
    BY DEF OfferedIsIntact
  <2>1. RowInv(j) /\ DirInv(j)
    BY DEF JobsInv
  <2>2. dir[j] = "marked" /\ jobs[j].work = "set"
    BY <2>1 DEF RowInv, DirInv
  <2>3. ASSUME NEW t \in Threads, pc[t] \in {"prove", "rmtree", "rmdir"}, ctx[t].job = j PROVE FALSE
    <3>1. t \in Workers
      <4>1. ThreadInv(t)
        BY DEF JobsInv
      <4> QED BY <4>1, <2>3 DEF ThreadInv, Workers
    <3>2. Holds(t, j) /\ pc[t] \notin StreamPc \cup {"cleaning"}
      BY <2>3 DEF Holds, CleanPc, StreamPc
    <3> QED BY <2>1, <3>1, <3>2 DEF RowInv, Free
  <2> QED BY <2>2, <2>3
<1> QED BY <1>1, JobsInvariant, PTL

(* Until the shutdown, a job that has failed, was cancelled, has expired or was
   trimmed has no files left, unless a clean-up took the progress of another
   one for its own success (FileNotFoundError in _cleanup_dir). *)
THEOREM CleanTerminalTheorem == Spec => []CleanTerminalUnlessMasked
<1>1. JobsInv => CleanTerminalUnlessMasked
  <2> SUFFICES ASSUME JobsInv, closed = "no", NEW j \in Jobs, masked[j] = "no",
                      jobs[j].status \in CLEAN_TERMINAL \cup {"trimmed"}
               PROVE  dir[j] = "none"
    BY DEF CleanTerminalUnlessMasked, NoFilesLeft
  <2>1. RowInv(j) /\ DirInv(j)
    BY DEF JobsInv
  <2> QED BY <2>1 DEF RowInv, DirInv
<1> QED BY <1>1, JobsInvariant, PTL

-----------------------------------------------------------------------------
(* What no step does to job j: offer it although it is cancelled and nobody
   streams it, give it a workspace that nobody accounts for, start its builder
   without counting it. *)
NotOffered(j) ==
    jobs'[j].status \in RETAINED => jobs[j].status \in RETAINED \cup {"delivering"} \/ jobs[j].cancel = "no"
NotOwner(j)   == jobs'[j].work = "set" => j \in Owners
NotStarted(j) == pc'[j] = "register" /\ jobs'[j].cancel = "no" => j \in Owners

Careful == \A j \in Jobs : NotOffered(j) /\ NotOwner(j) /\ NotStarted(j)

(* The rows stay, or change like a cancelled or a trimmed one, and no builder
   starts. *)
LEMMA RowsStay ==
    ASSUME JobsInv, \A j \in Jobs : SameRow(j), \A j \in Jobs : pc'[j] = "register" => pc[j] = "register"
    PROVE  Careful
<1> SUFFICES ASSUME NEW j \in Jobs PROVE NotOffered(j) /\ NotOwner(j) /\ NotStarted(j)
  BY DEF Careful
<1>1. SameRow(j) /\ jobs[j] \in Row
  BY Typed
<1>2. NotOffered(j)
  BY <1>1 DEF NotOffered, SameRow, RETAINED
<1>3. NotOwner(j) /\ NotStarted(j)
  BY <1>1 DEF NotOwner, NotStarted, SameRow, Owners, Row
<1> QED BY <1>2, <1>3

(* A thread that goes anywhere but to "register" starts no builder, whether it
   goes on with its clean-ups or returns. *)
LEMMA NoBuilder ==
    ASSUME JobsInv, NEW t \in Threads,
           \/ \E l \in Label \ {"register"} : Goto(t, l)
           \/ \E todo \in SUBSET Item, then \in {"idle", "done", "begin", "reap"}, req \in Jobs \cup {NoJob} :
                 Proceed(t, todo, then, req)
           \/ Return(t)
    PROVE  \A j \in Jobs : pc'[j] = "register" => pc[j] = "register"
<1>1. \E l \in {"idle", "done", "begin", "reap", "prove", "cleaning"} \cup (Label \ {"register"}) :
         pc' = [pc EXCEPT ![t] = l]
  <2>1. Local(t).then \in {"idle", "done"}
    BY DEF Local
  <2>2. ASSUME NEW todo \in SUBSET Item, NEW then \in {"idle", "done", "begin", "reap"},
               NEW req \in Jobs \cup {NoJob}, Proceed(t, todo, then, req)
        PROVE  \E l \in {"idle", "done", "begin", "reap", "prove", "cleaning"} : pc' = [pc EXCEPT ![t] = l]
    <3>1. CASE todo = {}
      BY <2>2, <3>1 DEF Proceed, Goto
    <3>2. CASE todo # {}
      <4>1. Goto(t, IF t = Closer THEN "prove" ELSE "cleaning")
        BY <2>2, <3>2, Zenon DEF Proceed
      <4> QED BY <4>1 DEF Goto
    <3> QED BY <3>1, <3>2
  <2>3. CASE Return(t)
    BY <2>1, <2>3 DEF Return, Goto
  <2>4. CASE \E l \in Label \ {"register"} : Goto(t, l)
    BY <2>4 DEF Goto
  <2> QED BY <2>2, <2>3, <2>4
<1>2. pc \in [Threads -> Label] /\ Jobs \subseteq Threads
  BY Typed, Kinds
<1> QED BY <1>1, <1>2

(* The steps that leave the table alone. *)
LEMMA TableStays ==
    ASSUME JobsInv, NEW t \in Threads, jobs' = jobs,
           \/ \E l \in Label \ {"register"} : Goto(t, l)
           \/ \E todo \in SUBSET Item, then \in {"idle", "done", "begin", "reap"}, req \in Jobs \cup {NoJob} :
                 Proceed(t, todo, then, req)
           \/ Return(t)
    PROVE  Careful
<1>1. \A j \in Jobs : SameRow(j)
  BY DEF SameRow
<1> QED BY <1>1, NoBuilder, RowsStay

(* One row gets a status that is not on offer; the others stay. *)
LEMMA OneRow ==
    ASSUME JobsInv, NEW j \in Jobs,
           \A i \in Jobs \ {j} : jobs'[i] = jobs[i],
           jobs'[j].status \notin RETAINED \/ jobs[j].cancel = "no" \/ jobs[j].status \in RETAINED \cup {"delivering"},
           jobs'[j].work = "set" => jobs[j].work = "set" \/ (pc[j] = "register" /\ jobs[j].cancel = "no"),
           jobs'[j].cancel = "no" => jobs[j].cancel = "no",
           \A i \in Jobs : pc'[i] = "register" => pc[i] = "register"
    PROVE  Careful
  BY Zenon DEF Careful, NotOffered, NotOwner, NotStarted, Owners

(* self._update changes the status of one row, if that. *)
LEMMA UpdatedRow ==
    ASSUME JobsInv, NEW j \in Jobs, NEW s \in Status, jobs' = Updated(j, s)
    PROVE  /\ \A i \in Jobs \ {j} : jobs'[i] = jobs[i]
           /\ jobs'[j].status \in {s, jobs[j].status} /\ jobs'[j].work = jobs[j].work
           /\ jobs'[j].cancel = jobs[j].cancel
<1> DEFINE r == [jobs[j] EXCEPT !.status = s]
<1>1. jobs[j] \in Row
  BY Typed
<1>2. r.status = s /\ r.work = jobs[j].work /\ r.cancel = jobs[j].cancel
  BY <1>1 DEF Row
<1>3. jobs' = jobs \/ jobs' = [jobs EXCEPT ![j] = r]
  BY DEF Updated
<1> HIDE DEF r
<1> QED BY <1>2, <1>3, Typed

(* A table of which history is trimmed. *)
LEMMA TrimCareful ==
    ASSUME JobsInv, NEW table \in [Jobs -> Row], jobs' \in Trimmed(table),
           \A i \in Jobs :
              /\ table[i].status \in RETAINED => jobs[i].status \in RETAINED
              /\ table[i].work = "set" => jobs[i].work = "set"
              /\ table[i].cancel = jobs[i].cancel,
           \A i \in Jobs : pc'[i] = "register" => pc[i] = "register"
    PROVE  Careful
<1> SUFFICES ASSUME NEW j \in Jobs PROVE NotOffered(j) /\ NotOwner(j) /\ NotStarted(j)
  BY DEF Careful
<1>1. \/ jobs'[j] = table[j]
      \/ /\ table[j].status \in CLEAN_TERMINAL /\ table[j].work = ""
         /\ jobs'[j].status = "trimmed" /\ jobs'[j].work = table[j].work
         /\ jobs'[j].cancel = table[j].cancel
  BY TrimFacts
<1>2. "trimmed" \notin RETAINED
  BY DEF RETAINED
<1> QED BY <1>1, <1>2 DEF NotOffered, NotOwner, NotStarted, Owners

(* The sections of reap_expired, cancel and close under the lock. *)
LEMMA ReapCareful ==
    ASSUME JobsInv, NEW t \in Threads, NEW then \in {"idle", "begin"}, NEW req \in Jobs \cup {NoJob},
           reap_expired(t, then, req)
    PROVE  Careful
<1> DEFINE Row1(j) == [jobs[j] EXCEPT !.status = "cleaning"]
           table == [j \in Jobs |-> IF jobs[j].status \in RETAINED /\ jobs[j].deadline = "past"
                                    THEN Row1(j) ELSE jobs[j]]
<1>1. jobs' \in Trimmed(table) /\ Proceed(t, Doomed, then, req)
  BY DEF reap_expired
<1>2. ASSUME NEW j \in Jobs
      PROVE  /\ jobs[j] \in Row /\ Row1(j) \in Row /\ Row1(j).status \notin RETAINED
             /\ Row1(j).work = jobs[j].work /\ Row1(j).cancel = jobs[j].cancel
  <2>1. jobs[j] \in Row
    BY Typed
  <2> QED BY <2>1 DEF Row, Status, Occupied, RETAINED
<1> HIDE DEF Row1
<1>3. /\ table \in [Jobs -> Row]
      /\ \A i \in Jobs :
              /\ table[i].status \in RETAINED => jobs[i].status \in RETAINED
              /\ table[i].work = "set" => jobs[i].work = "set"
              /\ table[i].cancel = jobs[i].cancel
  BY <1>2
<1> HIDE DEF table
<1>4. then \in {"idle", "done", "begin", "reap"} /\ Doomed \in SUBSET Item
  BY DoomedFacts
<1>5. \A i \in Jobs : pc'[i] = "register" => pc[i] = "register"
  BY <1>1, <1>4, NoBuilder
<1> QED BY <1>1, <1>3, <1>5, TrimCareful

(* A cancellation offers nothing. *)
LEMMA CancelCareful ==
    ASSUME JobsInv, NEW c \in Callers, NEW j \in Jobs, cancel(c, j)
    PROVE  Careful
<1> DEFINE cleanup == jobs[j].status \in RETAINED \cup {"queued", "cleanup-pending"}
           item    == [job |-> j, work |-> jobs[j].work, target |-> "cancelled"]
           r       == [[jobs[j] EXCEPT !.cancel = "yes"] EXCEPT !.status = IF cleanup THEN "cleaning" ELSE @]
<1>1. /\ jobs' = [jobs EXCEPT ![j] = r]
      /\ Proceed(c, IF cleanup THEN {item} ELSE {}, IF cleanup THEN "reap" ELSE "idle", NoJob)
  BY Typed DEF cancel
<1>2. jobs[j] \in Row
  BY Typed
<1>3. /\ r.cancel = "yes" /\ r.work = jobs[j].work
      /\ r.status = IF cleanup THEN "cleaning" ELSE jobs[j].status
  BY <1>2 DEF Row
<1>4. item \in Item /\ c \in Threads
  BY <1>2, Kinds DEF Item, Row, CLEAN_TERMINAL
<1> HIDE DEF r, item
<1>5. jobs'[j] = r /\ \A i \in Jobs \ {j} : jobs'[i] = jobs[i]
  BY <1>1, Typed
<1>6. \A i \in Jobs : pc'[i] = "register" => pc[i] = "register"
  <2>1. \E todo \in SUBSET Item, then \in {"idle", "done", "begin", "reap"}, req \in Jobs \cup {NoJob} :
           Proceed(c, todo, then, req)
    <3>1. CASE cleanup
      <4>1. Proceed(c, {item}, "reap", NoJob) /\ {item} \in SUBSET Item
        BY <1>1, <1>4, <3>1
      <4> QED BY <4>1
    <3>2. CASE ~cleanup
      <4>1. Proceed(c, {}, "idle", NoJob) /\ {} \in SUBSET Item
        BY <1>1, <3>2
      <4> QED BY <4>1
    <3> QED BY <3>1, <3>2
  <2> QED BY <2>1, <1>4, NoBuilder
<1>7. jobs'[j].status \in RETAINED => jobs[j].status \in RETAINED
  BY <1>3, <1>5 DEF RETAINED
<1> QED BY <1>3, <1>5, <1>6, <1>7, OneRow

(* _finish_cleanup. *)
LEMMA CleanUpCareful ==
    ASSUME JobsInv, NEW t \in Threads, CleanUp(t)
    PROVE  Careful
<1>1. /\ {"prove", "removed", "rmtree", "kept", "rmdir"} \subseteq Label \ {"register"}
      /\ {"cleaning", "cleanup-pending", "trimmed"} \cap RETAINED = {} /\ "cleaning" \in Status
  BY DEF Label, CleanPc, RETAINED, Status, Occupied
<1>2. CASE ProveOwned(t) \/ RemoveEntries(t) \/ RemoveRoot(t)
  <2>1. jobs' = jobs /\ \E l \in {"prove", "removed", "rmtree", "kept", "rmdir"} : Goto(t, l)
    BY <1>2, Zenon DEF ProveOwned, RemoveEntries, RemoveRoot
  <2> QED BY <1>1, <2>1, TableStays
<1>3. CASE MarkCleaning(t)
  <2>1. pc[t] \in CleanPc /\ jobs' = Updated(ctx[t].job, "cleaning") /\ Goto(t, "prove")
    BY <1>3 DEF MarkCleaning, CleanPc
  <2>2. PICK j \in Jobs : j = ctx[t].job
    BY <2>1 DEF JobsInv, ThreadInv
  <2>3. \A i \in Jobs : pc'[i] = "register" => pc[i] = "register"
    BY <1>1, <2>1, NoBuilder
  <2>4. /\ \A i \in Jobs \ {j} : jobs'[i] = jobs[i]
        /\ jobs'[j].status \in {"cleaning", jobs[j].status} /\ jobs'[j].work = jobs[j].work
        /\ jobs'[j].cancel = jobs[j].cancel
    BY <1>1, <2>1, <2>2, UpdatedRow
  <2> QED BY <1>1, <2>3, <2>4, OneRow
<1>4. CASE PublishCleanup(t)
  <2>1. pc[t] \in CleanPc /\ Proceed(t, ctx[t].todo, ctx[t].then, ctx[t].req)
    BY <1>4 DEF PublishCleanup, CleanPc
  <2>2. PICK j \in Jobs : j = ctx[t].job
    BY <2>1 DEF JobsInv, ThreadInv
  <2>3. /\ ctx[t] \in Ctx /\ ctx[t].final \in CLEAN_TERMINAL
        /\ ctx[t].todo \in SUBSET Item /\ ctx[t].then \in {"idle", "done", "begin", "reap"}
        /\ ctx[t].req \in Jobs \cup {NoJob}
    <3>1. ctx[t] \in Ctx /\ ThreadInv(t)
      BY Typed DEF JobsInv
    <3>2. ctx[t].final \in CLEAN_TERMINAL
      BY <2>1, <3>1 DEF ThreadInv
    <3> QED BY <3>1, <3>2 DEF Ctx
  <2>4. \A i \in Jobs : pc'[i] = "register" => pc[i] = "register"
    BY <2>1, <2>3, NoBuilder
  <2>5. CASE ~Present(j)
    <3>1. jobs' = jobs
      BY <1>4, <2>2, <2>5 DEF PublishCleanup
    <3> QED BY <3>1, <2>4, RowsStay DEF SameRow
  <2>6. CASE Present(j)
    <3> DEFINE r == IF pc[t] = "removed"
                    THEN [jobs[j] EXCEPT !.status = ctx[t].final, !.work = "",
                                         !.deadline = "none", !.target = "none"]
                    ELSE [jobs[j] EXCEPT !.status = "cleanup-pending", !.target = ctx[t].final]
               table == [jobs EXCEPT ![j] = r]
    <3>1. jobs' \in Trimmed(table)
      BY <1>4, <2>2, <2>6 DEF PublishCleanup
    <3>2. jobs[j] \in Row
      BY Typed
    <3>3. r \in Row /\ r.cancel = jobs[j].cancel /\ r.work \in {"", jobs[j].work} /\ r.status \notin RETAINED
      <4>1. CASE pc[t] = "removed"
        BY <4>1, <2>3, <3>2 DEF Row, Status, CLEAN_TERMINAL, RETAINED
      <4>2. CASE pc[t] # "removed"
        BY <4>2, <2>3, <3>2 DEF Row, Status, Occupied, RETAINED
      <4> QED BY <4>1, <4>2
    <3> HIDE DEF r
    <3>4. table \in [Jobs -> Row] /\ table[j] = r /\ \A i \in Jobs \ {j} : table[i] = jobs[i]
      BY <3>3, Typed
    <3> HIDE DEF table
    <3>5. \A i \in Jobs :
              /\ table[i].status \in RETAINED => jobs[i].status \in RETAINED
              /\ table[i].work = "set" => jobs[i].work = "set"
              /\ table[i].cancel = jobs[i].cancel
      BY <3>3, <3>4
    <3> QED BY <2>4, <3>1, <3>4, <3>5, TrimCareful
  <2> QED BY <2>5, <2>6
<1> QED BY <1>2, <1>3, <1>4 DEF CleanUp

(* _run and adopt_ready. *)
LEMMA RunCareful ==
    ASSUME JobsInv, NEW j \in Jobs, Run(j)
    PROVE  Careful
<1>1. /\ {"cleaning", "check", "queue", "locating", "mark_locating", "mark", "stat", "slot", "name",
          "build", "admitted", "report", "adopt", "built"} \subseteq Label \ {"register"}
      /\ {"queued", "building"} \cap RETAINED = {} /\ {"queued", "building"} \subseteq Status
      /\ j \in Threads /\ jobs[j] \in Row
  BY Kinds, Typed DEF Label, CleanPc, ActivePc, EarlyPc, CommittedPc, RETAINED, Status, Occupied
<1>2. \A result : Abandon(j, result) => Goto(j, "cleaning")
  BY DEF Abandon
<1>3. CASE RunRegister(j)
  <2>1. CASE jobs' = jobs /\ (Return(j) \/ Goto(j, "cleaning"))
    BY <1>1, <2>1, TableStays
  <2>2. CASE ~Cancelled(j) /\ jobs' = [jobs EXCEPT ![j].work = "set"] /\ Goto(j, "check") /\ pc[j] = "register"
    <3> DEFINE r == [jobs[j] EXCEPT !.work = "set"]
    <3>1. r.status = jobs[j].status /\ r.cancel = jobs[j].cancel /\ jobs[j].cancel = "no"
      BY <1>1, <2>2 DEF Row, Cancelled
    <3>2. jobs' = [jobs EXCEPT ![j] = r]
      BY <2>2
    <3> HIDE DEF r
    <3>3. jobs'[j] = r /\ \A i \in Jobs \ {j} : jobs'[i] = jobs[i]
      BY <3>2, Typed
    <3>4. \A i \in Jobs : pc'[i] = "register" => pc[i] = "register"
      BY <1>1, <2>2, NoBuilder
    <3> QED BY <2>2, <3>1, <3>3, <3>4, OneRow
  <2> QED BY <1>2, <1>3, <2>1, <2>2 DEF RunRegister
<1>4. CASE RunProbe(j)
  <2>1. pc[j] \in {"check", "admitted", "locating", "report", "built"} /\ jobs' = jobs
    BY <1>4 DEF RunProbe, AfterProbe
  <2>2. AfterProbe[pc[j]] \in {"queue", "locating", "mark_locating", "mark", "stat"}
    BY <2>1 DEF AfterProbe
  <2>3. Goto(j, AfterProbe[pc[j]]) \/ Goto(j, "cleaning")
    BY <1>2, <1>4 DEF RunProbe
  <2> QED BY <1>1, <2>1, <2>2, <2>3, TableStays
<1>5. CASE RunUpdate(j)
  <2>1. /\ pc[j] \in {"queue", "mark_locating", "mark"}
        /\ jobs' = Updated(j, IF pc[j] = "queue" THEN "queued" ELSE "building") /\ Goto(j, AfterUpdate[pc[j]])
    BY <1>5 DEF RunUpdate, AfterUpdate
  <2>2. AfterUpdate[pc[j]] \in {"slot", "name", "build"}
    BY <2>1 DEF AfterUpdate
  <2>3. PICK s \in {"queued", "building"} : jobs' = Updated(j, s)
    BY <2>1
  <2>4. \A i \in Jobs : pc'[i] = "register" => pc[i] = "register"
    BY <1>1, <2>1, <2>2, NoBuilder
  <2>5. /\ \A i \in Jobs \ {j} : jobs'[i] = jobs[i]
        /\ jobs'[j].status \in {s, jobs[j].status} /\ jobs'[j].work = jobs[j].work
        /\ jobs'[j].cancel = jobs[j].cancel
    BY <1>1, <2>3, UpdatedRow
  <2> QED BY <1>1, <2>4, <2>5, OneRow
<1>6. CASE RunSlot(j) \/ RunLookUp(j) \/ RunBuild(j)
  <2>1. jobs' = jobs
    BY <1>6 DEF RunSlot, RunLookUp, RunBuild
  <2>2. \E l \in {"cleaning", "admitted", "report", "adopt", "built"} : Goto(j, l)
    <3>1. CASE RunSlot(j)
      BY <1>2, <3>1, Zenon DEF RunSlot
    <3>2. CASE RunLookUp(j)
      BY <1>2, <3>2, SMT DEF RunLookUp
    <3>3. CASE RunBuild(j)
      BY <1>2, <3>3, Zenon DEF RunBuild
    <3> QED BY <1>6, <3>1, <3>2, <3>3
  <2> QED BY <1>1, <2>1, <2>2, TableStays
<1>7. CASE adopt_ready(j)
  <2>1. CASE jobs' = jobs /\ Goto(j, "cleaning")
    BY <1>1, <2>1, TableStays
  <2>2. CASE ~Cancelled(j) /\ jobs' = [jobs EXCEPT ![j].status = "ready", ![j].deadline = "ahead"] /\ Return(j)
    <3> DEFINE r == [[jobs[j] EXCEPT !.status = "ready"] EXCEPT !.deadline = "ahead"]
    <3>1. r.work = jobs[j].work /\ r.cancel = jobs[j].cancel /\ jobs[j].cancel = "no"
      BY <1>1, <2>2 DEF Row, Cancelled
    <3>2. jobs' = [jobs EXCEPT ![j] = r]
      BY <2>2, Typed
    <3> HIDE DEF r
    <3>3. jobs'[j] = r /\ \A i \in Jobs \ {j} : jobs'[i] = jobs[i]
      BY <3>2, Typed
    <3>4. \A i \in Jobs : pc'[i] = "register" => pc[i] = "register"
      BY <1>1, <2>2, NoBuilder
    <3> QED BY <3>1, <3>3, <3>4, OneRow
  <2> QED BY <1>2, <1>7, <2>1, <2>2 DEF adopt_ready
<1> QED BY <1>3, <1>4, <1>5, <1>6, <1>7 DEF Run

(* begin_delivery, the stream and finish_delivery. *)
LEMMA DeliverCareful ==
    ASSUME JobsInv, NEW c \in Callers, Deliver(c)
    PROVE  Careful
<1>1. /\ {"stream", "chunk", "eof", "finish", "retain"} \subseteq Label \ {"register"}
      /\ "delivering" \notin RETAINED /\ "delivering" \in Status /\ RETAINED \subseteq Status
      /\ c \in Threads /\ c \in Workers /\ ctx[c] \in Ctx
  BY Kinds, Typed DEF Label, StreamPc, RETAINED, Status, Occupied
<1>2. \A final : EndStream(c, final) => Goto(c, "finish")
  BY DEF EndStream
<1>3. CASE begin_delivery(c)
  <2>1. CASE Return(c) /\ jobs' = jobs
    BY <1>1, <2>1, TableStays
  <2>2. CASE ~(Return(c) /\ jobs' = jobs)
    <3>1. PICK j \in Jobs : j = ctx[c].job
      BY <1>1, <1>3 DEF begin_delivery, JobsInv, ThreadInv
    <3>2. jobs' = [jobs EXCEPT ![j].status = "delivering"] /\ Goto(c, "stream")
      BY <1>3, <2>2, <3>1 DEF begin_delivery
    <3> DEFINE r == [jobs[j] EXCEPT !.status = "delivering"]
    <3>3. jobs[j] \in Row
      BY Typed
    <3>4. r.status = "delivering" /\ r.work = jobs[j].work /\ r.cancel = jobs[j].cancel
      BY <3>3 DEF Row
    <3>5. jobs' = [jobs EXCEPT ![j] = r]
      BY <3>2
    <3> HIDE DEF r
    <3>6. jobs'[j] = r /\ \A i \in Jobs \ {j} : jobs'[i] = jobs[i]
      BY <3>5, Typed
    <3>7. \A i \in Jobs : pc'[i] = "register" => pc[i] = "register"
      BY <1>1, <3>2, NoBuilder
    <3> QED BY <1>1, <3>4, <3>6, <3>7, OneRow
  <2> QED BY <2>1, <2>2
<1>4. CASE StreamProbe(c) \/ StreamEnd(c)
  <2>1. jobs' = jobs /\ \E l \in {"finish", "chunk", "eof"} : Goto(c, l)
    BY <1>2, <1>4, Zenon DEF StreamProbe, StreamEnd
  <2> QED BY <1>1, <2>1, TableStays
<1>5. CASE StreamChunk(c) \/ FinishRetain(c)
  <2>1. pc[c] \in StreamPc /\ pc[c] \in {"chunk", "retain"}
    BY <1>5 DEF StreamChunk, FinishRetain, StreamPc
  <2>2. PICK j \in Jobs : j = ctx[c].job
    BY <1>1, <2>1, Streaming
  <2>3. jobs[j].status = "delivering"
    BY <1>1, <2>1, <2>2, Streaming
  <2>4. CASE StreamChunk(c) /\ jobs' = jobs
    <3>1. Goto(c, "finish") \/ Goto(c, "stream")
      BY <1>2, <2>4 DEF StreamChunk
    <3> QED BY <1>1, <2>4, <3>1, TableStays
  <2>5. CASE ~(StreamChunk(c) /\ jobs' = jobs)
    <3>1. \/ jobs' = Updated(j, "delivering") /\ Goto(c, "stream")
          \/ jobs' = Updated(j, ctx[c].final) /\ Return(c)
      BY <1>5, <2>2, <2>5 DEF StreamChunk, FinishRetain
    <3>2. ctx[c].final \in Status
      BY <1>1 DEF Ctx, Status, Occupied
    <3>3. PICK s \in Status : jobs' = Updated(j, s)
      BY <1>1, <3>1, <3>2
    <3>4. \A i \in Jobs : pc'[i] = "register" => pc[i] = "register"
      BY <1>1, <3>1, NoBuilder
    <3>5. /\ \A i \in Jobs \ {j} : jobs'[i] = jobs[i]
          /\ jobs'[j].work = jobs[j].work /\ jobs'[j].cancel = jobs[j].cancel
      BY <3>3, UpdatedRow
    <3> QED BY <2>3, <3>4, <3>5, OneRow
  <2> QED BY <2>4, <2>5
<1>6. CASE FinishAsk(c)
  <2>1. pc[c] \in StreamPc /\ jobs' = jobs
    BY <1>6 DEF FinishAsk, StreamPc
  <2>2. PICK j \in Jobs : j = ctx[c].job
    BY <1>1, <2>1, Streaming
  <2> DEFINE item == [job |-> j, work |-> jobs[j].work, target |-> "cancelled"]
  <2>3. Return(c) \/ Proceed(c, {item}, "idle", NoJob) \/ Goto(c, "retain")
    BY <1>6, <2>2 DEF FinishAsk
  <2>4. jobs[j] \in Row
    BY Typed
  <2>a. item \in Item
    BY <2>4 DEF Item, Row, CLEAN_TERMINAL
  <2> HIDE DEF item
  <2>5. {item} \in SUBSET Item
    BY <2>a
  <2> QED BY <1>1, <2>1, <2>3, <2>5, TableStays
<1> QED BY <1>3, <1>4, <1>5, <1>6 DEF Deliver

(* The deadline and the shutdown. *)
LEMMA OtherCareful ==
    ASSUME JobsInv, (\E j \in Jobs : Expire(j)) \/ Shutdown
    PROVE  Careful
<1>1. ASSUME NEW j \in Jobs, Expire(j) PROVE Careful
  <2> DEFINE r == [jobs[j] EXCEPT !.deadline = "past"]
  <2>1. jobs[j] \in Row /\ jobs' = [jobs EXCEPT ![j] = r] /\ pc' = pc
    BY <1>1, Typed DEF Expire
  <2>2. r.status = jobs[j].status /\ r.work = jobs[j].work /\ r.cancel = jobs[j].cancel
    BY <2>1 DEF Row
  <2> HIDE DEF r
  <2>3. jobs'[j] = r /\ \A i \in Jobs \ {j} : jobs'[i] = jobs[i]
    BY <2>1, Typed
  <2> QED BY <2>1, <2>2, <2>3, RowsStay DEF SameRow
<1>2. Closer \in Threads /\ Closer \notin Jobs /\ ctx[Closer] \in Ctx
  BY Kinds, Typed
<1>3. CASE CloseEvent
  <2>1. jobs' = jobs /\ Goto(Closer, "flag") /\ "flag" \in Label \ {"register"}
    BY <1>3 DEF CloseEvent, Label
  <2> QED BY <1>2, <2>1, TableStays
<1>4. CASE CloseNext
  <2>1. jobs' = jobs /\ Proceed(Closer, ctx[Closer].todo, "done", NoJob) /\ ctx[Closer].todo \in SUBSET Item
    BY <1>2, <1>4 DEF CloseNext, Ctx
  <2> QED BY <1>2, <2>1, TableStays
<1>5. CASE Exit
  <2>1. jobs' = jobs /\ pc' = [t \in Threads |-> "dead"] /\ Jobs \subseteq Threads
    BY <1>5 DEF Exit, Threads
  <2>2. \A j \in Jobs : pc'[j] # "register"
    BY <2>1
  <2> QED BY <2>1, <2>2, RowsStay DEF SameRow
<1>6. CASE CloseFlag
  <2> DEFINE New == [j \in Jobs |-> IF Present(j) THEN [jobs[j] EXCEPT !.cancel = "yes"] ELSE jobs[j]]
             All == {[job |-> j, work |-> jobs[j].work, target |-> "cancelled"] :
                        j \in {i \in Jobs : Present(i)}}
  <2>1. jobs' = New /\ Proceed(Closer, All, "done", NoJob)
    BY <1>6 DEF CloseFlag
  <2>2. All \in SUBSET Item
    <3>1. ASSUME NEW j \in Jobs PROVE [job |-> j, work |-> jobs[j].work, target |-> "cancelled"] \in Item
      <4>1. jobs[j].work \in {"", "set"}
        BY Typed DEF Row
      <4> QED BY <4>1 DEF Item, CLEAN_TERMINAL
    <3> QED BY <3>1
  <2> HIDE DEF All
  <2>3. \A i \in Jobs : pc'[i] = "register" => pc[i] = "register"
    BY <1>2, <2>1, <2>2, NoBuilder
  <2>4. ASSUME NEW j \in Jobs PROVE SameRow(j)
    <3>1. jobs[j] \in Row
      BY Typed
    <3>2. CASE ~Present(j)
      <4>1. jobs'[j] = jobs[j]
        BY <2>1, <3>2
      <4> QED BY <4>1 DEF SameRow
    <3>3. CASE Present(j)
      <4>1. jobs'[j] = [jobs[j] EXCEPT !.cancel = "yes"] /\ jobs[j].status # "unborn"
        BY <2>1, <3>3 DEF Present
      <4> HIDE DEF New
      <4>2. jobs'[j].status = jobs[j].status /\ jobs'[j].work = jobs[j].work /\ jobs'[j].cancel = "yes"
        BY <3>1, <4>1 DEF Row
      <4> QED BY <4>1, <4>2 DEF SameRow
    <3> QED BY <3>2, <3>3
  <2> QED BY <2>3, <2>4, RowsStay
<1> QED BY <1>1, <1>3, <1>4, <1>5, <1>6 DEF Shutdown

(* Every step but create. *)
LEMMA NextCareful ==
    ASSUME JobsInv, Next, ~\E c \in Callers, j \in Jobs : Create(c, j)
    PROVE  Careful
<1>1. Callers \subseteq Threads
  BY Kinds
<1>2. ASSUME NEW c \in Callers, NEW j \in Jobs, RequestDelivery(c, j) PROVE Careful
  <2>1. reap_expired(c, "begin", j) /\ c \in Threads
    BY <1>1, <1>2 DEF RequestDelivery
  <2> QED BY <2>1, ReapCareful
<1>3. ASSUME NEW t \in Threads, Poll(t) \/ StatusReap(t) PROVE Careful
  <2>1. reap_expired(t, "idle", NoJob)
    BY <1>3 DEF Poll, StatusReap
  <2> QED BY <2>1, ReapCareful
<1> QED BY <1>2, <1>3, CancelCareful, CleanUpCareful, RunCareful, DeliverCareful, OtherCareful DEF Next

(* create adds one job to the ones that are accounted for. *)
LEMMA CreateCareful ==
    ASSUME JobsInv, NEW c \in Callers, NEW j \in Jobs, Create(c, j)
    PROVE  /\ \A i \in Jobs : NotOffered(i) /\ NotOwner(i)
           /\ \A i \in Jobs \ {j} : NotStarted(i)
<1> DEFINE r == [jobs[j] EXCEPT !.status = "queued"]
           table == [jobs EXCEPT ![j] = r]
<1>1. /\ jobs[j].status = "unborn" /\ jobs' \in Trimmed(table) /\ pc' = [pc EXCEPT ![j] = "register", ![c] = "reap"]
  BY DEF Create
<1>2. jobs[j] \in Row /\ RowInv(j)
  BY Typed DEF JobsInv
<1>3. r \in Row /\ r.status = "queued" /\ r.cancel = jobs[j].cancel /\ r.work = jobs[j].work
  BY <1>2 DEF Row, Status, Occupied
<1> HIDE DEF r
<1>4. table \in [Jobs -> Row] /\ table[j] = r /\ \A i \in Jobs \ {j} : table[i] = jobs[i]
  BY <1>3, Typed
<1> HIDE DEF table
<1>5. \A i \in Jobs :
            \/ jobs'[i] = table[i]
            \/ /\ table[i].status \in CLEAN_TERMINAL /\ table[i].work = ""
               /\ jobs'[i].status = "trimmed" /\ jobs'[i].work = table[i].work
               /\ jobs'[i].cancel = table[i].cancel
  BY <1>1, <1>4, TrimFacts
<1>6. \A i \in Jobs \ {j} : pc'[i] = "register" => pc[i] = "register"
  BY <1>1, Typed, Kinds
<1>7. {"queued", "trimmed"} \cap RETAINED = {}
  BY DEF RETAINED
<1>8. \A i \in Jobs : NotOffered(i)
  BY <1>3, <1>4, <1>5, <1>7 DEF NotOffered
<1>9. \A i \in Jobs : NotOwner(i)
  BY <1>3, <1>4, <1>5 DEF NotOwner, Owners
<1>10. \A i \in Jobs \ {j} : NotStarted(i)
  BY <1>4, <1>5, <1>6 DEF NotStarted, Owners
<1> QED BY <1>8, <1>9, <1>10

(* Cancel wins over READY: adopt_ready asks again under the lock in which it
   publishes, so that a cancelled job is offered anew only by the delivery that
   was streaming it (finish_delivery). *)
THEOREM CancelWinsTheorem == Spec => CancelWins
<1> DEFINE Wins == \A j \in Jobs : jobs[j].cancel = "yes" /\ jobs'[j].status \in RETAINED =>
                       jobs[j].status \in RETAINED \cup {"delivering"}
<1>1. JobsInv /\ [Next]_vars => [Wins]_vars
  <2> SUFFICES ASSUME JobsInv, Next, NEW j \in Jobs PROVE NotOffered(j)
    BY DEF NotOffered
  <2> QED BY NextCareful, CreateCareful DEF Careful
<1> QED BY <1>1, JobsInvariant, PTL DEF Spec, CancelWins

-----------------------------------------------------------------------------
(* A job that is accounted for occupies a place of the table. *)
LEMMA OwnersOccupy ==
    ASSUME JobsInv
    PROVE  Owners \subseteq {j \in Jobs : jobs[j].status \in Occupied}
<1> SUFFICES ASSUME NEW j \in Owners PROVE j \in Jobs /\ jobs[j].status \in Occupied
  OBVIOUS
<1>1. j \in Jobs /\ (jobs[j].work = "set" \/ (pc[j] = "register" /\ jobs[j].cancel = "no"))
  BY DEF Owners
<1>2. RowInv(j) /\ jobs[j].status \in Status
  BY <1>1, Typed DEF JobsInv, Row
<1>3. CASE jobs[j].work = "set"
  BY <1>1, <1>2, <1>3 DEF RowInv, Status
<1>4. CASE pc[j] = "register" /\ jobs[j].cancel = "no"
  <2>1. pc[j] \in EarlyPc /\ pc[j] \in ActivePc
    BY <1>4 DEF ActivePc, EarlyPc
  <2> QED BY <1>1, <1>2, <1>4, <2>1 DEF RowInv, Occupied
<1> QED BY <1>1, <1>3, <1>4

(* One more element makes a finite set larger by one, if at all. *)
LEMMA AddOne ==
    ASSUME NEW S, NEW x, IsFiniteSet(S)
    PROVE  IsFiniteSet(S \cup {x}) /\ Cardinality(S \cup {x}) <= Cardinality(S) + 1
<1>1. /\ IsFiniteSet(S \cup {x}) /\ Cardinality(S) \in Nat
      /\ Cardinality(S \cup {x}) = IF x \in S THEN Cardinality(S) ELSE Cardinality(S) + 1
  BY FS_AddElement, FS_CardinalityType
<1> QED BY <1>1

(* The bound of create keeps the number of these jobs at max_active. *)
LEMMA OwnersNext ==
    ASSUME JobsInv, OwnersBounded, [Next]_vars
    PROVE  OwnersBounded'
<1>1. IsFiniteSet(Owners) /\ IsFiniteSet({j \in Jobs : jobs[j].status \in Occupied})
  BY JobsAssumption, FS_Subset DEF Owners
<1>2. CASE \E c \in Callers, j \in Jobs : Create(c, j)
  <2>1. PICK c \in Callers, j \in Jobs : Create(c, j)
    BY <1>2
  <2>2. Owners' \subseteq Owners \cup {j}
    BY <2>1, CreateCareful DEF NotOwner, NotStarted, Owners
  <2> DEFINE N == Cardinality({i \in Jobs : jobs[i].status \in Occupied})
  <2>3. Cardinality(Owners) <= N /\ Cardinality(Owners) \in Nat /\ N \in Nat
    BY <1>1, OwnersOccupy, FS_Subset, FS_CardinalityType
  <2>4. N < MaxActive /\ MaxActive \in Nat
    BY <2>1, JobsAssumption DEF Create
  <2> HIDE DEF N
  <2>5. IsFiniteSet(Owners \cup {j}) /\ Cardinality(Owners \cup {j}) <= Cardinality(Owners) + 1
    BY <1>1, AddOne
  <2>6. IsFiniteSet(Owners') /\ Cardinality(Owners') <= Cardinality(Owners \cup {j})
    BY <2>2, <2>5, FS_Subset
  <2>7. Cardinality(Owners') \in Nat /\ Cardinality(Owners \cup {j}) \in Nat
    BY <2>5, <2>6, FS_CardinalityType
  <2> QED BY <2>3, <2>4, <2>5, <2>6, <2>7 DEF OwnersBounded
<1>3. CASE Next /\ ~\E c \in Callers, j \in Jobs : Create(c, j)
  <2>1. Owners' \subseteq Owners
    BY <1>3, NextCareful DEF Careful, NotOwner, NotStarted, Owners
  <2>2. IsFiniteSet(Owners') /\ Cardinality(Owners') <= Cardinality(Owners)
    BY <1>1, <2>1, FS_Subset
  <2>3. Cardinality(Owners') \in Nat /\ Cardinality(Owners) \in Nat /\ MaxActive \in Nat
    BY <1>1, <2>2, FS_CardinalityType, JobsAssumption
  <2> QED BY <2>2, <2>3 DEF OwnersBounded
<1>4. CASE UNCHANGED vars
  BY <1>4 DEF OwnersBounded, Owners, vars
<1> QED BY <1>2, <1>3, <1>4

(* max_active bounds the disk: however cancellations, failed clean-ups and new
   jobs interleave, no more workspaces exist than create admits jobs, those
   that a clean-up took for removed excepted. *)
THEOREM WorkspacesTheorem == Spec => []WorkspacesBounded
<1>1. Init => OwnersBounded
  <2> SUFFICES ASSUME Init PROVE OwnersBounded
    OBVIOUS
  <2>1. Owners = {}
    BY Kinds DEF Init, Owners
  <2> QED BY <2>1, FS_EmptySet, JobsAssumption DEF OwnersBounded
<1>2. JobsInv /\ OwnersBounded /\ [Next]_vars => OwnersBounded'
  BY OwnersNext
<1>3. JobsInv /\ OwnersBounded => WorkspacesBounded
  <2> SUFFICES ASSUME JobsInv, OwnersBounded, closed = "no"
               PROVE  Cardinality({j \in Jobs : dir[j] # "none" /\ masked[j] = "no"}) <= MaxActive
    BY DEF WorkspacesBounded
  <2> DEFINE W == {j \in Jobs : dir[j] # "none" /\ masked[j] = "no"}
  <2>1. W \subseteq Owners
    <3> SUFFICES ASSUME NEW j \in Jobs, dir[j] # "none", masked[j] = "no" PROVE j \in Owners
      OBVIOUS
    <3>1. DirInv(j) /\ jobs[j] \in Row
      BY Typed DEF JobsInv
    <3> QED BY <3>1 DEF DirInv, Owners, Row
  <2>2. IsFiniteSet(Owners)
    BY JobsAssumption, FS_Subset DEF Owners
  <2> HIDE DEF W
  <2>3. IsFiniteSet(W) /\ Cardinality(W) <= Cardinality(Owners)
    BY <2>1, <2>2, FS_Subset
  <2>4. Cardinality(W) \in Nat /\ Cardinality(Owners) \in Nat /\ MaxActive \in Nat
    BY <2>2, <2>3, FS_CardinalityType, JobsAssumption
  <2>5. Cardinality(W) <= MaxActive
    BY <2>3, <2>4 DEF OwnersBounded
  <2> QED BY <2>5 DEF W
<1> QED BY <1>1, <1>2, <1>3, JobsInvariant, PTL DEF Spec
=============================================================================
