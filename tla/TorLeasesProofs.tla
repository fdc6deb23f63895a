---------------------------- MODULE TorLeasesProofs ----------------------------
(***************************************************************************)
(* Proofs about TorLeases, for any requests of the peer, any calls and any *)
(* number of faults.                                                       *)
(***************************************************************************)
EXTENDS TorLeases, TLAPS

(* What is always true of one torOwnedProcess o and its Stop calls s.  A Stop is
   past the wait for the start only when run can bring up no worker any more; that
   is what makes the child's end final. *)
OwnerInv(o, s) ==
    /\ o.phase = "none" => o = Fresh /\ \A c \in Callers : s[c] = "idle"
    /\ o.started = "yes" => o.run \in {"bootstrap", "prove", "exit", "done"}
    /\ o.cancelled = "yes" => o.phase \in {"failed", "retired"}
    /\ o.phase = "ready" => o.booted = "yes"
    /\ o.drained = "yes" => o.run = "done" /\ o.child # "alive"
    /\ \A c \in Callers : s[c] \in {"child", "done"} => o.started = "yes"
    /\ \A c \in Callers : s[c] = "done" => o.child # "alive"
    /\ \A c \in Callers : s[c] = "ok" => o.drained = "yes"

(* The request can acquire nothing any more. *)
Barred(q) == attempt[q] = "retired" \/ window[q] = "past"

(* The request and the peer's slot: an owner that has lost the slot has drained
   and does not come back; nor does one whose Stop was asked for, or whose DELETE
   was answered. *)
SlotInv(q) ==
    /\ own[q].phase = "none" => active # q
    /\ own[q].phase # "none" /\ active # q => own[q].drained = "yes" /\ Barred(q)
    /\ \A c \in {"delete", "put", "sweep"} : stop[q][c] # "idle" => Barred(q)
    /\ q \in stopped => active # q /\ Barred(q)

TorInv == TypeOK /\ \A q \in Requests : OwnerInv(own[q], stop[q]) /\ SlotInv(q)

(* A step of one owner, its goroutine, its timers or one of its Stop calls: what
   it leaves alone of the Stop calls, and of the rest of the state. *)
StopFrame(q) ==
    /\ stop' \in [Requests -> [Callers -> Stages]]
    /\ \A r \in Requests \ {q} : stop'[r] = stop[r]
    /\ \A c \in {"delete", "put", "sweep"} : stop'[q][c] # "idle" => stop[q][c] # "idle"

OtherFrame ==
    /\ UNCHANGED <<active, lease, mu, attempt, window, stopped>>
    /\ put' \in [Requests -> {"idle", "waiting", "abandon"}]
    /\ read' \in [Requests -> {"idle", "asking", "pending", "ready"}] /\ faults' \in Nat

-----------------------------------------------------------------------------
(* An owner before and after it is started. *)
LEMMA FreshOwner ==
    /\ Fresh \in Owner
    /\ [Fresh EXCEPT !.phase = "pending", !.run = "start"] \in Owner
BY DEF Fresh, Owner, Flag, Callers

(* No lease and no owner at the start. *)
LEMMA TorInitInv == Init => TorInv
<1> SUFFICES ASSUME Init PROVE TorInv
  OBVIOUS
<1>1. TypeOK
  BY FreshOwner, TorAssumption DEF Init, TypeOK, Stages, Callers, Flag
<1>2. ASSUME NEW q \in Requests PROVE OwnerInv(own[q], stop[q]) /\ SlotInv(q)
  BY TorAssumption DEF Init, OwnerInv, SlotInv, Fresh, Callers
<1> QED
  BY <1>1, <1>2 DEF TorInv

(* What the invariant says of one request. *)
LEMMA OwnerTypes ==
    ASSUME TorInv, NEW q \in Requests
    PROVE  /\ own[q] \in Owner /\ stop[q] \in [Callers -> Stages]
           /\ OwnerInv(own[q], stop[q]) /\ SlotInv(q)
           /\ own[q].run # "none" => own[q].phase # "none"
           /\ \A c \in Callers : stop[q][c] # "idle" => own[q].phase # "none"
BY DEF TorInv, TypeOK, OwnerInv, Fresh

(* A step that touches one owner only leaves the table alone. *)
LEMMA SameFrame ==
    ASSUME TorInv, UNCHANGED <<active, lease, mu, attempt, window, put, read, stopped>>,
           UNCHANGED faults \/ Fault
    PROVE  OtherFrame
BY DEF OtherFrame, TorInv, TypeOK, Fault

(* Such a step concerns nobody else, so that what it makes of its own owner is all
   there is to look at. *)
LEMMA LocalStep ==
    ASSUME TorInv, NEW q \in Requests, NEW o \in Owner, own' = [own EXCEPT ![q] = o],
           StopFrame(q), OtherFrame,
           own[q].phase # "none", o.phase # "none", own[q].drained = "yes" => o.drained = "yes",
           OwnerInv(o, stop'[q])
    PROVE  TorInv'
<1>1. /\ own' \in [Requests -> Owner] /\ own'[q] = o
      /\ \A r \in Requests \ {q} : own'[r] = own[r]
  BY DEF TorInv, TypeOK
<1>2. TypeOK'
  BY <1>1 DEF TorInv, TypeOK, StopFrame, OtherFrame
<1>3. ASSUME NEW r \in Requests PROVE OwnerInv(own'[r], stop'[r])
  <2>1. CASE r = q
    BY <1>1, <2>1
  <2>2. CASE r # q
    <3>1. own'[r] = own[r] /\ stop'[r] = stop[r]
      BY <1>1, <2>2 DEF StopFrame
    <3> QED
      BY <3>1 DEF TorInv
  <2> QED
    BY <2>1, <2>2
<1>4. ASSUME NEW r \in Requests PROVE SlotInv(r)'
  <2>1. CASE r = q
    BY <1>1, <2>1 DEF StopFrame, OtherFrame, TorInv, SlotInv, Barred
  <2>2. CASE r # q
    <3>1. own'[r] = own[r] /\ stop'[r] = stop[r]
      BY <1>1, <2>2 DEF StopFrame
    <3> QED
      BY <3>1 DEF OtherFrame, TorInv, SlotInv, Barred
  <2> QED
    BY <2>1, <2>2
<1> QED
  BY <1>2, <1>3, <1>4 DEF TorInv

(* ... and a step without a call of Stop leaves those calls alone. *)
LEMMA StopSame == ASSUME TorInv, NEW q \in Requests, UNCHANGED stop PROVE StopFrame(q)
BY DEF StopFrame, TorInv, TypeOK

(* One call of Stop moves on; or a clean-up begins. *)
LEMMA StopMove ==
    ASSUME TorInv, NEW q \in Requests, NEW c \in Callers,
           stop[q][c] # "idle" \/ c \in {"cleanup", "late"},
           NEW stage \in Stages, At(q, c, stage)
    PROVE  /\ StopFrame(q)
           /\ \A d \in Callers : stop'[q][d] = IF d = c THEN stage ELSE stop[q][d]
<1>1. stop \in [Requests -> [Callers -> Stages]]
  BY DEF TorInv, TypeOK
<1>2. /\ stop' \in [Requests -> [Callers -> Stages]]
      /\ \A r \in Requests \ {q} : stop'[r] = stop[r]
  BY <1>1 DEF At
<1>3. \A d \in Callers : stop'[q][d] = IF d = c THEN stage ELSE stop[q][d]
  BY <1>1 DEF At
<1> QED
  BY <1>2, <1>3 DEF StopFrame, Callers

(* fail() leaves the other Stop calls alone. *)
LEMMA CleaningFrame ==
    ASSUME TorInv, NEW q \in Requests, NEW o, stop' = Cleaning(q, o)
    PROVE  StopFrame(q) /\ \A c \in Callers : stop'[q][c] \in {stop[q][c], "revoke"}
<1>1. CASE stop' = stop
  BY <1>1, StopSame
<1>2. CASE stop' = [stop EXCEPT ![q]["cleanup"] = "revoke"]
  <2>1. "cleanup" \in Callers /\ "revoke" \in Stages /\ At(q, "cleanup", "revoke")
    BY <1>2 DEF Callers, Stages, At
  <2> QED
    BY <2>1, StopMove
<1> QED
  BY <1>1, <1>2 DEF Cleaning

(* fail(), from run: the worker may have come up in the meantime, if run is still
   at StartTor. *)
LEMMA FailStep ==
    ASSUME TorInv, NEW q \in Requests, NEW o,
           \/ o = own[q]
           \/ o = [own[q] EXCEPT !.child = "alive"] /\ own[q].run = "start",
           own[q].run \notin {"none", "done"}, Fail(q, o), OtherFrame
    PROVE  TorInv'
<1> DEFINE f == [Failing(o) EXCEPT !.run = "exit"]
<1>1. /\ own[q] \in Owner /\ OwnerInv(own[q], stop[q]) /\ own[q].phase # "none"
  BY OwnerTypes
<1>2. StopFrame(q) /\ \A c \in Callers : stop'[q][c] \in {stop[q][c], "revoke"}
  BY CleaningFrame DEF Fail
<1>3. o \in Owner /\ o.phase = own[q].phase /\ o.drained = own[q].drained
  BY <1>1 DEF Owner
<1>4. f \in Owner
  BY <1>3 DEF Failing, Owner, Flag
<1>5. f.phase # "none" /\ f.drained = own[q].drained
  BY <1>1, <1>3 DEF Failing, Owner
<1>6. OwnerInv(f, stop'[q])
  <2>1. own[q].started = "no" \/ own[q].run # "start"
    BY <1>1 DEF OwnerInv, Owner, Flag
  <2> QED
    BY <1>1, <1>2, <1>3, <2>1 DEF Failing, OwnerInv, Owner
<1>7. own' = [own EXCEPT ![q] = f]
  BY DEF Fail
<1> QED
  BY <1>1, <1>2, <1>4, <1>5, <1>6, <1>7, LocalStep

(* fail(), from a timer or from a status read. *)
LEMMA FailedStep ==
    ASSUME TorInv, NEW q \in Requests, own[q].phase # "none",
           own' = [own EXCEPT ![q] = Failing(own[q])], stop' = Cleaning(q, own[q]), OtherFrame
    PROVE  TorInv'
<1>1. own[q] \in Owner /\ OwnerInv(own[q], stop[q])
  BY OwnerTypes
<1>2. StopFrame(q) /\ \A c \in Callers : stop'[q][c] \in {stop[q][c], "revoke"}
  BY CleaningFrame
<1>3. Failing(own[q]) \in Owner
  <2>1. [own[q] EXCEPT !.phase = "failed", !.cancelled = "yes"] \in Owner
    BY <1>1 DEF Owner, Flag
  <2> QED
    BY <1>1, <2>1 DEF Failing
<1>4. Failing(own[q]).phase # "none" /\ Failing(own[q]).drained = own[q].drained
  BY <1>1 DEF Failing, Owner
<1>5. OwnerInv(Failing(own[q]), stop'[q])
  BY <1>1, <1>2 DEF Failing, OwnerInv, Owner
<1> QED
  BY <1>2, <1>3, <1>4, <1>5, LocalStep

-----------------------------------------------------------------------------
(* The runner starts the Tor process. *)
LEMMA RunStartInv == ASSUME TorInv, NEW q \in Requests, RunStart(q) PROVE TorInv'
<1> DEFINE o == [own[q] EXCEPT !.child = "alive", !.run = "front"]
<1>1. own[q] \in Owner /\ OwnerInv(own[q], stop[q]) /\ own[q].phase # "none"
      /\ own[q].run = "start"
  BY OwnerTypes DEF RunStart
<1>2. OtherFrame
  BY SameFrame DEF RunStart, NoFault
<1>3. CASE \E u \in {own[q], [own[q] EXCEPT !.child = "alive"]} : Fail(q, u)
  BY <1>1, <1>2, <1>3, FailStep DEF RunStart
<1>4. CASE own' = [own EXCEPT ![q] = o] /\ UNCHANGED stop
  <2>1. o \in Owner
    BY <1>1 DEF Owner, Flag
  <2>2. o.phase # "none" /\ o.drained = own[q].drained
    BY <1>1 DEF Owner
  <2>3. OwnerInv(o, stop'[q])
    BY <1>1, <1>4 DEF OwnerInv, Owner, Flag
  <2>4. StopFrame(q)
    BY <1>4, StopSame
  <2> QED
    BY <1>1, <1>2, <1>4, <2>1, <2>2, <2>3, <2>4, LocalStep
<1> QED
  BY <1>3, <1>4 DEF RunStart

(* It opens the front and tells who waits for that. *)
LEMMA RunFrontInv == ASSUME TorInv, NEW q \in Requests, RunFront(q) PROVE TorInv'
<1> DEFINE o == [own[q] EXCEPT !.front = "yes", !.started = "yes", !.run = "bootstrap"]
<1>1. own[q] \in Owner /\ OwnerInv(own[q], stop[q]) /\ own[q].phase # "none"
      /\ own[q].run = "front"
  BY OwnerTypes DEF RunFront
<1>2. OtherFrame
  BY SameFrame DEF RunFront, NoFault
<1>3. CASE Fail(q, own[q])
  BY <1>1, <1>2, <1>3, FailStep DEF RunFront
<1>4. CASE own' = [own EXCEPT ![q] = o] /\ UNCHANGED stop
  <2>1. o \in Owner
    BY <1>1 DEF Owner, Flag
  <2>2. o.phase # "none" /\ o.drained = own[q].drained
    BY <1>1 DEF Owner
  <2>3. OwnerInv(o, stop'[q])
    BY <1>1, <1>4 DEF OwnerInv, Owner, Flag
  <2>4. StopFrame(q)
    BY <1>4, StopSame
  <2> QED
    BY <1>1, <1>2, <1>4, <2>1, <2>2, <2>3, <2>4, LocalStep
<1> QED
  BY <1>3, <1>4 DEF RunFront

(* It waits for the bootstrap. *)
LEMMA RunBootstrapInv == ASSUME TorInv, NEW q \in Requests, RunBootstrap(q) PROVE TorInv'
<1> DEFINE o == [own[q] EXCEPT !.run = "prove"]
<1>1. own[q] \in Owner /\ OwnerInv(own[q], stop[q]) /\ own[q].phase # "none"
      /\ own[q].run = "bootstrap"
  BY OwnerTypes DEF RunBootstrap
<1>2. OtherFrame
  BY SameFrame DEF RunBootstrap, NoFault
<1>3. CASE Fail(q, own[q])
  BY <1>1, <1>2, <1>3, FailStep DEF RunBootstrap
<1>4. CASE own' = [own EXCEPT ![q] = o] /\ UNCHANGED stop
  <2>1. o \in Owner
    BY <1>1 DEF Owner, Flag
  <2>2. o.phase # "none" /\ o.drained = own[q].drained
    BY <1>1 DEF Owner
  <2>3. OwnerInv(o, stop'[q])
    BY <1>1, <1>4 DEF OwnerInv, Owner, Flag
  <2>4. StopFrame(q)
    BY <1>4, StopSame
  <2> QED
    BY <1>1, <1>2, <1>4, <2>1, <2>2, <2>3, <2>4, LocalStep
<1> QED
  BY <1>3, <1>4 DEF RunBootstrap

(* It proves the exit. *)
LEMMA RunProveInv == ASSUME TorInv, NEW q \in Requests, RunProve(q) PROVE TorInv'
<1> DEFINE o == [own[q] EXCEPT !.booted = "yes", !.run = "exit"]
<1>1. own[q] \in Owner /\ OwnerInv(own[q], stop[q]) /\ own[q].phase # "none"
      /\ own[q].run = "prove"
  BY OwnerTypes DEF RunProve
<1>2. OtherFrame
  BY SameFrame DEF RunProve, NoFault
<1>3. CASE Fail(q, own[q])
  BY <1>1, <1>2, <1>3, FailStep DEF RunProve
<1>4. CASE own' = [own EXCEPT ![q] = o] /\ UNCHANGED stop
  <2>1. o \in Owner
    BY <1>1 DEF Owner, Flag
  <2>2. o.phase # "none" /\ o.drained = own[q].drained
    BY <1>1 DEF Owner
  <2>3. OwnerInv(o, stop'[q])
    BY <1>1, <1>4 DEF OwnerInv, Owner, Flag
  <2>4. StopFrame(q)
    BY <1>4, StopSame
  <2> QED
    BY <1>1, <1>2, <1>4, <2>1, <2>2, <2>3, <2>4, LocalStep
<1> QED
  BY <1>3, <1>4 DEF RunProve

(* The runner ends and wakes who waits for its start. *)
LEMMA RunExitInv == ASSUME TorInv, NEW q \in Requests, RunExit(q) PROVE TorInv'
<1> DEFINE o == [own[q] EXCEPT !.started = "yes", !.run = "done"]
<1>1. own[q] \in Owner /\ OwnerInv(own[q], stop[q]) /\ own[q].phase # "none"
      /\ own[q].run = "exit"
  BY OwnerTypes DEF RunExit
<1>2. OtherFrame
  BY SameFrame DEF RunExit
<1>3. StopFrame(q) /\ \A c \in Callers : stop'[q][c] \in {stop[q][c], "revoke"}
  <2>1. CASE UNCHANGED stop
    BY <2>1, StopSame
  <2>2. CASE stop' = [stop EXCEPT ![q]["late"] = "revoke"]
    <3>1. "late" \in Callers /\ "revoke" \in Stages /\ At(q, "late", "revoke")
      BY <2>2 DEF Callers, Stages, At
    <3> QED
      BY <3>1, StopMove
  <2> QED
    BY <2>1, <2>2 DEF RunExit
<1>4. own' = [own EXCEPT ![q] = o]
  BY DEF RunExit
<1>5. o \in Owner
  BY <1>1 DEF Owner, Flag
<1>6. o.phase # "none" /\ o.drained = own[q].drained
  BY <1>1 DEF Owner
<1>7. OwnerInv(o, stop'[q])
  BY <1>1, <1>3 DEF OwnerInv, Owner
<1> QED
  BY <1>1, <1>2, <1>3, <1>4, <1>5, <1>6, <1>7, LocalStep

(* The window of a request passes. *)
LEMMA ExpireInv == ASSUME TorInv, NEW q \in Requests, Expire(q) PROVE TorInv'
<1>1. OtherFrame
  BY SameFrame DEF Expire
<1> QED
  BY <1>1, FailedStep DEF Expire

-----------------------------------------------------------------------------
(* Stop revokes the owner first. *)
LEMMA StopRevokeInv ==
    ASSUME TorInv, NEW q \in Requests, NEW c \in Callers, StopRevoke(q, c) PROVE TorInv'
<1> DEFINE o == [own[q] EXCEPT !.phase = "retired", !.cancelled = "yes"]
<1>1. own[q] \in Owner /\ OwnerInv(own[q], stop[q]) /\ own[q].phase # "none"
  BY OwnerTypes DEF StopRevoke
<1>2. OtherFrame
  BY SameFrame DEF StopRevoke
<1>3. StopFrame(q) /\ \A d \in Callers : stop'[q][d] = IF d = c THEN "gate" ELSE stop[q][d]
  BY StopMove DEF StopRevoke, Stages
<1>4. own' = [own EXCEPT ![q] = o]
  BY DEF StopRevoke
<1>5. o \in Owner
  BY <1>1 DEF Owner, Flag
<1>6. o.phase # "none" /\ o.drained = own[q].drained
  BY <1>1 DEF Owner
<1>7. OwnerInv(o, stop'[q])
  BY <1>1, <1>3 DEF OwnerInv, Owner
<1> QED
  BY <1>1, <1>2, <1>3, <1>4, <1>5, <1>6, <1>7, LocalStep

(* A call of Stop ends, with the join or without it. *)
LEMMA EndStep ==
    ASSUME TorInv, NEW q \in Requests, NEW c \in Callers, stop[q][c] # "idle",
           NEW result \in {"ok", "failed"}, End(q, c, result), OtherFrame,
           result = "ok" => own[q].run = "done" /\ own[q].child # "alive"
    PROVE  TorInv'
<1> DEFINE stage == IF c \in {"cleanup", "late"} THEN "idle" ELSE result
           o == [own[q] EXCEPT !.gate = IF own[q].gate = c THEN "none" ELSE own[q].gate,
                               !.drained = IF result = "ok" THEN "yes" ELSE own[q].drained]
<1>1. own[q] \in Owner /\ OwnerInv(own[q], stop[q]) /\ own[q].phase # "none"
  BY OwnerTypes
<1>2. stage \in Stages
  BY DEF Stages
<1>3. StopFrame(q) /\ \A d \in Callers : stop'[q][d] = IF d = c THEN stage ELSE stop[q][d]
  BY <1>2, StopMove DEF End
<1>4. own' = [own EXCEPT ![q] = o]
  BY DEF End
<1>5. o \in Owner
  <2>1. (IF own[q].gate = c THEN "none" ELSE own[q].gate) \in Callers \cup {"none"}
    BY <1>1 DEF Owner
  <2>2. (IF result = "ok" THEN "yes" ELSE own[q].drained) \in Flag
    BY <1>1 DEF Owner, Flag
  <2> QED
    BY <1>1, <2>1, <2>2 DEF Owner
<1>6. o.phase # "none" /\ (own[q].drained = "yes" => o.drained = "yes")
  BY <1>1 DEF Owner
<1>7. OwnerInv(o, stop'[q])
  BY <1>1, <1>3 DEF OwnerInv, Owner
<1> QED
  BY <1>1, <1>3, <1>4, <1>5, <1>6, <1>7, LocalStep

(* One call of Stop at a time passes the gate. *)
LEMMA StopGateInv ==
    ASSUME TorInv, NEW q \in Requests, NEW c \in Callers, StopGate(q, c) PROVE TorInv'
<1> DEFINE o == [own[q] EXCEPT !.gate = c]
<1>1. own[q] \in Owner /\ OwnerInv(own[q], stop[q]) /\ own[q].phase # "none"
      /\ stop[q][c] = "gate"
  BY OwnerTypes DEF StopGate
<1>2. OtherFrame
  BY SameFrame DEF StopGate
<1>3. CASE End(q, c, "failed")
  BY <1>1, <1>2, <1>3, EndStep
<1>4. CASE own[q].drained = "yes" /\ End(q, c, "ok")
  <2>1. own[q].run = "done" /\ own[q].child # "alive"
    BY <1>1, <1>4 DEF OwnerInv
  <2> QED
    BY <1>1, <1>2, <1>4, <2>1, EndStep
<1>5. CASE own' = [own EXCEPT ![q] = o] /\ At(q, c, "started")
  <2>1. StopFrame(q) /\ \A d \in Callers : stop'[q][d] = IF d = c THEN "started" ELSE stop[q][d]
    BY <1>1, <1>5, StopMove DEF Stages
  <2>2. o \in Owner
    BY <1>1 DEF Owner
  <2>3. o.phase # "none" /\ o.drained = own[q].drained
    BY <1>1 DEF Owner
  <2>4. OwnerInv(o, stop'[q])
    BY <1>1, <2>1 DEF OwnerInv, Owner
  <2> QED
    BY <1>1, <1>2, <1>5, <2>1, <2>2, <2>3, <2>4, LocalStep
<1> QED
  BY <1>3, <1>4, <1>5 DEF StopGate

(* The owner as it is, which a step may leave alone. *)
LEMMA SameOwner == ASSUME TorInv, NEW q \in Requests PROVE own = [own EXCEPT ![q] = own[q]]
BY DEF TorInv, TypeOK

(* It waits until the start is over, then takes the process down. *)
LEMMA StopStartedInv ==
    ASSUME TorInv, NEW q \in Requests, NEW c \in Callers, StopStarted(q, c) PROVE TorInv'
<1>1. own[q] \in Owner /\ OwnerInv(own[q], stop[q]) /\ own[q].phase # "none"
      /\ stop[q][c] = "started"
  BY OwnerTypes DEF StopStarted
<1>2. OtherFrame
  BY SameFrame DEF StopStarted
<1>3. CASE End(q, c, "failed")
  BY <1>1, <1>2, <1>3, EndStep
<1>4. CASE own[q].started = "yes" /\ At(q, c, "child") /\ UNCHANGED own
  <2>1. StopFrame(q) /\ \A d \in Callers : stop'[q][d] = IF d = c THEN "child" ELSE stop[q][d]
    BY <1>1, <1>4, StopMove DEF Stages
  <2>2. OwnerInv(own[q], stop'[q])
    BY <1>1, <1>4, <2>1 DEF OwnerInv
  <2>3. own' = [own EXCEPT ![q] = own[q]]
    BY <1>4, SameOwner
  <2> QED
    BY <1>1, <1>2, <2>1, <2>2, <2>3, LocalStep
<1> QED
  BY <1>3, <1>4 DEF StopStarted

(* The child is dead, and run is past the place where it could start another. *)
LEMMA StopChildInv ==
    ASSUME TorInv, NEW q \in Requests, NEW c \in Callers, StopChild(q, c) PROVE TorInv'
<1> DEFINE o == [own[q] EXCEPT !.child = IF own[q].child = "alive" THEN "dead" ELSE own[q].child]
<1>1. own[q] \in Owner /\ OwnerInv(own[q], stop[q]) /\ own[q].phase # "none"
      /\ stop[q][c] = "child"
  BY OwnerTypes DEF StopChild
<1>2. OtherFrame
  BY SameFrame DEF StopChild, NoFault
<1>3. CASE End(q, c, "failed")
  BY <1>1, <1>2, <1>3, EndStep
<1>4. CASE own' = [own EXCEPT ![q] = o] /\ At(q, c, "done")
  <2>1. StopFrame(q) /\ \A d \in Callers : stop'[q][d] = IF d = c THEN "done" ELSE stop[q][d]
    BY <1>1, <1>4, StopMove DEF Stages
  <2>2. o \in Owner
    BY <1>1 DEF Owner
  <2>3. o.phase # "none" /\ o.drained = own[q].drained
    BY <1>1 DEF Owner
  <2>4. OwnerInv(o, stop'[q])
    BY <1>1, <2>1 DEF OwnerInv, Owner
  <2> QED
    BY <1>1, <1>2, <1>4, <2>1, <2>2, <2>3, <2>4, LocalStep
<1> QED
  BY <1>3, <1>4 DEF StopChild

(* It answers whether the process has been joined. *)
LEMMA StopDoneInv ==
    ASSUME TorInv, NEW q \in Requests, NEW c \in Callers, StopDone(q, c) PROVE TorInv'
<1>1. OwnerInv(own[q], stop[q]) /\ stop[q][c] = "done" /\ own[q].child # "alive"
  BY OwnerTypes DEF StopDone, OwnerInv
<1>2. OtherFrame
  BY SameFrame DEF StopDone
<1>3. CASE own[q].run = "done" /\ End(q, c, "ok")
  BY <1>1, <1>2, <1>3, EndStep
<1>4. CASE End(q, c, "failed")
  BY <1>1, <1>2, <1>4, EndStep
<1> QED
  BY <1>3, <1>4 DEF StopDone

-----------------------------------------------------------------------------
(* A snapshot fails the worker, or changes nothing but the read. *)
LEMMA SnapshotInv == ASSUME TorInv, NEW q \in Requests, Snapshot(q) PROVE TorInv'
<1>1. OtherFrame
  <2>1. read' \in [Requests -> {"idle", "asking", "pending", "ready"}]
    BY DEF Snapshot, TorInv, TypeOK
  <2>2. faults' \in Nat
    BY DEF Snapshot, Fault, NoFault, TorInv, TypeOK
  <2> QED
    BY <2>1, <2>2 DEF Snapshot, OtherFrame, TorInv, TypeOK
<1>2. CASE UNCHANGED <<own, stop>>
  BY <1>1, <1>2 DEF OtherFrame, TorInv, TypeOK, SlotInv, Barred
<1>3. CASE /\ own[q].phase \in {"pending", "ready"}
           /\ own' = [own EXCEPT ![q] = Failing(own[q])] /\ stop' = Cleaning(q, own[q])
  BY <1>1, <1>3, FailedStep
<1> QED
  BY <1>2, <1>3 DEF Snapshot

(* An owner that is proved becomes ready. *)
LEMMA AdoptInv == ASSUME TorInv, NEW q \in Requests, Adopt(q) PROVE TorInv'
<1> DEFINE o == [own[q] EXCEPT !.phase = "ready"]
<1>1. OtherFrame
  BY DEF Adopt, OtherFrame, TorInv, TypeOK
<1>2. CASE UNCHANGED own
  BY <1>1, <1>2 DEF Adopt, OtherFrame, TorInv, TypeOK, SlotInv, Barred
<1>3. CASE own' = [own EXCEPT ![q] = o] /\ Usable(own[q]) /\ own[q].booted = "yes"
  <2>1. own[q] \in Owner /\ OwnerInv(own[q], stop[q])
    BY OwnerTypes
  <2>2. own[q].phase # "none" /\ own[q].cancelled = "no"
    BY <1>3 DEF Usable
  <2>3. o \in Owner
    BY <2>1 DEF Owner
  <2>4. o.phase # "none" /\ o.drained = own[q].drained
    BY <2>1 DEF Owner
  <2>5. OwnerInv(o, stop'[q])
    BY <1>3, <2>1, <2>2 DEF Adopt, OwnerInv, Owner
  <2>6. StopFrame(q)
    BY StopSame DEF Adopt
  <2> QED
    BY <1>1, <1>3, <2>2, <2>3, <2>4, <2>5, <2>6, LocalStep
<1> QED
  BY <1>2, <1>3 DEF Adopt

(* The wait of a request ends with a ready owner, or with its abandonment. *)
LEMMA PassInv == ASSUME TorInv, NEW q \in Requests, Pass(q) PROVE TorInv'
<1>1. own[q] \in Owner /\ OwnerInv(own[q], stop[q])
  BY OwnerTypes
<1>2. CASE UNCHANGED own
  <2>1. TypeOK'
    BY <1>2 DEF Pass, TorInv, TypeOK, Flag
  <2>2. ASSUME NEW r \in Requests PROVE OwnerInv(own'[r], stop'[r]) /\ SlotInv(r)'
    <3>1. window'[r] \in {window[r], "past"}
      BY DEF Pass, TorInv, TypeOK
    <3> QED
      BY <1>2, <3>1 DEF Pass, TorInv, SlotInv, Barred
  <2> QED
    BY <2>1, <2>2 DEF TorInv
<1>3. ASSUME NEW o \in Owner, own' = [own EXCEPT ![q] = o], UNCHANGED <<lease, window>>,
             own[q].phase # "none", o.phase # "none", o.drained = own[q].drained,
             OwnerInv(o, stop[q])
      PROVE  TorInv'
  <2>1. OtherFrame /\ StopFrame(q) /\ UNCHANGED stop
    BY <1>3, SameFrame, StopSame DEF Pass
  <2> QED
    BY <1>3, <2>1, LocalStep
<1>4. CASE /\ own[q].phase = "pending" /\ UNCHANGED <<lease, window>>
           /\ own' = [own EXCEPT ![q] = [own[q] EXCEPT !.overdue = "yes"]]
  <2> DEFINE o == [own[q] EXCEPT !.overdue = "yes"]
  <2>1. o \in Owner
    BY <1>1 DEF Owner, Flag
  <2>2. o.phase # "none" /\ o.drained = own[q].drained /\ OwnerInv(o, stop[q])
    BY <1>1, <1>4 DEF OwnerInv, Owner
  <2> QED
    BY <1>3, <1>4, <2>1, <2>2
<1>5. CASE /\ own[q].child = "alive" /\ UNCHANGED <<lease, window>>
           /\ own' = [own EXCEPT ![q] = [own[q] EXCEPT !.child = "dead"]]
  <2> DEFINE o == [own[q] EXCEPT !.child = "dead"]
  <2>1. o \in Owner
    BY <1>1 DEF Owner
  <2>2. own[q].phase # "none"
    BY <1>1, <1>5 DEF OwnerInv, Fresh
  <2>3. o.phase # "none" /\ o.drained = own[q].drained /\ OwnerInv(o, stop[q])
    BY <1>1, <1>5, <2>2 DEF OwnerInv, Owner
  <2> QED
    BY <1>3, <1>5, <2>1, <2>2, <2>3
<1> QED
  BY <1>2, <1>4, <1>5 DEF Pass

(* Only the callers' own records change. *)
LEMMA CreatedInv == ASSUME TorInv, NEW q \in Requests, Created(q) PROVE TorInv'
<1>1. TypeOK'
  BY DEF Created, TorInv, TypeOK
<1> QED
  BY <1>1 DEF Created, TorInv, SlotInv, Barred

(* A status request reads the table. *)
LEMMA StatusBeginInv == ASSUME TorInv, NEW q \in Requests, StatusBegin(q) PROVE TorInv'
<1>1. TypeOK'
  BY DEF StatusBegin, TorInv, TypeOK
<1> QED
  BY <1>1 DEF StatusBegin, TorInv, SlotInv, Barred

-----------------------------------------------------------------------------
(* rememberTorAttemptLocked forgets only attempts whose window has passed: who is
   barred stays barred, and an attempt that it retires is. *)
LEMMA RememberFacts ==
    ASSUME TorInv, NEW q \in Requests, NEW as \in {"live", "retired"},
           attempt' = Remembered(q, as), UNCHANGED window
    PROVE  /\ attempt' \in [Requests -> {"none", "live", "retired"}]
           /\ \A r \in Requests : Barred(r) /\ (r # q \/ as = "retired") => Barred(r)'
           /\ as = "retired" => Barred(q)'
<1>1. /\ attempt \in [Requests -> {"none", "live", "retired"}]
      /\ window \in [Requests -> {"open", "past"}]
  BY DEF TorInv, TypeOK
<1>2. attempt' \in [Requests -> {"none", "live", "retired"}]
  BY <1>1 DEF Remembered, Purged
<1>3. \A r \in Requests \ {q} : window[r] = "past" \/ attempt'[r] = attempt[r]
  BY <1>1 DEF Remembered, Purged
<1>4. window[q] = "past" \/ attempt'[q] = as
  BY <1>1 DEF Remembered, Purged
<1> QED
  BY <1>1, <1>2, <1>3, <1>4 DEF Barred

(* A request acquires the slot once: its owner is new, so that no Stop call is
   left over from an earlier one. *)
LEMMA AcquireIsFresh ==
    ASSUME TorInv, NEW q \in Requests, Acquire(q)
    PROVE  ~Barred(q) /\ own[q].phase = "none" /\ q \notin stopped
<1>1. window[q] = "open" /\ attempt[q] # "retired" /\ active # q
  BY TorAssumption DEF Acquire, Purged
<1> QED
  BY <1>1 DEF TorInv, SlotInv, Barred

(* A request gets the lease and a new owner. *)
LEMMA AcquireInv == ASSUME TorInv, NEW q \in Requests, Acquire(q) PROVE TorInv'
<1> DEFINE o == [Fresh EXCEPT !.phase = "pending", !.run = "start"]
<1>1. /\ attempt' \in [Requests -> {"none", "live", "retired"}]
      /\ \A r \in Requests : Barred(r) /\ r # q => Barred(r)'
  BY RememberFacts DEF Acquire
<1>2. /\ own' \in [Requests -> Owner] /\ own'[q] = o
      /\ \A r \in Requests \ {q} : own'[r] = own[r]
  BY FreshOwner DEF Acquire, TorInv, TypeOK
<1>3. TypeOK'
  BY <1>1, <1>2, TorAssumption DEF Acquire, TorInv, TypeOK, Flag
<1>4. \A c \in Callers : stop[q][c] = "idle"
  BY AcquireIsFresh DEF TorInv, OwnerInv
<1>5. ASSUME NEW r \in Requests PROVE OwnerInv(own'[r], stop'[r])
  <2>1. CASE r = q
    BY <1>2, <1>4, <2>1 DEF Acquire, OwnerInv, Fresh
  <2>2. CASE r # q
    BY <1>2, <2>2 DEF Acquire, TorInv
  <2> QED
    BY <2>1, <2>2
<1>6. ASSUME NEW r \in Requests PROVE SlotInv(r)'
  <2>1. CASE r = q
    <3>1. own'[q].phase = "pending" /\ active' = q
      BY <1>2 DEF Acquire, Fresh
    <3> QED
      BY <1>4, <2>1, <3>1, AcquireIsFresh DEF Acquire, SlotInv, Callers
  <2>2. CASE r # q
    <3>1. SlotInv(r) /\ active = "none" /\ active' = q
      BY DEF Acquire, TorInv
    <3>2. r # "none"
      BY TorAssumption
    <3> QED
      BY <1>1, <1>2, <2>2, <3>1, <3>2 DEF Acquire, SlotInv
  <2> QED
    BY <2>1, <2>2
<1> QED
  BY <1>3, <1>5, <1>6 DEF TorInv

(* Stop is called for the owner of the slot, whose attempt is retired. *)
LEMMA StopBegins ==
    ASSUME TorInv, NEW q \in Requests, NEW c \in {"delete", "put", "sweep"}, active = q,
           At(q, c, "revoke"), attempt' = Remembered(q, "retired"),
           UNCHANGED <<own, active, window, stopped>>
    PROVE  /\ stop' \in [Requests -> [Callers -> Stages]]
           /\ attempt' \in [Requests -> {"none", "live", "retired"}]
           /\ \A r \in Requests \ {q} : stop'[r] = stop[r]
           /\ \A d \in Callers : stop'[q][d] = IF d = c THEN "revoke" ELSE stop[q][d]
           /\ \A r \in Requests : OwnerInv(own'[r], stop'[r]) /\ SlotInv(r)'
<1>1. c \in Callers /\ "revoke" \in Stages
  BY DEF Callers, Stages
<1>2. stop \in [Requests -> [Callers -> Stages]]
  BY DEF TorInv, TypeOK
<1>3. /\ stop' \in [Requests -> [Callers -> Stages]]
      /\ \A r \in Requests \ {q} : stop'[r] = stop[r]
      /\ \A d \in Callers : stop'[q][d] = IF d = c THEN "revoke" ELSE stop[q][d]
  BY <1>1, <1>2 DEF At
<1>4. /\ attempt' \in [Requests -> {"none", "live", "retired"}]
      /\ \A r \in Requests : Barred(r) => Barred(r)'
      /\ Barred(q)'
  BY RememberFacts
<1>5. ASSUME NEW r \in Requests PROVE OwnerInv(own'[r], stop'[r])
  <2>1. CASE r = q
    <3>1. own[q].phase # "none" /\ OwnerInv(own[q], stop[q])
      BY DEF TorInv, SlotInv
    <3> QED
      BY <1>3, <2>1, <3>1 DEF OwnerInv
  <2>2. CASE r # q
    BY <1>3, <2>2 DEF TorInv
  <2> QED
    BY <2>1, <2>2
<1>6. ASSUME NEW r \in Requests PROVE SlotInv(r)'
  <2>1. CASE r = q
    BY <1>4, <2>1 DEF TorInv, SlotInv
  <2>2. CASE r # q
    <3>1. SlotInv(r) /\ stop'[r] = stop[r] /\ (Barred(r) => Barred(r)')
      BY <1>3, <1>4, <2>2 DEF TorInv
    <3> QED
      BY <3>1 DEF SlotInv
  <2> QED
    BY <2>1, <2>2
<1> QED
  BY <1>3, <1>4, <1>5, <1>6

(* The sweep begins with the lease that is due. *)
LEMMA SweepInv == ASSUME TorInv, NEW q \in Requests, Sweep(q) PROVE TorInv'
<1>1. /\ stop' \in [Requests -> [Callers -> Stages]]
      /\ attempt' \in [Requests -> {"none", "live", "retired"}]
      /\ \A r \in Requests \ {q} : stop'[r] = stop[r]
      /\ \A r \in Requests : OwnerInv(own'[r], stop'[r]) /\ SlotInv(r)'
  BY StopBegins DEF Sweep
<1>2. TypeOK'
  BY <1>1 DEF Sweep, TorInv, TypeOK, Flag
<1> QED
  BY <1>1, <1>2 DEF TorInv

(* A deletion, or an abandoned request, begins to stop the owner. *)
LEMMA DeleteTorInv ==
    ASSUME TorInv, NEW q \in Requests, NEW c \in {"delete", "put"}, DeleteTor(q, c)
    PROVE  TorInv'
<1>1. put' \in [Requests -> {"idle", "waiting", "abandon"}]
  BY DEF DeleteTor, TorInv, TypeOK
<1>2. CASE /\ active = q
           /\ attempt' = Remembered(q, "retired") /\ lease' = [lease EXCEPT !.retired = "yes"]
           /\ At(q, c, "revoke") /\ UNCHANGED stopped
  <2>1. /\ stop' \in [Requests -> [Callers -> Stages]]
        /\ attempt' \in [Requests -> {"none", "live", "retired"}]
        /\ \A r \in Requests \ {q} : stop'[r] = stop[r]
        /\ \A d \in Callers : stop'[q][d] = IF d = c THEN "revoke" ELSE stop[q][d]
        /\ \A r \in Requests : OwnerInv(own'[r], stop'[r]) /\ SlotInv(r)'
    BY <1>2, StopBegins DEF DeleteTor
  <2>2. \A r \in Requests : stop'[r]["sweep"] = stop[r]["sweep"]
    BY <2>1 DEF Callers
  <2>3. TypeOK'
    BY <1>1, <1>2, <2>1, <2>2 DEF DeleteTor, TorInv, TypeOK, Flag
  <2> QED
    BY <2>1, <2>3 DEF TorInv
<1>3. CASE /\ active = "none" /\ attempt' = Remembered(q, "retired")
           /\ stopped' = IF c = "delete" THEN stopped \cup {q} ELSE stopped
           /\ UNCHANGED <<stop, lease>>
  <2>1. /\ attempt' \in [Requests -> {"none", "live", "retired"}]
        /\ \A r \in Requests : Barred(r) => Barred(r)'
        /\ Barred(q)'
    BY <1>3, RememberFacts DEF DeleteTor
  <2>2. TypeOK'
    BY <1>1, <1>3, <2>1 DEF DeleteTor, TorInv, TypeOK
  <2>3. ASSUME NEW r \in Requests PROVE SlotInv(r)'
    BY <1>3, <2>1, TorAssumption DEF DeleteTor, TorInv, SlotInv
  <2> QED
    BY <1>3, <2>2, <2>3 DEF DeleteTor, TorInv
<1>4. CASE UNCHANGED <<attempt, lease, stop, stopped>>
  <2>1. TypeOK'
    BY <1>1, <1>4 DEF DeleteTor, TorInv, TypeOK
  <2> QED
    BY <1>4, <2>1 DEF DeleteTor, TorInv, SlotInv, Barred
<1> QED
  BY <1>2, <1>3, <1>4 DEF DeleteTor

(* The slot is given up for an owner that has drained. *)
LEMMA SlotReleased ==
    ASSUME TorInv, NEW q \in Requests, NEW c \in {"delete", "put", "sweep"},
           stop[q][c] \in {"ok", "failed"}, At(q, c, "idle"),
           \/ UNCHANGED active
           \/ active = q /\ active' = "none" /\ stop[q][c] = "ok",
           \/ UNCHANGED stopped
           \/ stopped' = stopped \cup {q} /\ active' # q,
           UNCHANGED <<own, attempt, window>>
    PROVE  /\ stop' \in [Requests -> [Callers -> Stages]]
           /\ \A r \in Requests \ {q} : stop'[r] = stop[r]
           /\ \A d \in Callers : stop'[q][d] = IF d = c THEN "idle" ELSE stop[q][d]
           /\ \A r \in Requests : OwnerInv(own'[r], stop'[r]) /\ SlotInv(r)'
<1>1. c \in Callers /\ "idle" \in Stages
  BY DEF Callers, Stages
<1>2. stop \in [Requests -> [Callers -> Stages]]
  BY DEF TorInv, TypeOK
<1>3. /\ stop' \in [Requests -> [Callers -> Stages]]
      /\ \A r \in Requests \ {q} : stop'[r] = stop[r]
      /\ \A d \in Callers : stop'[q][d] = IF d = c THEN "idle" ELSE stop[q][d]
  BY <1>1, <1>2 DEF At
<1>4. Barred(q) /\ (stop[q][c] = "ok" => own[q].drained = "yes")
  BY <1>1 DEF TorInv, SlotInv, OwnerInv
<1>5. ASSUME NEW r \in Requests PROVE OwnerInv(own'[r], stop'[r])
  <2>1. CASE r = q
    BY <1>3, <2>1 DEF TorInv, OwnerInv
  <2>2. CASE r # q
    BY <1>3, <2>2 DEF TorInv
  <2> QED
    BY <2>1, <2>2
<1>6. ASSUME NEW r \in Requests PROVE SlotInv(r)'
  <2>1. SlotInv(r) /\ (Barred(r)' <=> Barred(r)) /\ r # "none"
    BY TorAssumption DEF TorInv, Barred
  <2>2. \A d \in {"delete", "put", "sweep"} : stop'[r][d] # "idle" => stop[r][d] # "idle"
    BY <1>3 DEF Callers
  <2>3. (own'[r].phase = "none" => active' # r) /\ (r \in stopped' => active' # r /\ Barred(r))
    BY <1>4, <2>1 DEF SlotInv
  <2>4. own'[r].phase # "none" /\ active' # r => own'[r].drained = "yes" /\ Barred(r)
    BY <1>4, <2>1 DEF SlotInv
  <2> QED
    BY <2>1, <2>2, <2>3, <2>4 DEF SlotInv
<1> QED
  BY <1>3, <1>5, <1>6

(* It releases the lease when the stop has succeeded. *)
LEMMA DeletedInv ==
    ASSUME TorInv, NEW q \in Requests, NEW c \in {"delete", "put"}, Deleted(q, c)
    PROVE  TorInv'
<1>1. stop[q][c] = "ok" => own[q].drained = "yes"
  BY DEF TorInv, OwnerInv, Callers
<1>2. q # "none"
  BY TorAssumption
<1>3. /\ UNCHANGED active \/ (active = q /\ active' = "none" /\ stop[q][c] = "ok")
      /\ UNCHANGED stopped \/ (stopped' = stopped \cup {q} /\ active' # q)
  BY <1>1, <1>2 DEF Deleted
<1>4. /\ stop' \in [Requests -> [Callers -> Stages]]
      /\ \A r \in Requests \ {q} : stop'[r] = stop[r]
      /\ \A d \in Callers : stop'[q][d] = IF d = c THEN "idle" ELSE stop[q][d]
      /\ \A r \in Requests : OwnerInv(own'[r], stop'[r]) /\ SlotInv(r)'
  BY <1>3, SlotReleased DEF Deleted
<1>5. \A r \in Requests : stop'[r]["sweep"] = "idle"
  BY <1>4 DEF Deleted, TorInv, TypeOK, Callers
<1>6. TypeOK'
  BY <1>3, <1>4, <1>5 DEF Deleted, TorInv, TypeOK
<1> QED
  BY <1>4, <1>6 DEF TorInv

(* So does the sweep. *)
LEMMA SweptInv == ASSUME TorInv, NEW q \in Requests, Swept(q) PROVE TorInv'
<1>1. active = q /\ mu = "sweep"
  BY DEF Swept, TorInv, TypeOK
<1>2. /\ stop' \in [Requests -> [Callers -> Stages]]
      /\ \A r \in Requests \ {q} : stop'[r] = stop[r]
      /\ \A d \in Callers : stop'[q][d] = IF d = "sweep" THEN "idle" ELSE stop[q][d]
      /\ \A r \in Requests : OwnerInv(own'[r], stop'[r]) /\ SlotInv(r)'
  BY <1>1, SlotReleased DEF Swept
<1>3. \A r \in Requests : stop'[r]["sweep"] = "idle"
  BY <1>1, <1>2 DEF TorInv, TypeOK, Callers
<1>4. TypeOK'
  BY <1>1, <1>2, <1>3 DEF Swept, TorInv, TypeOK
<1> QED
  BY <1>2, <1>4 DEF TorInv

-----------------------------------------------------------------------------
(* Every step of the Tor table keeps the invariant. *)
LEMMA TorNextInv == TorInv /\ [Next]_vars => TorInv'
<1> SUFFICES ASSUME TorInv, [Next]_vars PROVE TorInv'
  OBVIOUS
<1>1. ASSUME NEW q \in Requests, Run(q) PROVE TorInv'
  BY <1>1, RunStartInv, RunFrontInv, RunBootstrapInv, RunProveInv, RunExitInv DEF Run
<1>2. ASSUME NEW q \in Requests, Finish(q) PROVE TorInv'
  BY <1>2, CreatedInv, SnapshotInv, AdoptInv, DeleteTorInv DEF Finish
<1>3. ASSUME NEW q \in Requests, NEW c \in Callers, StopStep(q, c) PROVE TorInv'
  BY <1>3, StopRevokeInv, StopGateInv, StopStartedInv, StopChildInv, StopDoneInv DEF StopStep
<1>4. ASSUME NEW q \in Requests,
             \/ Acquire(q) \/ Expire(q) \/ Sweep(q) \/ Swept(q) \/ Pass(q)
             \/ DeleteTor(q, "delete") \/ StatusBegin(q)
      PROVE  TorInv'
  BY <1>4, AcquireInv, ExpireInv, SweepInv, SweptInv, PassInv, DeleteTorInv, StatusBeginInv
<1>5. ASSUME NEW q \in Requests, NEW c \in {"delete", "put"}, Deleted(q, c) PROVE TorInv'
  BY <1>5, DeletedInv
<1>6. CASE UNCHANGED vars
  BY <1>6 DEF vars, TorInv, TypeOK, SlotInv, Barred
<1> QED
  BY <1>1, <1>2, <1>3, <1>4, <1>5, <1>6 DEF Next

(* The owners and the slot stay in order, in whatever order the goroutine, the
   timers, the Stop calls and the clients' calls of tor_lease.go take turns. *)
THEOREM TorInvariant == Spec => []TorInv
BY TorInitInv, TorNextInv, PTL DEF Spec

(* A Tor lease leaves m.leases only when run has returned and its worker is dead,
   also for a worker that came up behind the Stop that should have ended it. *)
THEOREM JoinedTheorem == Spec => []ReleasedIsJoined
<1>1. TorInv => ReleasedIsJoined
  BY DEF TorInv, SlotInv, OwnerInv, ReleasedIsJoined
<1> QED
  BY <1>1, TorInvariant, PTL

(* A Tor request whose DELETE was answered never holds the slot again, for any
   number of requests that compete for it. *)
THEOREM TorResurrectionTheorem == Spec => []NoTorResurrection
<1>1. TorInv => NoTorResurrection
  BY DEF TorInv, TypeOK, SlotInv, NoTorResurrection
<1> QED
  BY <1>1, TorInvariant, PTL

(* The records of tor_lease.go are well formed, and the sweep's Stop runs only
   with the manager's lock held and for the owner of the slot. *)
THEOREM TorTypeTheorem == Spec => []TypeOK
<1>1. TorInv => TypeOK
  BY DEF TorInv
<1> QED
  BY <1>1, TorInvariant, PTL

-----------------------------------------------------------------------------
(* No step takes a cancellation back: the only one that writes a fresh owner finds
   none before. *)
LEMMA CancelledStays ==
    ASSUME TorInv, [Next]_vars, NEW r \in Requests, own[r].cancelled = "yes"
    PROVE  own'[r].cancelled = "yes"
<1>1. own \in [Requests -> Owner] /\ own[r] \in Owner
  BY DEF TorInv, TypeOK
<1>2. ASSUME NEW q \in Requests, NEW o \in Owner PROVE
         own[q].cancelled = o.cancelled /\ Fail(q, o) => own'[r].cancelled = "yes"
  <2>1. [Failing(o) EXCEPT !.run = "exit"].cancelled \in {o.cancelled, "yes"}
    BY DEF Failing, Owner
  <2> QED
    BY <1>1, <2>1 DEF Fail
<1>4. ASSUME NEW q \in Requests, Run(q) PROVE own'[r].cancelled = "yes"
  <2>1. own[q] \in Owner /\ [own[q] EXCEPT !.child = "alive"] \in Owner
        /\ [own[q] EXCEPT !.child = "alive"].cancelled = own[q].cancelled
    BY <1>1 DEF Owner
  <2>2. CASE Fail(q, own[q]) \/ Fail(q, [own[q] EXCEPT !.child = "alive"])
    BY <1>2, <2>1, <2>2
  <2>3. CASE RunStart(q)
    BY <1>1, <2>1, <2>2, <2>3 DEF RunStart
  <2>4. CASE RunFront(q)
    BY <1>1, <2>2, <2>4 DEF RunFront, Owner
  <2>5. CASE RunBootstrap(q)
    BY <1>1, <2>2, <2>5 DEF RunBootstrap, Owner
  <2>6. CASE RunProve(q)
    BY <1>1, <2>2, <2>6 DEF RunProve, Owner
  <2>7. CASE RunExit(q)
    BY <1>1, <2>7 DEF RunExit, Owner
  <2> QED
    BY <1>4, <2>3, <2>4, <2>5, <2>6, <2>7 DEF Run
<1>5. ASSUME NEW q \in Requests, Expire(q) \/ Snapshot(q) PROVE own'[r].cancelled = "yes"
  <2>1. Failing(own[q]).cancelled \in {own[q].cancelled, "yes"}
    BY <1>1 DEF Failing, Owner
  <2> QED
    BY <1>1, <1>5, <2>1 DEF Expire, Snapshot
<1>6. ASSUME NEW q \in Requests, NEW c \in Callers, StopStep(q, c)
      PROVE  own'[r].cancelled = "yes"
  <2>1. ASSUME NEW result, End(q, c, result) PROVE own'[r].cancelled = "yes"
    BY <1>1, <2>1 DEF End, Owner
  <2>2. CASE StopRevoke(q, c)
    BY <1>1, <2>2 DEF StopRevoke, Owner
  <2>3. CASE StopGate(q, c)
    BY <1>1, <2>1, <2>3 DEF StopGate, Owner
  <2>4. CASE StopStarted(q, c)
    BY <2>1, <2>4 DEF StopStarted
  <2>5. CASE StopChild(q, c)
    BY <1>1, <2>1, <2>5 DEF StopChild, Owner
  <2>6. CASE StopDone(q, c)
    BY <2>1, <2>6 DEF StopDone
  <2> QED
    BY <1>6, <2>2, <2>3, <2>4, <2>5, <2>6 DEF StopStep
<1>7. ASSUME NEW q \in Requests, Acquire(q) PROVE own'[r].cancelled = "yes"
  <2>1. q # r
    BY <1>7, AcquireIsFresh DEF TorInv, OwnerInv, Fresh
  <2> QED
    BY <1>1, <1>7, <2>1 DEF Acquire
<1>8. ASSUME NEW q \in Requests, Adopt(q) \/ Pass(q) PROVE own'[r].cancelled = "yes"
  <2>1. CASE Adopt(q)
    BY <1>1, <2>1 DEF Adopt, Owner
  <2>2. CASE Pass(q)
    BY <1>1, <2>2 DEF Pass, Owner
  <2> QED
    BY <1>8, <2>1, <2>2
<1>9. CASE UNCHANGED own
  BY <1>9
<1>10. ASSUME NEW q \in Requests, NEW c, DeleteTor(q, c) \/ Deleted(q, c) PROVE UNCHANGED own
  BY <1>10 DEF DeleteTor, Deleted
<1>11. ASSUME NEW q \in Requests, Created(q) \/ Sweep(q) \/ Swept(q) \/ StatusBegin(q)
       PROVE  UNCHANGED own
  BY <1>11 DEF Created, Sweep, Swept, StatusBegin
<1> QED
  BY <1>4, <1>5, <1>6, <1>7, <1>8, <1>9, <1>10, <1>11 DEF Next, Finish, vars

(* An owner that fail() or Stop revoked offers nothing any more: no receipt, timer
   or late bootstrap takes it back. *)
THEOREM RevokedTheorem == Spec => RevokedForGood
<1>1. TorInv /\ TorInv' /\ [Next]_vars =>
        \A q \in Requests : own[q].cancelled = "yes"
          => own'[q].cancelled = "yes" /\ own'[q].phase \in {"failed", "retired"}
  <2> SUFFICES ASSUME TorInv, TorInv', [Next]_vars, NEW q \in Requests, own[q].cancelled = "yes"
               PROVE  own'[q].cancelled = "yes" /\ own'[q].phase \in {"failed", "retired"}
    OBVIOUS
  <2>1. own'[q].cancelled = "yes"
    BY CancelledStays
  <2> QED
    BY <2>1 DEF TorInv, OwnerInv
<1> QED
  BY <1>1, TorInvariant, PTL DEF Spec, RevokedForGood
=============================================================================
