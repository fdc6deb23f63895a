----------------------------- MODULE AutoUpdate -----------------------------
(***************************************************************************)
(* The scheduler of unattended updates (cmd/update-auto) composed with the *)
(* update controller it calls, next to the operators who call it too.      *)
(*                                                                         *)
(* A cycle asks for the status, asks for the latest verified release and   *)
(* posts an apply request.  The three calls are separate HTTP requests,    *)
(* and the status handler itself copies c.state before it reads the stack, *)
(* so everything may change between a reading and its use.                 *)
(***************************************************************************)
EXTENDS UpdateController, SequencesExt

CONSTANTS
    Scheduler,  \* the scheduler's request
    MaxPublish, \* bound: CI runs that settle in a behaviour
    MaxAsked    \* bound: targets that operators ask for, each once

ASSUME AutoAssumption == Scheduler \in Requests /\ MaxPublish \in Nat /\ MaxAsked \in Nat

VARIABLES
    auto,      \* where the cycle is
    view,      \* the status response: c.state and the current SHA
    offer,     \* the SHA that the check returned
    verified,  \* SHAs with settled successful evidence, newest run first
    publishes, \* CI runs that may still settle
    tried      \* history: the targets that operators have asked for

autoVars == <<auto, view, offer, verified, publishes, tried>>
allVars  == <<vars, autoVars>>

(* latestVerified: the newest evidence that is current or a strict descendant. *)
latestVerified(current) ==
    LET eligible == {i \in 1..Len(verified) :
                        verified[i] = current \/ <<current, verified[i]>> \in Descends}
    IN  IF current \notin SHA \/ eligible = {} THEN NoSHA
        ELSE verified[CHOOSE i \in eligible : \A j \in eligible : i <= j]

(* The cycle is over: its locals are gone. *)
NoView == [state |-> Idle, current |-> Unknown]
Sleep  == auto' = "sleep" /\ view' = NoView /\ offer' = NoSHA

(* The status handler: c.state under the lock ... *)
autoStatus ==
    /\ auto = "sleep"
    /\ view' = [state |-> mem, current |-> Unknown]
    /\ auto' = "stack"
    /\ UNCHANGED <<vars, offer, verified, publishes, tried>>

(* ... then the stack.  cycle gives up on a busy or an inexact deployment. *)
autoStack ==
    /\ auto = "stack"
    /\ IF view.state.status \in Busy \/ composeSHA(stack) \notin SHA
       THEN Sleep
       ELSE /\ auto' = "check"
            /\ view' = [view EXCEPT !.current = composeSHA(stack)]
            /\ UNCHANGED offer
    /\ UNCHANGED <<vars, verified, publishes, tried>>

(* Mutants: an empty answer is posted; the failed target is posted again;
   after any failure nothing is posted. *)
MutCheck(skip(_)) ==
    /\ auto = "check"
    /\ LET latest == latestVerified(composeSHA(stack)) IN
       IF latest = view.current \/ skip(latest)
       THEN Sleep ELSE auto' = "apply" /\ offer' = latest /\ UNCHANGED view
    /\ UNCHANGED <<vars, verified, publishes, tried>>

MutRetriesFailed == MutCheck(LAMBDA latest : latest = NoSHA)

MutGivesUpAfterFailure ==
    MutCheck(LAMBDA latest : latest = NoSHA \/ view.state.status = "failed")

(* check with an empty sha, and what cycle makes of the answer: it applies a
   SHA that is neither deployed nor the target that failed last. *)
autoCheck ==
    /\ auto = "check"
    /\ LET latest == latestVerified(composeSHA(stack)) IN
       IF \/ latest = NoSHA
          \/ latest = view.current
          \/ view.state.status = "failed" /\ view.state.target = latest
       THEN Sleep ELSE auto' = "apply" /\ offer' = latest /\ UNCHANGED view
    /\ UNCHANGED <<vars, verified, publishes, tried>>

(* The POST is admitted, or answered with a conflict. *)
autoApply ==
    /\ auto = "apply"
    /\ applyAdmit(Scheduler, offer)
    /\ auto' = "wait" /\ view' = NoView /\ offer' = NoSHA
    /\ UNCHANGED <<verified, publishes, tried>>

autoConflict ==
    /\ auto = "apply"
    /\ mem.status \in Busy \/ ~snapshotClearable(mem)
    /\ Sleep
    /\ UNCHANGED <<vars, verified, publishes, tried>>

(* The response arrives, the connection breaks or five minutes pass; the
   handler runs on in the last case. *)
autoWait ==
    /\ auto = "wait"
    /\ Sleep
    /\ UNCHANGED <<vars, verified, publishes, tried>>

(* A call fails, or the scheduler restarts. *)
autoAbandon ==
    /\ auto \in {"stack", "check", "apply"}
    /\ Fault
    /\ Sleep
    /\ UNCHANGED <<disk, mem, snap, stack, health, pc, job, races, verified, publishes, tried>>

(* External: a build-all run settles, newest first; a success brings the SHA
   to the front, a failure takes it out. *)
Publish(sha) ==
    /\ publishes > 0 /\ publishes' = publishes - 1
    /\ \/ verified' = <<sha>> \o Remove(verified, sha)
       \/ verified' = Remove(verified, sha)
    /\ UNCHANGED <<vars, auto, view, offer, tried>>

-----------------------------------------------------------------------------
AutoInit ==
    /\ Init
    /\ auto = "sleep"
    /\ view = NoView
    /\ offer = NoSHA
    /\ verified = <<>>
    /\ publishes = MaxPublish /\ tried = {}

Cycle == autoStatus \/ autoStack \/ autoCheck \/ autoConflict \/ autoWait

OperatorApplies ==
    \E r \in Requests \ {Scheduler}, sha \in SHA :
        /\ applyAdmit(r, sha)
        /\ Cardinality(tried) < MaxAsked /\ sha \notin tried
        /\ tried' = tried \cup {sha}
        /\ UNCHANGED <<auto, view, offer, verified, publishes>>

ControllerStep == (\E p \in Procs : Step(p)) /\ UNCHANGED autoVars

ControllerRestart == Restart /\ UNCHANGED autoVars

AutoNext ==
    \/ Cycle \/ autoApply \/ autoAbandon
    \/ OperatorApplies \/ ControllerStep \/ ControllerRestart
    \/ \E sha \in SHA : Publish(sha)

AutoSpec == AutoInit /\ [][AutoNext]_allVars

(* The ticker starts cycle after cycle; restarts of the controller do not hit
   every one of them. *)
FairAutoSpec ==
    /\ AutoSpec
    /\ \A p \in Procs : WF_allVars(Step(p) /\ UNCHANGED autoVars)
    /\ WF_allVars(Cycle) /\ SF_allVars(autoApply)

-----------------------------------------------------------------------------
(* The type invariant of the scheduler; only an exact SHA is ever posted. *)
AutoTypeOK ==
    /\ auto \in {"sleep", "stack", "check", "apply", "wait"}
    /\ view \in [state : States, current : SHA \cup {Unknown}]
    /\ offer \in SHA \cup {NoSHA}
    /\ auto = "apply" => offer \in SHA
    /\ ToSet(verified) \subseteq SHA /\ IsInjective(verified)
    /\ publishes \in 0..MaxPublish /\ tried \subseteq SHA

(* The scheduler never starts again the very target that failed last, although
   it decides on a status that is three calls old when it acts; unless an operator
   tries that target, too, and fails with it in between, or recovery has adopted a
   live request, whose writes then come after its own. *)
FailedTargetNotRetried ==
    [][auto = "apply" /\ auto' = "wait" /\ disk' # disk /\ "adopted" \notin races =>
         ~(disk.status = "failed" /\ disk.target = offer /\ offer \notin tried)]_allVars

(* When CI and the operators rest, the server ends up at the latest verified release, or that
   release has failed, or the controller waits for a restart or for somebody to
   remove a snapshot that it cannot attribute; unless recovery adopts a live
   request, after which a release that is recorded complete may not be deployed. *)
Settled ==
    LET current == composeSHA(stack)
        latest  == latestVerified(current)
    IN  \/ latest \in {NoSHA, current}
        \/ disk.status = "failed" /\ disk.target = latest
        \/ disk.status \in Busy
        \/ ~snapshotClearable(disk)

EventuallySettled == <>[](Settled \/ "adopted" \in races)
=============================================================================
