------------------------------ MODULE NativeUpdate ------------------------------
(***************************************************************************)
(* The client's signed native-update controller (native_auto_update.go) on *)
(* the private store of internal/updatepolicy: a state file that remembers *)
(* the newest signed sequence and the staged package, and a directory of   *)
(* packages named by their digest.                                         *)
(*                                                                         *)
(* rvNativeUpdateMu admits one request at a time; a step is one call it    *)
(* makes on the network or on the disk.  The process may die between any   *)
(* two, and the user, or another program, may delete or overwrite a package *)
(* at any time.  Signatures, hosts, channels, permissions and time stamps  *)
(* are left out: Manifests are those that verify.                          *)
(***************************************************************************)
EXTENDS Integers, FiniteSets

CONSTANTS
    Manifests,  \* signed manifests, served in any order and any number of times
    Installed,  \* the SHA of the package first installed
    None,
    Failures,   \* {"read"}: reading the state file may fail as well
    MaxFaults,  \* bound: calls that fail and crashes
    MaxTouches  \* bound: deletions and overwritings by others

Shas    == {m.sha : m \in Manifests} \cup {Installed}
Digests == {m.dig : m \in Manifests} \ {None}

ASSUME NativeAssumption ==
    /\ \A m \in Manifests :
           m = [seq |-> m.seq, sha |-> m.sha, dig |-> m.dig] /\ m.seq \in Nat \ {0}
    /\ None \notin Shas /\ Failures \subseteq {"read"}
    /\ MaxFaults \in Nat /\ MaxTouches \in Nat

VARIABLES
    disk,       \* the state file: sequence, its target, the target offered, the package staged
    file,       \* the download directory: the bytes under each package's name
    tomb,       \* the bytes in the tombstone of the removal under way
    kept,       \* packages left in tombstones
    pc, want, st, man, made,  \* the request: its kind, its State, its manifest, downloaded.Created
    installed,  \* the SHA of the running package
    goos,       \* runtime.GOOS, as far as the store looks at it
    excused,    \* history: packages lost to a crash, to others, to a failure that was reported,
                \* or to a state that names another package or none
    faults, touches

nativeVars == <<disk, file, tomb, kept, pc, want, st, man, made,
                installed, goos, excused, faults, touches>>
request    == <<want, st, man, made>>
store      == <<disk, file, tomb, kept>>
outside    == <<installed, goos, touches>>

(* The State of a missing file. *)
Fresh == [seq |-> 0, seen |-> None, avail |-> None, art |-> None]

Fault   == faults > 0 /\ faults' = faults - 1
NoFault == UNCHANGED faults

Excuse(ds) == excused' = excused \cup (ds \ {None})

(* The request is answered and the lock released; its locals are gone. *)
Answer == pc' = "idle" /\ want' = "check" /\ st' = Fresh /\ man' = None /\ made' = "no"

-----------------------------------------------------------------------------
(* POST check or download: lock, and load the state. *)
Begin(kind) ==
    /\ pc = "idle"
    /\ want' = kind /\ st' = disk
    /\ \/ NoFault /\ pc' = "fetch"
       \/ "read" \in Failures /\ Fault /\ pc' = "report"
    /\ UNCHANGED <<store, outside, man, made, excused>>

(* Mutant: only the sequence is compared, and a reused one is accepted. *)
MutRejected(m) == m.seq < st.seq

(* The manifest is older than the newest one seen, or has its sequence and
   another target. *)
Rejected(m) ==
    LET observed == IF st.seen = None THEN st.avail ELSE st.seen IN
    m.seq < st.seq \/ (m.seq = st.seq /\ observed # None /\ observed # m.sha)

(* Mutant: a staged package is replaced only when another one is downloaded. *)
MutObsolete(m) == st.art # None /\ m.sha = installed

(* The staged package is of no use any more: its target is installed, or the
   manifest names another one. *)
Obsolete(m) == st.art # None /\ (m.sha = installed \/ m.sha # st.avail)

(* rvNativeUpdateOnce from the manifest to the first removal.  SelectArtifact may
   find nothing for this platform. *)
Fetched(m) ==
    LET current == m.sha = installed IN
    /\ man' = m
    /\ st' = [st EXCEPT !.seq = m.seq, !.seen = m.sha, !.avail = IF current THEN None ELSE m.sha]
    /\ pc' = IF Rejected(m) \/ (~current /\ m.dig = None) THEN "report"
             ELSE IF Obsolete(m) THEN "clear"
             ELSE IF ~current /\ want = "download" THEN "stage" ELSE "save"

(* rvFetchManifest, ParseAndVerify: an error, or a signed manifest. *)
Fetch ==
    /\ pc = "fetch"
    /\ \/ pc' = "report" /\ UNCHANGED <<st, man>>
       \/ \E m \in Manifests : Fetched(m)
    /\ UNCHANGED <<store, outside, want, made, excused, faults>>

-----------------------------------------------------------------------------
(* RemoveVerifiedArtifact, called by rvClearNativeArtifact ("clear") and after a
   failed save ("undo"), takes several steps; Package is what it is called for. *)
Undoing == pc \in {"undo", "undoRename", "undoTomb", "undoRestore", "undoPutBack"}
Package == IF Undoing THEN man.dig ELSE st.art

(* Where a removal is: the same label for both callers. *)
At(clear, undo) == pc = clear \/ pc = undo
GoTo(clear, undo) == pc' = IF Undoing THEN undo ELSE clear

(* The package is gone; a missing one counts as removed. *)
Removed ==
    IF Undoing THEN pc' = "report" /\ UNCHANGED st
    ELSE /\ st' = [st EXCEPT !.art = None]
         /\ pc' = IF want = "download" /\ man.sha # installed THEN "saveCleared" ELSE "save"

(* A removal that fails; the undo of a failed save has then left a package. *)
NotRemoved == pc' = "report" /\ UNCHANGED st /\ Excuse(IF Undoing THEN {Package} ELSE {})

RemoveVerify ==
    /\ At("clear", "undo")
    /\ \/ file[Package] = "absent" /\ NoFault /\ Removed /\ UNCHANGED excused
       \/ /\ file[Package] = "good" /\ NoFault
          /\ GoTo("rename", "undoRename") /\ UNCHANGED <<st, excused>>
       \/ file[Package] = "foreign" /\ NoFault /\ NotRemoved
       \/ file[Package] = "good" /\ Fault /\ NotRemoved
    /\ UNCHANGED <<store, outside, want, man, made>>

RemoveRename ==
    /\ At("rename", "undoRename")
    /\ IF file[Package] = "absent" THEN Removed /\ UNCHANGED <<file, tomb>>
       ELSE /\ tomb' = file[Package] /\ file' = [file EXCEPT ![Package] = "absent"]
            /\ GoTo("tomb", "undoTomb") /\ UNCHANGED st
    /\ UNCHANGED <<disk, kept, outside, want, man, made, excused, faults>>

(* Mutant: the bytes in the tombstone are not verified again. *)
MutRemoveTomb ==
    /\ At("tomb", "undoTomb")
    /\ \/ NoFault /\ tomb' = "none" /\ Removed
       \/ Fault /\ GoTo("restore", "undoRestore") /\ UNCHANGED <<tomb, st>>
    /\ UNCHANGED <<disk, file, kept, outside, want, man, made, excused>>

RemoveTomb ==
    /\ At("tomb", "undoTomb")
    /\ \/ tomb = "good" /\ NoFault /\ tomb' = "none" /\ Removed
       \/ /\ IF tomb = "good" THEN Fault ELSE NoFault
          /\ GoTo("restore", "undoRestore") /\ UNCHANGED <<tomb, st>>
    /\ UNCHANGED <<disk, file, kept, outside, want, man, made, excused>>

(* The tombstone is left where it is. *)
Keep == kept' = kept \cup {[dig |-> Package, bytes |-> tomb]}

(* restoreArtifactNoClobber, first half: the name must not be taken. *)
RemoveRestore ==
    /\ At("restore", "undoRestore")
    /\ \/ /\ file[Package] = "absent" /\ NoFault
          /\ GoTo("putBack", "undoPutBack") /\ UNCHANGED <<tomb, kept, st, excused>>
       \/ /\ IF file[Package] = "absent" THEN Fault ELSE NoFault
          /\ tomb' = "none" /\ Keep /\ NotRemoved
    /\ UNCHANGED <<disk, file, outside, want, man, made>>

(* Second half.  os.Link fails if the name is taken by now; on Windows os.Rename
   replaces what it finds.  A link may be made and the tombstone stay. *)
RemovePutBack ==
    /\ At("putBack", "undoPutBack") /\ tomb' = "none"
    /\ \/ /\ goos = "windows" \/ file[Package] = "absent"
          /\ NoFault /\ file' = [file EXCEPT ![Package] = tomb] /\ UNCHANGED kept
       \/ goos # "windows" /\ file[Package] # "absent" /\ NoFault /\ Keep /\ UNCHANGED file
       \/ /\ Fault /\ Keep
          /\ \/ UNCHANGED file
             \/ /\ goos # "windows" /\ file[Package] = "absent"
                /\ file' = [file EXCEPT ![Package] = tomb]
    /\ NotRemoved
    /\ UNCHANGED <<disk, outside, want, man, made>>

-----------------------------------------------------------------------------
(* SaveState: the rename commits, and the sync after it may still fail. *)
Saved(s)      == NoFault /\ disk' = s
SaveFailed(s) == Fault /\ disk' \in {disk, s}

(* The last save of a check, and the one between a clear and a download. *)
Save ==
    /\ pc \in {"save", "saveCleared"}
    /\ \/ pc = "save" /\ Saved(st) /\ Answer
       \/ pc = "saveCleared" /\ Saved(st) /\ pc' = "stage" /\ UNCHANGED request
       \/ SaveFailed(st) /\ pc' = "report" /\ UNCHANGED request
    /\ UNCHANGED <<file, tomb, kept, outside, excused>>

Staged(created) == made' = created /\ st' = [st EXCEPT !.art = man.dig] /\ pc' = "saveStaged"

(* DownloadArtifactDetailed, first half: a package that is there already is
   taken when it verifies; the directory, or the download, may fail. *)
Stage ==
    /\ pc = "stage"
    /\ \/ file[man.dig] = "good" /\ Staged("no")
       \/ file[man.dig] = "absent" /\ pc' = "adopt" /\ UNCHANGED <<st, made>>
       \/ pc' = "report" /\ UNCHANGED <<st, made>>
    /\ UNCHANGED <<store, outside, want, man, excused, faults>>

(* Second half: adoptNoClobber, and what follows it.  os.Link refuses a name that
   is taken by now; on Windows os.Rename replaces what it finds. *)
Adopt ==
    /\ pc = "adopt"
    /\ \/ /\ goos = "windows" \/ file[man.dig] = "absent"
          /\ file' = [file EXCEPT ![man.dig] = "good"]
          /\ \/ NoFault /\ Staged("yes") /\ UNCHANGED excused
             \/ Fault /\ pc' = "report" /\ Excuse({man.dig}) /\ UNCHANGED <<st, made>>
       \/ /\ goos # "windows" /\ file[man.dig] = "good"
          /\ NoFault /\ Staged("no") /\ UNCHANGED <<file, excused>>
       \/ /\ goos # "windows" /\ file[man.dig] = "foreign" /\ NoFault
          /\ pc' = "report" /\ UNCHANGED <<st, made, file, excused>>
    /\ UNCHANGED <<disk, tomb, kept, outside, want, man>>

(* Once the state names the new package, nobody removes another one of the same
   commit that it named before; and the new one is accounted for. *)
Supersedes ==
    LET renamed == disk'.art # disk.art IN
    excused' = (excused \cup (IF renamed THEN {disk.art} \ {None} ELSE {}))
               \ (IF pc' = "idle" /\ file[man.dig] = "good" THEN {man.dig} ELSE {})

(* Mutant: a package that could not be recorded is left where it is. *)
MutSaveStaged ==
    /\ pc = "saveStaged"
    /\ \/ Saved(st) /\ Answer
       \/ SaveFailed(st) /\ pc' = "report" /\ UNCHANGED request
    /\ Supersedes
    /\ UNCHANGED <<file, tomb, kept, outside>>

(* The staged package is recorded, or removed again if this request made it. *)
SaveStaged ==
    /\ pc = "saveStaged"
    /\ \/ Saved(st) /\ Answer
       \/ /\ SaveFailed(st) /\ pc' = IF made = "yes" THEN "undo" ELSE "report"
          /\ UNCHANGED request
    /\ Supersedes
    /\ UNCHANGED <<file, tomb, kept, outside>>

(* rvPersistNativeUpdateError ends a request that failed: load again, drop the
   package if it is not there, save and ignore the result.  A state file that
   cannot be read is replaced, and the package that it named is forgotten. *)
Report ==
    /\ pc = "report" /\ Answer
    /\ \E old \in {disk} \cup (IF "read" \in Failures /\ faults > 0 THEN {Fresh} ELSE {}) :
        LET lost      == old.art # None /\ file[old.art] = "absent"
            s         == IF lost THEN [old EXCEPT !.art = None] ELSE old
            forgotten == IF old = disk THEN {} ELSE {disk.art}
        IN  \/ /\ IF old = disk THEN NoFault ELSE Fault
               /\ disk' = s /\ Excuse(forgotten)
            \/ SaveFailed(s) /\ Excuse(forgotten \cup (IF lost THEN {old.art} ELSE {}))
    /\ UNCHANGED <<file, tomb, kept, outside>>

-----------------------------------------------------------------------------
(* The client ends in the middle of a request and starts again. *)
Crash ==
    /\ pc # "idle" /\ Fault /\ Answer
    /\ tomb' = "none"
    /\ kept' = kept \cup (IF tomb = "none" THEN {} ELSE {[dig |-> Package, bytes |-> tomb]})
    /\ Excuse({disk.art, st.art} \cup (IF man = None THEN {} ELSE {man.dig}))
    /\ UNCHANGED <<disk, file, outside>>

(* The user installs what the state offers, and the new client starts. *)
Install ==
    /\ pc = "idle" /\ disk.art # None /\ file[disk.art] = "good"
    /\ installed' = disk.avail
    /\ UNCHANGED <<store, pc, request, goos, excused, faults, touches>>

(* Somebody deletes a package, or puts other bytes under its name. *)
Touch ==
    /\ touches > 0 /\ touches' = touches - 1
    /\ \E t \in Digests, bytes \in {"absent", "foreign"} :
        /\ file[t] # "foreign" /\ file[t] # bytes
        /\ file' = [file EXCEPT ![t] = bytes]
        /\ Excuse({t})
    /\ UNCHANGED <<disk, tomb, kept, pc, request, installed, goos, faults>>

-----------------------------------------------------------------------------
NativeInit ==
    /\ disk = Fresh /\ file = [t \in Digests |-> "absent"] /\ tomb = "none" /\ kept = {}
    /\ pc = "idle" /\ want = "check" /\ st = Fresh /\ man = None /\ made = "no"
    /\ goos \in {"windows", "unix"}
    /\ installed = Installed /\ excused = {} /\ faults = MaxFaults /\ touches = MaxTouches

Holder == Fetch \/ RemoveVerify \/ RemoveRename \/ RemoveTomb \/ RemoveRestore \/ RemovePutBack
          \/ Save \/ Stage \/ Adopt \/ SaveStaged \/ Report

NativeNext == Begin("check") \/ Begin("download") \/ Holder \/ Crash \/ Install \/ Touch

NativeSpec == NativeInit /\ [][NativeNext]_nativeVars

-----------------------------------------------------------------------------
StateFile == [seq : Nat, seen : Shas \cup {None}, avail : Shas \cup {None},
              art : Digests \cup {None}]

(* The state is well formed, and a tombstone exists only during a removal. *)
NativeTypeOK ==
    /\ disk \in StateFile /\ st \in StateFile /\ man \in Manifests \cup {None}
    /\ file \in [Digests -> {"absent", "good", "foreign"}]
    /\ tomb \in {"none", "good", "foreign"}
    /\ kept \subseteq [dig : Digests, bytes : {"good", "foreign"}]
    /\ pc \in {"idle", "fetch", "clear", "rename", "tomb", "restore", "save", "saveCleared",
              "stage", "adopt", "saveStaged", "undo", "undoRename", "undoTomb", "undoRestore",
              "putBack", "undoPutBack", "report"}
    /\ want \in {"check", "download"} /\ made \in {"yes", "no"} /\ installed \in Shas
    /\ goos \in {"windows", "unix"}
    /\ excused \subseteq Digests /\ faults \in Nat /\ touches \in Nat
    /\ (tomb # "none") <=>
           pc \in {"tomb", "undoTomb", "restore", "undoRestore", "putBack", "undoPutBack"}

(* The signed sequence is monotonic across requests, failed writes and crashes,
   and a sequence never changes its target.  (docs/AUTO-UPDATES.md: "It uses a
   monotonic signed sequence".) *)
SequenceIsMonotone ==
    [][/\ disk.seq <= disk'.seq
       /\ disk.seq = disk'.seq /\ disk.seq # 0 => disk'.seen = disk.seen]_nativeVars

(* What the state offers for installation, at any moment, is a package of the
   commit of the newest manifest that the client has accepted, signed by that one
   or by an earlier one for the same commit: an older signature survives when a
   commit is packaged again. *)
OfferedIsCurrent ==
    disk.art # None =>
        /\ disk.avail = disk.seen
        /\ \E m \in Manifests : m.seq <= disk.seq /\ m.sha = disk.avail /\ m.dig = disk.art

(* Between two requests the packages on disk are the one that the state names:
   no failed write offers a missing package or leaves one behind, also when the
   write took effect.  Excused are the packages of which a crash, somebody else, a
   reported failure, a new package of the same commit or an unreadable state file
   made the controller lose track. *)
FilesMatchState ==
    pc = "idle" => \A t \in Digests \ excused : file[t] = "good" <=> disk.art = t

(* Without failures and interventions no package is left behind at all.  (The test
   of the supersede path: a download must retire the old target "to prevent
   orphaned packages".) *)
NothingLeftBehind ==
    pc = "idle" /\ faults = MaxFaults /\ touches = MaxTouches =>
        \A t \in Digests : file[t] = "good" => disk.art = t

(* Bytes that the controller did not verify are never destroyed, although they
   may appear between the verification and the removal.  (RemoveVerifiedArtifact:
   "a concurrent replacement is restored rather than removed".)  The exception is
   os.Rename on Windows, over bytes that appeared after it was seen that there
   were none. *)
Foreign(t) ==
    \/ file[t] = "foreign"
    \/ tomb = "foreign" /\ t = Package
    \/ [dig |-> t, bytes |-> "foreign"] \in kept
RenamesOver(t) ==
    /\ goos = "windows"
    /\ \/ pc = "adopt" /\ t = man.dig
       \/ pc \in {"putBack", "undoPutBack"} /\ t = Package
ForeignIsPreserved ==
    [][\A t \in Digests : Foreign(t) => Foreign(t)' \/ RenamesOver(t)]_nativeVars

(* The same without the exception, which the comment of adoptNoClobber claims:
   "Windows os.Rename already refuses to replace an existing destination". *)
NothingIsClobbered == [][\A t \in Digests : Foreign(t) => Foreign(t)']_nativeVars
=============================================================================
