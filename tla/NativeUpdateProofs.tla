--------------------------- MODULE NativeUpdateProofs ---------------------------
(***************************************************************************)
(* Proofs about NativeUpdate, for any set of signed manifests and any      *)
(* number of faults, crashes and interventions of others.                  *)
(***************************************************************************)
EXTENDS NativeUpdate, TLAPS

Clearing == {"clear", "rename", "tomb", "restore", "putBack"}
Staging  == {"saveCleared", "stage", "adopt", "saveStaged"}

(* What a request knows of its manifest: there is one, with a package for this
   platform where one is needed, and the State in hand was made from it. *)
RequestInv ==
    /\ pc = "fetch" => st = disk
    /\ pc \in Clearing => st.art # None
    /\ pc \in Clearing \cup Staging \cup {"save"} =>
           /\ man \in Manifests /\ st.seq = man.seq /\ st.seen = man.sha
           /\ st.avail = IF man.sha = installed THEN None ELSE man.sha
           /\ man.sha # installed => man.dig # None
    /\ pc \in Staging => man.sha # installed
    /\ Undoing => man \in Manifests /\ man.dig # None
    /\ disk.art # None => disk.avail # None
    /\ pc \in Staging \cup {"save"} /\ st.art # None => st.avail # None

(* The State in hand is not older than the file, and a sequence has a target. *)
SequenceInv ==
    /\ disk.seq # 0 => disk.seen # None
    /\ pc \in Clearing \cup Staging \cup {"save"} =>
           disk.seq <= st.seq /\ (disk.seq = st.seq /\ disk.seq # 0 => st.seen = disk.seen)

(* A state offers a package of its newest target that it has seen signed. *)
Offers(s) ==
    s.art # None =>
        /\ s.avail = s.seen
        /\ \E m \in Manifests : m.seq <= s.seq /\ m.sha = s.avail /\ m.dig = s.art

(* The file does, and the State in hand once the obsolete package is gone. *)
OfferInv ==
    /\ Offers(disk)
    /\ pc \in Staging \cup {"save"} => Offers(st)

(* Foreign bytes are excused, wherever a removal has put them. *)
ForeignInv ==
    /\ \A t \in Digests : file[t] = "foreign" => t \in excused
    /\ tomb = "foreign" => Package \in excused

(* What a request has done to the package t since its state was read: it removes
   the package of the file, and it adds the one of its manifest. *)
FileInv(t) ==
    LET good == file[t] = "good" IN
    /\ pc \in {"idle", "fetch", "clear", "rename", "stage", "adopt"} => (good <=> disk.art = t)
    /\ pc \in {"tomb", "restore", "putBack"} => ~good
    /\ pc \in {"save", "saveCleared"} => (good <=> st.art = t) /\ (good => disk.art = t)
    /\ pc = "adopt" => t # man.dig \/ ~good
    /\ pc \in {"saveStaged", "undo", "undoRename"} => (good <=> t \in {man.dig, disk.art})
    /\ pc = "saveStaged" /\ made = "no" /\ man.dig = t => disk.art = t
    /\ pc \in {"undoTomb", "undoRestore", "undoPutBack", "report"} => (good => disk.art = t)

(* The package of the file during a request, and every package's bytes. *)
FilesInv ==
    /\ ForeignInv
    /\ pc \in Clearing \cup {"stage", "adopt"} => st.art = disk.art
    /\ pc = "saveCleared" => st.art = None
    /\ pc = "saveStaged" \/ Undoing => st.art = man.dig
    /\ \A t \in Digests \ excused : FileInv(t)

NativeInv == NativeTypeOK /\ RequestInv /\ SequenceInv

-----------------------------------------------------------------------------
(* What the sets of targets and packages are. *)
LEMMA ManifestFacts ==
    /\ None \notin Digests /\ None \notin Shas /\ Installed \in Shas
    /\ \A m \in Manifests :
           /\ m.seq \in Nat /\ m.seq # 0 /\ m.sha \in Shas /\ m.sha # None
           /\ m.dig # None => m.dig \in Digests
           /\ m = [seq |-> m.seq, sha |-> m.sha, dig |-> m.dig]
    /\ Fresh \in StateFile
BY NativeAssumption DEF Digests, Shas, Fresh, StateFile

(* The client's store before the first check for updates. *)
LEMMA NativeInitInv ==
    NativeInit => NativeInv /\ OfferInv
<1> SUFFICES ASSUME NativeInit PROVE NativeInv /\ OfferInv
  OBVIOUS
<1>1. NativeTypeOK
  BY ManifestFacts, NativeAssumption DEF NativeInit, NativeTypeOK
<1>2. RequestInv /\ SequenceInv /\ OfferInv
  BY DEF NativeInit, RequestInv, SequenceInv, OfferInv, Offers, Fresh,
         Clearing, Staging, Undoing
<1> QED
  BY <1>1, <1>2 DEF NativeInv

(* Every step preserves the types and what a request knows. *)
LEMMA NativeNextInv ==
    NativeInv /\ [NativeNext]_nativeVars => NativeInv'
<1> SUFFICES ASSUME NativeInv, [NativeNext]_nativeVars PROVE NativeInv'
  OBVIOUS
<1> USE DEF Fault, NoFault, Excuse, Undoing, Package, Clearing, Staging, store, request, outside
<1>0. NativeTypeOK /\ RequestInv /\ SequenceInv
  BY DEF NativeInv
<1>1. ASSUME NEW kind \in {"check", "download"}, Begin(kind) PROVE NativeInv'
  <2>1. NativeTypeOK'
    BY <1>0, <1>1, ManifestFacts, NativeAssumption DEF Begin, NativeTypeOK, StateFile, RequestInv
  <2>2. RequestInv'
    BY <1>0, <1>1, ManifestFacts DEF Begin, NativeTypeOK, StateFile, RequestInv
  <2>3. SequenceInv'
    BY <1>0, <1>1, ManifestFacts DEF Begin, NativeTypeOK, StateFile, RequestInv, SequenceInv
  <2> QED
    BY <2>1, <2>2, <2>3 DEF NativeInv
<1>2. CASE Fetch
  <2>1. CASE pc' = "report" /\ UNCHANGED <<st, man>>
    <3>1. NativeTypeOK'
      BY <1>0, <1>2, <2>1 DEF Fetch, NativeTypeOK
    <3>2. RequestInv' /\ SequenceInv'
      BY <1>0, <1>2, <2>1 DEF Fetch, RequestInv, SequenceInv
    <3> QED
      BY <3>1, <3>2 DEF NativeInv
  <2>2. ASSUME NEW m \in Manifests, Fetched(m) PROVE NativeInv'
    <3>1. /\ st' \in StateFile /\ st'.art = st.art /\ st'.seq = m.seq /\ st'.seen = m.sha
          /\ st'.avail = IF m.sha = installed THEN None ELSE m.sha
      BY <1>0, <2>2, ManifestFacts DEF Fetched, NativeTypeOK, StateFile
    <3>2. pc' \in {"report", "clear", "stage", "save"}
      BY <2>2 DEF Fetched
    <3>3. NativeTypeOK'
      BY <1>0, <1>2, <2>2, <3>1, <3>2 DEF Fetch, Fetched, NativeTypeOK
    <3>4. RequestInv'
      BY <1>0, <1>2, <2>2, <3>1, <3>2, ManifestFacts DEF Fetch, Fetched, Obsolete, RequestInv
    <3>5. ASSUME pc' # "report"
          PROVE  disk.seq <= m.seq /\ (disk.seq = m.seq => disk.seen = m.sha)
      <4>1. st = disk /\ ~Rejected(m) /\ disk.seq \in Nat /\ m.seq \in Nat \ {0}
        BY <1>0, <1>2, <2>2, <3>5, ManifestFacts
        DEF Fetch, Fetched, RequestInv, NativeTypeOK, StateFile
      <4> QED
        BY <1>0, <4>1 DEF Rejected, SequenceInv
    <3>6. SequenceInv'
      BY <1>0, <1>2, <3>1, <3>2, <3>5 DEF Fetch, SequenceInv
    <3> QED
      BY <3>3, <3>4, <3>6 DEF NativeInv
  <2> QED
    BY <1>2, <2>1, <2>2 DEF Fetch
<1>3. CASE RemoveVerify
  <2>1. NativeTypeOK'
    BY <1>0, <1>3, ManifestFacts, NativeAssumption
    DEF RemoveVerify, At, GoTo, Removed, NotRemoved, NativeTypeOK, StateFile, RequestInv
  <2>2. RequestInv'
    BY <1>0, <1>3, ManifestFacts
    DEF RemoveVerify, At, GoTo, Removed, NotRemoved, NativeTypeOK, StateFile, RequestInv
  <2>3. SequenceInv'
    BY <1>0, <1>3, ManifestFacts
    DEF RemoveVerify, At, GoTo, Removed, NotRemoved, NativeTypeOK, StateFile, RequestInv,
        SequenceInv
  <2> QED
    BY <2>1, <2>2, <2>3 DEF NativeInv
<1>4. CASE RemoveRename
  <2>1. NativeTypeOK'
    BY <1>0, <1>4, ManifestFacts, NativeAssumption
    DEF RemoveRename, At, GoTo, Removed, NativeTypeOK, StateFile, RequestInv
  <2>2. RequestInv'
    BY <1>0, <1>4, ManifestFacts
    DEF RemoveRename, At, GoTo, Removed, NativeTypeOK, StateFile, RequestInv
  <2>3. SequenceInv'
    BY <1>0, <1>4, ManifestFacts
    DEF RemoveRename, At, GoTo, Removed, NativeTypeOK, StateFile, RequestInv, SequenceInv
  <2> QED
    BY <2>1, <2>2, <2>3 DEF NativeInv
<1>5. CASE RemoveTomb
  <2>1. NativeTypeOK'
    BY <1>0, <1>5, ManifestFacts, NativeAssumption
    DEF RemoveTomb, At, GoTo, Removed, NativeTypeOK, StateFile, RequestInv
  <2>2. RequestInv'
    BY <1>0, <1>5, ManifestFacts
    DEF RemoveTomb, At, GoTo, Removed, NativeTypeOK, StateFile, RequestInv
  <2>3. SequenceInv'
    BY <1>0, <1>5, ManifestFacts
    DEF RemoveTomb, At, GoTo, Removed, NativeTypeOK, StateFile, RequestInv, SequenceInv
  <2> QED
    BY <2>1, <2>2, <2>3 DEF NativeInv
<1>6. CASE RemoveRestore
  <2>1. NativeTypeOK'
    BY <1>0, <1>6, ManifestFacts, NativeAssumption
    DEF RemoveRestore, At, GoTo, Keep, NotRemoved, NativeTypeOK, StateFile, RequestInv
  <2>2. RequestInv'
    BY <1>0, <1>6, ManifestFacts
    DEF RemoveRestore, At, GoTo, Keep, NotRemoved, NativeTypeOK, StateFile, RequestInv
  <2>3. SequenceInv'
    BY <1>0, <1>6, ManifestFacts
    DEF RemoveRestore, At, GoTo, Keep, NotRemoved, NativeTypeOK, StateFile, RequestInv,
        SequenceInv
  <2> QED
    BY <2>1, <2>2, <2>3 DEF NativeInv
<1>7. CASE RemovePutBack
  <2>1. NativeTypeOK'
    BY <1>0, <1>7, ManifestFacts, NativeAssumption
    DEF RemovePutBack, At, Keep, NotRemoved, NativeTypeOK, StateFile, RequestInv
  <2>2. RequestInv'
    BY <1>0, <1>7, ManifestFacts
    DEF RemovePutBack, At, Keep, NotRemoved, NativeTypeOK, StateFile, RequestInv
  <2>3. SequenceInv'
    BY <1>0, <1>7, ManifestFacts
    DEF RemovePutBack, At, Keep, NotRemoved, NativeTypeOK, StateFile, RequestInv, SequenceInv
  <2> QED
    BY <2>1, <2>2, <2>3 DEF NativeInv
<1>8. CASE Save
  <2>1. NativeTypeOK'
    BY <1>0, <1>8, ManifestFacts, NativeAssumption
    DEF Save, Saved, SaveFailed, Answer, Fresh, NativeTypeOK, StateFile, RequestInv
  <2>2. RequestInv'
    BY <1>0, <1>8, ManifestFacts
    DEF Save, Saved, SaveFailed, Answer, Fresh, NativeTypeOK, StateFile, RequestInv
  <2>3. SequenceInv'
    BY <1>0, <1>8, ManifestFacts
    DEF Save, Saved, SaveFailed, Answer, Fresh, NativeTypeOK, StateFile, RequestInv, SequenceInv
  <2> QED
    BY <2>1, <2>2, <2>3 DEF NativeInv
<1>9. CASE Stage
  <2>1. NativeTypeOK'
    BY <1>0, <1>9, ManifestFacts, NativeAssumption
    DEF Stage, Staged, NativeTypeOK, StateFile, RequestInv
  <2>2. RequestInv'
    BY <1>0, <1>9, ManifestFacts
    DEF Stage, Staged, NativeTypeOK, StateFile, RequestInv
  <2>3. SequenceInv'
    BY <1>0, <1>9, ManifestFacts
    DEF Stage, Staged, NativeTypeOK, StateFile, RequestInv, SequenceInv
  <2> QED
    BY <2>1, <2>2, <2>3 DEF NativeInv
<1>10. CASE Adopt
  <2>1. NativeTypeOK'
    BY <1>0, <1>10, ManifestFacts, NativeAssumption
    DEF Adopt, Staged, NativeTypeOK, StateFile, RequestInv
  <2>2. RequestInv'
    BY <1>0, <1>10, ManifestFacts
    DEF Adopt, Staged, NativeTypeOK, StateFile, RequestInv
  <2>3. SequenceInv'
    BY <1>0, <1>10, ManifestFacts
    DEF Adopt, Staged, NativeTypeOK, StateFile, RequestInv, SequenceInv
  <2> QED
    BY <2>1, <2>2, <2>3 DEF NativeInv
<1>11. CASE SaveStaged
  <2>1. NativeTypeOK'
    BY <1>0, <1>11, ManifestFacts, NativeAssumption
    DEF SaveStaged, Saved, SaveFailed, Supersedes, Answer, Fresh, NativeTypeOK, StateFile,
        RequestInv
  <2>2. RequestInv'
    BY <1>0, <1>11, ManifestFacts
    DEF SaveStaged, Saved, SaveFailed, Supersedes, Answer, Fresh, NativeTypeOK, StateFile,
        RequestInv
  <2>3. SequenceInv'
    BY <1>0, <1>11, ManifestFacts
    DEF SaveStaged, Saved, SaveFailed, Supersedes, Answer, Fresh, NativeTypeOK, StateFile,
        RequestInv, SequenceInv
  <2> QED
    BY <2>1, <2>2, <2>3 DEF NativeInv
<1>12. CASE Report
  <2>1. NativeTypeOK'
    BY <1>0, <1>12, ManifestFacts, NativeAssumption
    DEF Report, SaveFailed, Answer, Fresh, NativeTypeOK, StateFile, RequestInv
  <2>2. RequestInv'
    BY <1>0, <1>12, ManifestFacts
    DEF Report, SaveFailed, Answer, Fresh, NativeTypeOK, StateFile, RequestInv
  <2>3. SequenceInv'
    BY <1>0, <1>12, ManifestFacts
    DEF Report, SaveFailed, Answer, Fresh, NativeTypeOK, StateFile, RequestInv, SequenceInv
  <2> QED
    BY <2>1, <2>2, <2>3 DEF NativeInv
<1>13. CASE Crash
  <2>1. NativeTypeOK'
    BY <1>0, <1>13, ManifestFacts, NativeAssumption
    DEF Crash, Answer, Fresh, NativeTypeOK, StateFile, RequestInv
  <2>2. RequestInv'
    BY <1>0, <1>13, ManifestFacts
    DEF Crash, Answer, Fresh, NativeTypeOK, StateFile, RequestInv
  <2>3. SequenceInv'
    BY <1>0, <1>13, ManifestFacts
    DEF Crash, Answer, Fresh, NativeTypeOK, StateFile, RequestInv, SequenceInv
  <2> QED
    BY <2>1, <2>2, <2>3 DEF NativeInv
<1>14. CASE Install
  <2>1. NativeTypeOK'
    BY <1>0, <1>14, ManifestFacts, NativeAssumption
    DEF Install, NativeTypeOK, StateFile, RequestInv
  <2>2. RequestInv'
    BY <1>0, <1>14, ManifestFacts
    DEF Install, NativeTypeOK, StateFile, RequestInv
  <2>3. SequenceInv'
    BY <1>0, <1>14, ManifestFacts
    DEF Install, NativeTypeOK, StateFile, RequestInv, SequenceInv
  <2> QED
    BY <2>1, <2>2, <2>3 DEF NativeInv
<1>15. CASE Touch
  <2>1. NativeTypeOK'
    BY <1>0, <1>15, ManifestFacts, NativeAssumption
    DEF Touch, NativeTypeOK, StateFile, RequestInv
  <2>2. RequestInv'
    BY <1>0, <1>15, ManifestFacts
    DEF Touch, NativeTypeOK, StateFile, RequestInv
  <2>3. SequenceInv'
    BY <1>0, <1>15, ManifestFacts
    DEF Touch, NativeTypeOK, StateFile, RequestInv, SequenceInv
  <2> QED
    BY <2>1, <2>2, <2>3 DEF NativeInv
<1>16. CASE UNCHANGED nativeVars
  BY <1>0, <1>16 DEF nativeVars, NativeInv, NativeTypeOK, RequestInv, SequenceInv
<1> QED
  BY <1>1, <1>2, <1>3, <1>4, <1>5, <1>6, <1>7, <1>8, <1>9, <1>10, <1>11, <1>12, <1>13, <1>14,
     <1>15, <1>16
  DEF NativeNext, Holder

(* What a step leaves as it is, or offers rightly, is offered rightly. *)
LEMMA OfferStep ==
    ASSUME OfferInv,
           disk' = disk \/ Offers(disk'),
           pc' \in Staging \cup {"save"} =>
               (pc \in Staging \cup {"save"} /\ st' = st) \/ Offers(st')
    PROVE  OfferInv'
BY DEF OfferInv, Offers

(* Every step keeps what is offered current. *)
LEMMA OfferNextInv ==
    NativeInv /\ OfferInv /\ [NativeNext]_nativeVars => OfferInv'
<1> SUFFICES ASSUME NativeInv, OfferInv, [NativeNext]_nativeVars PROVE OfferInv'
  OBVIOUS
<1> USE DEF Fault, NoFault, Excuse, Undoing, Package, Clearing, Staging, store, request, outside
<1>0. NativeTypeOK /\ RequestInv /\ SequenceInv /\ disk.seq \in Nat
  BY DEF NativeInv, NativeTypeOK, StateFile
<1>1. ASSUME NEW kind \in {"check", "download"}, Begin(kind) PROVE OfferInv'
  BY <1>1, OfferStep DEF Begin
<1>2. CASE Fetch
  <2>1. CASE pc' = "report" /\ UNCHANGED <<st, man>>
    BY <1>2, <2>1, OfferStep DEF Fetch
  <2>2. ASSUME NEW m \in Manifests, Fetched(m) PROVE OfferInv'
    <3>1. /\ st'.art = disk.art /\ st'.seq = m.seq /\ st'.seen = m.sha /\ st = disk
          /\ st'.avail = IF m.sha = installed THEN None ELSE m.sha
      BY <1>0, <1>2, <2>2 DEF Fetch, Fetched, NativeTypeOK, StateFile, RequestInv
    <3>2. ASSUME pc' \in {"stage", "save"}, st'.art # None PROVE Offers(st')
      <4>1. ~Obsolete(m) /\ ~Rejected(m)
        BY <2>2, <3>2 DEF Fetched
      <4>2. m.sha = disk.avail /\ m.sha # installed
        BY <3>1, <3>2, <4>1 DEF Obsolete
      <4>3. PICK n \in Manifests : n.seq <= disk.seq /\ n.sha = disk.avail /\ n.dig = disk.art
        BY <3>1, <3>2 DEF OfferInv, Offers
      <4>4. n.seq <= m.seq
        BY <1>0, <3>1, <4>1, <4>3, ManifestFacts DEF Rejected
      <4> QED
        BY <3>1, <4>2, <4>3, <4>4 DEF Offers
    <3>3. pc' \in {"report", "clear", "stage", "save"}
      BY <2>2 DEF Fetched
    <3> QED
      BY <1>2, <3>1, <3>2, <3>3, OfferStep DEF Fetch, Offers
  <2> QED
    BY <1>2, <2>1, <2>2 DEF Fetch
<1>3. CASE RemoveVerify
  <2>1. /\ disk' = disk
        /\ pc' \in Staging \cup {"save"} => st' = [st EXCEPT !.art = None]
    BY <1>3
    DEF RemoveVerify, At, GoTo, Removed, NotRemoved
  <2>2. pc' \in Staging \cup {"save"} => Offers(st')
    BY <1>0, <2>1 DEF Offers, NativeTypeOK, StateFile
  <2> QED
    BY <2>1, <2>2, OfferStep
<1>4. CASE RemoveRename
  <2>1. /\ disk' = disk
        /\ pc' \in Staging \cup {"save"} => st' = [st EXCEPT !.art = None]
    BY <1>4
    DEF RemoveRename, At, GoTo, Removed
  <2>2. pc' \in Staging \cup {"save"} => Offers(st')
    BY <1>0, <2>1 DEF Offers, NativeTypeOK, StateFile
  <2> QED
    BY <2>1, <2>2, OfferStep
<1>5. CASE RemoveTomb
  <2>1. /\ disk' = disk
        /\ pc' \in Staging \cup {"save"} => st' = [st EXCEPT !.art = None]
    BY <1>5
    DEF RemoveTomb, At, GoTo, Removed
  <2>2. pc' \in Staging \cup {"save"} => Offers(st')
    BY <1>0, <2>1 DEF Offers, NativeTypeOK, StateFile
  <2> QED
    BY <2>1, <2>2, OfferStep
<1>6. CASE RemoveRestore
  BY <1>6, OfferStep DEF RemoveRestore, At, GoTo, Keep, NotRemoved
<1>7. CASE RemovePutBack
  BY <1>7, OfferStep DEF RemovePutBack, At, Keep, NotRemoved
<1>8. CASE Save
  <2>1. Offers(st) /\ disk' \in {disk, st}
    BY <1>8 DEF Save, Saved, SaveFailed, OfferInv
  <2>2. pc' \in Staging \cup {"save"} => pc \in Staging \cup {"save"} /\ st' = st
    BY <1>8 DEF Save, Answer
  <2> QED
    BY <2>1, <2>2, OfferStep
<1>9. CASE Stage
  <2>1. CASE pc' # "saveStaged"
    BY <1>9, <2>1, OfferStep DEF Stage, Staged
  <2>2. CASE pc' = "saveStaged"
    <3>1. /\ disk' = disk /\ man \in Manifests /\ st' = [st EXCEPT !.art = man.dig]
          /\ st.seq = man.seq /\ st.seen = man.sha /\ st.avail = man.sha
      BY <1>0, <1>9, <2>2 DEF Stage, Staged, RequestInv
    <3>2. st'.art = man.dig /\ st'.seq = man.seq /\ st'.seen = man.sha /\ st'.avail = man.sha
      BY <1>0, <3>1 DEF NativeTypeOK, StateFile
    <3>3. Offers(st')
      BY <3>1, <3>2, ManifestFacts DEF Offers
    <3> QED
      BY <3>1, <3>3, OfferStep
  <2> QED
    BY <2>1, <2>2
<1>10. CASE Adopt
  <2>1. CASE pc' # "saveStaged"
    BY <1>10, <2>1, OfferStep DEF Adopt, Staged
  <2>2. CASE pc' = "saveStaged"
    <3>1. /\ disk' = disk /\ man \in Manifests /\ st' = [st EXCEPT !.art = man.dig]
          /\ st.seq = man.seq /\ st.seen = man.sha /\ st.avail = man.sha
      BY <1>0, <1>10, <2>2 DEF Adopt, Staged, RequestInv
    <3>2. st'.art = man.dig /\ st'.seq = man.seq /\ st'.seen = man.sha /\ st'.avail = man.sha
      BY <1>0, <3>1 DEF NativeTypeOK, StateFile
    <3>3. Offers(st')
      BY <3>1, <3>2, ManifestFacts DEF Offers
    <3> QED
      BY <3>1, <3>3, OfferStep
  <2> QED
    BY <2>1, <2>2
<1>11. CASE SaveStaged
  <2>1. Offers(st) /\ disk' \in {disk, st}
    BY <1>11 DEF SaveStaged, Saved, SaveFailed, OfferInv
  <2>2. pc' \in Staging \cup {"save"} => pc \in Staging \cup {"save"} /\ st' = st
    BY <1>11 DEF SaveStaged, Answer
  <2> QED
    BY <2>1, <2>2, OfferStep
<1>12. CASE Report
  <2>1. disk' \in {disk, [disk EXCEPT !.art = None], Fresh} /\ pc' = "idle"
    BY <1>12 DEF Report, SaveFailed, Answer, Fresh
  <2>2. disk' = disk \/ Offers(disk')
    BY <1>0, <2>1 DEF Offers, Fresh, NativeTypeOK, StateFile
  <2> QED
    BY <2>1, <2>2, OfferStep
<1>13. CASE Crash
  BY <1>13, OfferStep DEF Crash, Answer
<1>14. CASE Install
  BY <1>14, OfferStep DEF Install
<1>15. CASE Touch
  BY <1>15, OfferStep DEF Touch
<1>16. CASE UNCHANGED nativeVars
  BY <1>16, OfferStep DEF nativeVars
<1> QED
  BY <1>1, <1>2, <1>3, <1>4, <1>5, <1>6, <1>7, <1>8, <1>9, <1>10, <1>11, <1>12, <1>13, <1>14,
     <1>15, <1>16
  DEF NativeNext, Holder

(* Every step keeps the packages and the state together, but for the excused. *)
LEMMA FilesNextInv ==
    NativeInv /\ FilesInv /\ [NativeNext]_nativeVars => FilesInv'
<1> SUFFICES ASSUME NativeInv, FilesInv, [NativeNext]_nativeVars PROVE FilesInv'
  OBVIOUS
<1> USE DEF Fault, NoFault, Excuse, Undoing, Package, Clearing, Staging, store, request, outside
<1>0. NativeTypeOK /\ RequestInv
  BY DEF NativeInv
<1>1. ASSUME NEW kind \in {"check", "download"}, Begin(kind) PROVE FilesInv'
  BY <1>0, <1>1, ManifestFacts DEF Begin, NativeTypeOK, RequestInv, FilesInv, ForeignInv, FileInv
<1>2. CASE Fetch
  <2>1. CASE pc' = "report" /\ UNCHANGED <<st, man>>
    BY <1>2, <2>1 DEF Fetch, FilesInv, ForeignInv, FileInv, NativeTypeOK
  <2>2. ASSUME NEW m \in Manifests, Fetched(m) PROVE FilesInv'
    <3>1. st = disk /\ st'.art = disk.art /\ UNCHANGED <<store, excused>>
      BY <1>0, <1>2, <2>2 DEF Fetch, Fetched, NativeTypeOK, StateFile, RequestInv
    <3>2. pc = "fetch" /\ pc' \in {"report", "clear", "stage", "save"}
      BY <1>2, <2>2 DEF Fetch, Fetched
    <3> QED
      BY <1>0, <3>1, <3>2 DEF FilesInv, ForeignInv, FileInv, NativeTypeOK
  <2> QED
    BY <1>2, <2>1, <2>2 DEF Fetch
<1>3. CASE RemoveVerify
  <2>1. ForeignInv'
    BY <1>0, <1>3, ManifestFacts
    DEF RemoveVerify, At, GoTo, Removed, NotRemoved, NativeTypeOK, StateFile, RequestInv,
        FilesInv, ForeignInv, FileInv
  <2>2. /\ pc' \in Clearing \cup {"stage", "adopt"} => st'.art = disk'.art
        /\ pc' = "saveCleared" => st'.art = None
        /\ pc' = "saveStaged" \/ Undoing' => st'.art = man'.dig
    BY <1>0, <1>3, ManifestFacts
    DEF RemoveVerify, At, GoTo, Removed, NotRemoved, NativeTypeOK, StateFile, RequestInv, FilesInv
  <2>3. ASSUME NEW t \in Digests, t \notin excused' PROVE FileInv(t)'
    BY <1>0, <1>3, <2>3, ManifestFacts
    DEF RemoveVerify, At, GoTo, Removed, NotRemoved, NativeTypeOK, StateFile, RequestInv,
        FilesInv, ForeignInv, FileInv
  <2> QED
    BY <2>1, <2>2, <2>3 DEF FilesInv
<1>4. CASE RemoveRename
  <2>1. ForeignInv'
    BY <1>0, <1>4, ManifestFacts
    DEF RemoveRename, At, GoTo, Removed, NativeTypeOK, StateFile, RequestInv, FilesInv,
        ForeignInv, FileInv
  <2>2. /\ pc' \in Clearing \cup {"stage", "adopt"} => st'.art = disk'.art
        /\ pc' = "saveCleared" => st'.art = None
        /\ pc' = "saveStaged" \/ Undoing' => st'.art = man'.dig
    BY <1>0, <1>4, ManifestFacts
    DEF RemoveRename, At, GoTo, Removed, NativeTypeOK, StateFile, RequestInv, FilesInv
  <2>3. ASSUME NEW t \in Digests, t \notin excused' PROVE FileInv(t)'
    BY <1>0, <1>4, <2>3, ManifestFacts
    DEF RemoveRename, At, GoTo, Removed, NativeTypeOK, StateFile, RequestInv, FilesInv,
        ForeignInv, FileInv
  <2> QED
    BY <2>1, <2>2, <2>3 DEF FilesInv
<1>5. CASE RemoveTomb
  <2>1. ForeignInv'
    BY <1>0, <1>5, ManifestFacts
    DEF RemoveTomb, At, GoTo, Removed, NativeTypeOK, StateFile, RequestInv, FilesInv, ForeignInv,
        FileInv
  <2>2. /\ pc' \in Clearing \cup {"stage", "adopt"} => st'.art = disk'.art
        /\ pc' = "saveCleared" => st'.art = None
        /\ pc' = "saveStaged" \/ Undoing' => st'.art = man'.dig
    BY <1>0, <1>5, ManifestFacts
    DEF RemoveTomb, At, GoTo, Removed, NativeTypeOK, StateFile, RequestInv, FilesInv
  <2>3. ASSUME NEW t \in Digests, t \notin excused' PROVE FileInv(t)'
    BY <1>0, <1>5, <2>3, ManifestFacts
    DEF RemoveTomb, At, GoTo, Removed, NativeTypeOK, StateFile, RequestInv, FilesInv, ForeignInv,
        FileInv
  <2> QED
    BY <2>1, <2>2, <2>3 DEF FilesInv
<1>6. CASE RemoveRestore
  <2>1. ForeignInv'
    BY <1>0, <1>6, ManifestFacts
    DEF RemoveRestore, At, GoTo, Keep, NotRemoved, NativeTypeOK, StateFile, RequestInv, FilesInv,
        ForeignInv, FileInv
  <2>2. /\ pc' \in Clearing \cup {"stage", "adopt"} => st'.art = disk'.art
        /\ pc' = "saveCleared" => st'.art = None
        /\ pc' = "saveStaged" \/ Undoing' => st'.art = man'.dig
    BY <1>0, <1>6, ManifestFacts
    DEF RemoveRestore, At, GoTo, Keep, NotRemoved, NativeTypeOK, StateFile, RequestInv, FilesInv
  <2>3. ASSUME NEW t \in Digests, t \notin excused' PROVE FileInv(t)'
    BY <1>0, <1>6, <2>3, ManifestFacts
    DEF RemoveRestore, At, GoTo, Keep, NotRemoved, NativeTypeOK, StateFile, RequestInv, FilesInv,
        ForeignInv, FileInv
  <2> QED
    BY <2>1, <2>2, <2>3 DEF FilesInv
<1>7. CASE RemovePutBack
  <2>1. ForeignInv'
    BY <1>0, <1>7, ManifestFacts
    DEF RemovePutBack, At, Keep, NotRemoved, NativeTypeOK, StateFile, RequestInv, FilesInv,
        ForeignInv, FileInv
  <2>2. /\ pc' \in Clearing \cup {"stage", "adopt"} => st'.art = disk'.art
        /\ pc' = "saveCleared" => st'.art = None
        /\ pc' = "saveStaged" \/ Undoing' => st'.art = man'.dig
    BY <1>0, <1>7, ManifestFacts
    DEF RemovePutBack, At, Keep, NotRemoved, NativeTypeOK, StateFile, RequestInv, FilesInv
  <2>3. ASSUME NEW t \in Digests, t \notin excused' PROVE FileInv(t)'
    BY <1>0, <1>7, <2>3, ManifestFacts
    DEF RemovePutBack, At, Keep, NotRemoved, NativeTypeOK, StateFile, RequestInv, FilesInv,
        ForeignInv, FileInv
  <2> QED
    BY <2>1, <2>2, <2>3 DEF FilesInv
<1>8. CASE Save
  <2>1. ForeignInv'
    BY <1>0, <1>8, ManifestFacts
    DEF Save, Saved, SaveFailed, Answer, Fresh, NativeTypeOK, StateFile, RequestInv, FilesInv,
        ForeignInv, FileInv
  <2>2. /\ pc' \in Clearing \cup {"stage", "adopt"} => st'.art = disk'.art
        /\ pc' = "saveCleared" => st'.art = None
        /\ pc' = "saveStaged" \/ Undoing' => st'.art = man'.dig
    BY <1>0, <1>8, ManifestFacts
    DEF Save, Saved, SaveFailed, Answer, Fresh, NativeTypeOK, StateFile, RequestInv, FilesInv
  <2>3. ASSUME NEW t \in Digests, t \notin excused' PROVE FileInv(t)'
    BY <1>0, <1>8, <2>3, ManifestFacts
    DEF Save, Saved, SaveFailed, Answer, Fresh, NativeTypeOK, StateFile, RequestInv, FilesInv,
        ForeignInv, FileInv
  <2> QED
    BY <2>1, <2>2, <2>3 DEF FilesInv
<1>9. CASE Stage
  <2>1. ForeignInv'
    BY <1>0, <1>9, ManifestFacts
    DEF Stage, Staged, NativeTypeOK, StateFile, RequestInv, FilesInv, ForeignInv, FileInv
  <2>2. /\ pc' \in Clearing \cup {"stage", "adopt"} => st'.art = disk'.art
        /\ pc' = "saveCleared" => st'.art = None
        /\ pc' = "saveStaged" \/ Undoing' => st'.art = man'.dig
    BY <1>0, <1>9, ManifestFacts
    DEF Stage, Staged, NativeTypeOK, StateFile, RequestInv, FilesInv
  <2>3. ASSUME NEW t \in Digests, t \notin excused' PROVE FileInv(t)'
    BY <1>0, <1>9, <2>3, ManifestFacts
    DEF Stage, Staged, NativeTypeOK, StateFile, RequestInv, FilesInv, ForeignInv, FileInv
  <2> QED
    BY <2>1, <2>2, <2>3 DEF FilesInv
<1>10. CASE Adopt
  <2>1. ForeignInv'
    BY <1>0, <1>10, ManifestFacts
    DEF Adopt, Staged, NativeTypeOK, StateFile, RequestInv, FilesInv, ForeignInv, FileInv
  <2>2. /\ pc' \in Clearing \cup {"stage", "adopt"} => st'.art = disk'.art
        /\ pc' = "saveCleared" => st'.art = None
        /\ pc' = "saveStaged" \/ Undoing' => st'.art = man'.dig
    BY <1>0, <1>10, ManifestFacts
    DEF Adopt, Staged, NativeTypeOK, StateFile, RequestInv, FilesInv
  <2>3. ASSUME NEW t \in Digests, t \notin excused' PROVE FileInv(t)'
    BY <1>0, <1>10, <2>3, ManifestFacts
    DEF Adopt, Staged, NativeTypeOK, StateFile, RequestInv, FilesInv, ForeignInv, FileInv
  <2> QED
    BY <2>1, <2>2, <2>3 DEF FilesInv
<1>11. CASE SaveStaged
  <2>1. ForeignInv'
    BY <1>0, <1>11, ManifestFacts
    DEF SaveStaged, Saved, SaveFailed, Supersedes, Answer, Fresh, NativeTypeOK, StateFile,
        RequestInv, FilesInv, ForeignInv, FileInv
  <2>2. /\ pc' \in Clearing \cup {"stage", "adopt"} => st'.art = disk'.art
        /\ pc' = "saveCleared" => st'.art = None
        /\ pc' = "saveStaged" \/ Undoing' => st'.art = man'.dig
    BY <1>0, <1>11, ManifestFacts
    DEF SaveStaged, Saved, SaveFailed, Supersedes, Answer, Fresh, NativeTypeOK, StateFile,
        RequestInv, FilesInv
  <2>3. ASSUME NEW t \in Digests, t \notin excused' PROVE FileInv(t)'
    BY <1>0, <1>11, <2>3, ManifestFacts
    DEF SaveStaged, Saved, SaveFailed, Supersedes, Answer, Fresh, NativeTypeOK, StateFile,
        RequestInv, FilesInv, ForeignInv, FileInv
  <2> QED
    BY <2>1, <2>2, <2>3 DEF FilesInv
<1>12. CASE Report
  <2>1. ForeignInv'
    BY <1>0, <1>12, ManifestFacts
    DEF Report, SaveFailed, Answer, Fresh, NativeTypeOK, StateFile, RequestInv, FilesInv,
        ForeignInv, FileInv
  <2>2. /\ pc' \in Clearing \cup {"stage", "adopt"} => st'.art = disk'.art
        /\ pc' = "saveCleared" => st'.art = None
        /\ pc' = "saveStaged" \/ Undoing' => st'.art = man'.dig
    BY <1>0, <1>12, ManifestFacts
    DEF Report, SaveFailed, Answer, Fresh, NativeTypeOK, StateFile, RequestInv, FilesInv
  <2>3. ASSUME NEW t \in Digests, t \notin excused' PROVE FileInv(t)'
    BY <1>0, <1>12, <2>3, ManifestFacts
    DEF Report, SaveFailed, Answer, Fresh, NativeTypeOK, StateFile, RequestInv, FilesInv,
        ForeignInv, FileInv
  <2> QED
    BY <2>1, <2>2, <2>3 DEF FilesInv
<1>13. CASE Crash
  <2>1. ForeignInv'
    BY <1>0, <1>13, ManifestFacts
    DEF Crash, Answer, Fresh, NativeTypeOK, StateFile, RequestInv, FilesInv, ForeignInv, FileInv
  <2>2. /\ pc' \in Clearing \cup {"stage", "adopt"} => st'.art = disk'.art
        /\ pc' = "saveCleared" => st'.art = None
        /\ pc' = "saveStaged" \/ Undoing' => st'.art = man'.dig
    BY <1>0, <1>13, ManifestFacts
    DEF Crash, Answer, Fresh, NativeTypeOK, StateFile, RequestInv, FilesInv
  <2>3. ASSUME NEW t \in Digests, t \notin excused' PROVE FileInv(t)'
    BY <1>0, <1>13, <2>3, ManifestFacts
    DEF Crash, Answer, Fresh, NativeTypeOK, StateFile, RequestInv, FilesInv, ForeignInv, FileInv
  <2> QED
    BY <2>1, <2>2, <2>3 DEF FilesInv
<1>14. CASE Install
  <2>1. ForeignInv'
    BY <1>0, <1>14, ManifestFacts
    DEF Install, NativeTypeOK, StateFile, RequestInv, FilesInv, ForeignInv, FileInv
  <2>2. /\ pc' \in Clearing \cup {"stage", "adopt"} => st'.art = disk'.art
        /\ pc' = "saveCleared" => st'.art = None
        /\ pc' = "saveStaged" \/ Undoing' => st'.art = man'.dig
    BY <1>0, <1>14, ManifestFacts
    DEF Install, NativeTypeOK, StateFile, RequestInv, FilesInv
  <2>3. ASSUME NEW t \in Digests, t \notin excused' PROVE FileInv(t)'
    BY <1>0, <1>14, <2>3, ManifestFacts
    DEF Install, NativeTypeOK, StateFile, RequestInv, FilesInv, ForeignInv, FileInv
  <2> QED
    BY <2>1, <2>2, <2>3 DEF FilesInv
<1>15. CASE Touch
  <2>1. ForeignInv'
    BY <1>0, <1>15, ManifestFacts
    DEF Touch, NativeTypeOK, StateFile, RequestInv, FilesInv, ForeignInv, FileInv
  <2>2. /\ pc' \in Clearing \cup {"stage", "adopt"} => st'.art = disk'.art
        /\ pc' = "saveCleared" => st'.art = None
        /\ pc' = "saveStaged" \/ Undoing' => st'.art = man'.dig
    BY <1>0, <1>15, ManifestFacts
    DEF Touch, NativeTypeOK, StateFile, RequestInv, FilesInv
  <2>3. ASSUME NEW t \in Digests, t \notin excused' PROVE FileInv(t)'
    BY <1>0, <1>15, <2>3, ManifestFacts
    DEF Touch, NativeTypeOK, StateFile, RequestInv, FilesInv, ForeignInv, FileInv
  <2> QED
    BY <2>1, <2>2, <2>3 DEF FilesInv
<1>16. CASE UNCHANGED nativeVars
  BY <1>16 DEF nativeVars, FilesInv, ForeignInv, FileInv
<1> QED
  BY <1>1, <1>2, <1>3, <1>4, <1>5, <1>6, <1>7, <1>8, <1>9, <1>10, <1>11, <1>12, <1>13, <1>14,
     <1>15, <1>16
  DEF NativeNext, Holder

-----------------------------------------------------------------------------
(* The inductive invariant holds in every reachable state of the controller. *)
THEOREM NativeInvariant ==
    NativeSpec => []NativeInv
<1>1. NativeInit => NativeInv
  BY NativeInitInv
<1> QED
  BY <1>1, NativeNextInv, PTL DEF NativeSpec

(* The state and the directory are well formed at every step of a request. *)
THEOREM NativeTypeTheorem ==
    NativeSpec => []NativeTypeOK
<1>1. NativeInv => NativeTypeOK
  BY DEF NativeInv
<1> QED
  BY <1>1, NativeInvariant, PTL

(* The state never offers a package of another commit than that of the newest
   accepted manifest, nor one that was never signed for it (rvNativeUpdateOnce,
   SaveState). *)
THEOREM OfferTheorem ==
    NativeSpec => []OfferedIsCurrent
<1>1. NativeInit => OfferInv
  BY NativeInitInv
<1>2. NativeInv /\ OfferInv /\ [NativeNext]_nativeVars => OfferInv'
  BY OfferNextInv
<1>3. OfferInv => OfferedIsCurrent
  BY DEF OfferInv, Offers, OfferedIsCurrent
<1> QED
  BY <1>1, <1>2, <1>3, NativeInvariant, PTL DEF NativeSpec

(* Between two requests the packages on disk are the one that the state names, but
   for those that the controller was made to lose track of: no failed write offers a
   missing package or leaves one behind (rvClearNativeArtifact, rvNativeUpdateOnce,
   rvPersistNativeUpdateError). *)
THEOREM FilesTheorem ==
    NativeSpec => []FilesMatchState
<1>1. NativeInit => FilesInv
  BY ManifestFacts DEF NativeInit, FilesInv, ForeignInv, FileInv, Fresh, Clearing, Undoing
<1>2. NativeInv /\ FilesInv /\ [NativeNext]_nativeVars => FilesInv'
  BY FilesNextInv
<1>3. FilesInv => FilesMatchState
  BY DEF FilesInv, FileInv, FilesMatchState
<1> QED
  BY <1>1, <1>2, <1>3, NativeInvariant, PTL DEF NativeSpec

(* The file changes in the saves of a request and in its error report only. *)
LEMMA DiskStep ==
    [NativeNext]_nativeVars => disk' = disk \/ Save \/ SaveStaged \/ Report
BY DEF NativeNext, nativeVars, Begin, Holder, Fetch, RemoveVerify, RemoveRename, RemoveTomb,
       RemoveRestore, RemovePutBack, Stage, Adopt, Crash, Install, Touch, store

(* As long as the state file can be read, its sequence never goes back and never
   changes its target (rvNativeUpdateOnce, rvPersistNativeUpdateError). *)
THEOREM SequenceTheorem ==
    ASSUME Failures = {}
    PROVE  NativeSpec => SequenceIsMonotone
<1> DEFINE Monotone == /\ disk.seq <= disk'.seq
                       /\ disk.seq = disk'.seq /\ disk.seq # 0 => disk'.seen = disk.seen
<1>1. ASSUME NativeInv, [NativeNext]_nativeVars PROVE Monotone
  <2>0. disk \in StateFile /\ disk.seq \in Nat /\ SequenceInv
    BY <1>1 DEF NativeInv, NativeTypeOK, StateFile
  <2>1. CASE disk' = disk
    BY <2>0, <2>1
  <2>2. CASE Save \/ SaveStaged
    <3>1. disk' = disk \/ disk' = st
      BY <2>2 DEF Save, SaveStaged, Saved, SaveFailed
    <3> QED
      BY <2>0, <2>2, <3>1 DEF Save, SaveStaged, SequenceInv, Staging
  <2>3. CASE Report
    <3>1. disk' = disk \/ disk' = [disk EXCEPT !.art = None]
      BY <2>3 DEF Report, SaveFailed
    <3> QED
      BY <2>0, <3>1 DEF StateFile
  <2> QED
    BY <1>1, <2>1, <2>2, <2>3, DiskStep
<1>2. NativeInv /\ [NativeNext]_nativeVars => [Monotone]_nativeVars
  BY <1>1
<1> QED
  BY <1>2, NativeInvariant, PTL DEF NativeSpec, SequenceIsMonotone

(* A step that loses bytes which somebody else has put under a package's name is
   a rename of Windows. *)
LEMMA ForeignStep ==
    ASSUME NativeInv, [NativeNext]_nativeVars, NEW t \in Digests, Foreign(t)
    PROVE  Foreign(t)' \/ RenamesOver(t)
<1> USE DEF Undoing, Package, store, request, outside
<1>1. NativeTypeOK
  BY DEF NativeInv
<1>2. CASE \E kind \in {"check", "download"} : Begin(kind)
  BY <1>1, <1>2 DEF Begin, NativeTypeOK, Foreign
<1>3. CASE Fetch \/ Save \/ Stage \/ SaveStaged \/ Report \/ Install
  BY <1>1, <1>3 DEF Fetch, Save, Stage, SaveStaged, Report, Install, NativeTypeOK, Foreign
<1>4. CASE RemoveVerify
  BY <1>1, <1>4 DEF RemoveVerify, At, NativeTypeOK, Foreign
<1>5. CASE RemoveRename
  BY <1>1, <1>5 DEF RemoveRename, At, GoTo, NativeTypeOK, Foreign
<1>6. CASE RemoveTomb
  BY <1>1, <1>6 DEF RemoveTomb, At, GoTo, NativeTypeOK, Foreign
<1>7. CASE RemoveRestore
  BY <1>1, <1>7 DEF RemoveRestore, At, GoTo, Keep, NotRemoved, NativeTypeOK, Foreign
<1>8. CASE RemovePutBack
  BY <1>1, <1>8 DEF RemovePutBack, At, Keep, NotRemoved, NativeTypeOK, Foreign, RenamesOver
<1>9. CASE Adopt
  BY <1>1, <1>9 DEF Adopt, NativeTypeOK, Foreign, RenamesOver
<1>10. CASE Crash
  BY <1>1, <1>10 DEF Crash, NativeTypeOK, Foreign
<1>11. CASE Touch
  BY <1>1, <1>11 DEF Touch, NativeTypeOK, Foreign
<1>12. CASE UNCHANGED nativeVars
  BY <1>12 DEF nativeVars, Foreign
<1> QED
  BY <1>2, <1>3, <1>4, <1>5, <1>6, <1>7, <1>8, <1>9, <1>10, <1>11, <1>12 DEF NativeNext, Holder

(* RemoveVerifiedArtifact and adoptNoClobber never destroy bytes that were not
   verified, whoever puts them there and whenever the client dies, but for the two
   renames of Windows. *)
THEOREM ForeignTheorem ==
    NativeSpec => ForeignIsPreserved
<1>1. NativeInv /\ [NativeNext]_nativeVars
      => [\A t \in Digests : Foreign(t) => Foreign(t)' \/ RenamesOver(t)]_nativeVars
  BY ForeignStep
<1> QED
  BY <1>1, NativeInvariant, PTL DEF NativeSpec, ForeignIsPreserved
=============================================================================
