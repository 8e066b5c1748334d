------------------------ MODULE OverlayMirrorProofs -------------------------
(***************************************************************************)
(* Theorems about OverlayMirror for every set of paths and contents and    *)
(* any number of saves: a mirror that is handed to the verifier is what    *)
(* the editor shows, and without its marker a mirror is whole.             *)
(***************************************************************************)
EXTENDS OverlayMirror, TLAPS

\* The mirror is being changed.
Mirroring == {"mirror", "digested", "opened"}
Marked == Mirroring \cup {"remove", "apply", "unmark"}

\* Times in the mirror are those of saves that have been, or of writes in the mirror; a
\* torn copy has the time of its own write.
KnownTimes ==
    /\ \A f \in Files :
        /\ source[f].time <= saves
        /\ mirror[f].time <= saves \/ mirror[f].time \in {Local, Built}
        /\ mirror[f].content = Partial => mirror[f].time = Local
    /\ copying.time <= saves

\* The shortcut of destination_matches is right for f: equal times, equal contents.
TimeTells(f) ==
    /\ mirror[f].content # Absent
    /\ source[f].content # Absent
    /\ mirror[f].time = source[f].time
    => mirror[f].content = source[f].content

\* It is right for every path some manifest has a digest of.  For a path without one it
\* may not be: the mirror of an older version has times and no digests.
DigestsVouch ==
    \A f \in Files :
        \/ manifest.digests[f] # Absent
        \/ previous.digests[f] # Absent
        \/ current.digests[f] # Absent
        => TimeTells(f)

\* The marker is there while the mirror is changed, unless no manifest vouches for it;
\* and by then there is a manifest to compare with.
Guarded ==
    /\ pc \in Marked => marker
    /\ pc \in {"reset", "forget"} => marker \/ manifest = NoManifest
    /\ pc = "mark" => ~marker \/ manifest = NoManifest
    /\ pc \in {"mark"} \cup Marked => previous \in Manifests

\* No preparation has put a file at f: there is none, or the build created it.
NotThere(f) == mirror[f].content = Absent \/ mirror[f].time = Built

\* What has been done for path f when the preparation is at pc.
PreparedOf(f) ==
    /\ pc \notin {"idle", "ready"} => source[f].content \in seen[f]
    /\ pc = "forget" => mirror[f] = NoFile
    /\ pc = "mark" => NotThere(f) \/ f \in previous.paths
    /\ pc \in Mirroring =>
        /\ f \in current.paths => mirror[f].content \in seen[f] /\ f \notin todo
        /\ f \notin current.paths =>
            /\ f \in todo \/ f = copying.file \/ Absent \in seen[f]
            /\ NotThere(f) \/ f \in previous.paths \/ f = copying.file
    /\ pc = "remove" =>
        /\ f \in todo => f \notin current.paths
        /\ f \in current.paths /\ f \notin Documents => mirror[f].content \in seen[f]
        /\ f \notin current.paths =>
            /\ f \notin Documents /\ Absent \in seen[f]
            /\ f \in todo \/ NotThere(f)
    /\ pc \in {"apply", "unmark", "ready"} =>
        /\ f \in todo => f \in Documents
        /\ f \in Documents => f \in current.paths /\ (f \in todo \/ mirror[f].content = overlay[f])
        /\ f \notin Documents =>
            mirror[f].content \in seen[f] \/ (mirror[f].time = Built /\ f \notin current.paths)
        /\ f \notin current.paths => NotThere(f)

Prepared ==
    /\ \A f \in Files : PreparedOf(f)
    /\ pc \in {"reset", "forget", "mark"} => current = EmptyManifest
    /\ pc \notin {"digested", "opened"} => copying = NotCopying
    /\ pc \in {"digested", "opened"} =>
        /\ copying.file \in Files
        /\ copying.file \notin todo \cup current.paths
        /\ copying.digest \in seen[copying.file] \ {Absent}
    /\ pc \in {"unmark", "ready"} => todo = {} /\ manifest = current

IInv == TypeOK /\ KnownTimes /\ DigestsVouch /\ Guarded /\ UnmarkedMirrorIsWhole /\ Prepared

-----------------------------------------------------------------------------
\* Every step keeps the variables in their types.
LEMMA TypeStep ==
    ASSUME IInv, [Next]_vars
    PROVE  TypeOK'
<1> USE OverlayAssumption DEF IInv, TypeOK, Entry, NoFile, NoDocuments, EmptyManifest,
      NoManifest, NotCopying, Manifests, Local, Built, Times
<1>1. ASSUME NEW O \in [Files -> Contents \cup {Absent}], Begin(O)
      PROVE  TypeOK'
  BY <1>1 DEF Begin, Trusted, disk
<1>2. ASSUME ResetMirror
      PROVE  TypeOK'
  <2>1. ASSUME mirror' = mirror
        PROVE  TypeOK'
    BY <1>2, <2>1 DEF ResetMirror, locals
  <2>2. ASSUME NEW g \in Files, mirror' = [mirror EXCEPT ![g] = NoFile]
        PROVE  TypeOK'
    BY <1>2, <2>2 DEF ResetMirror, locals
  <2>3. QED
    BY <1>2, <2>1, <2>2 DEF ResetMirror
<1>3. ASSUME ForgetManifest
      PROVE  TypeOK'
  BY <1>3 DEF ForgetManifest
<1>4. ASSUME Mark
      PROVE  TypeOK'
  BY <1>4 DEF Mark, Listed
<1>5. ASSUME NEW f \in Files, SkipMissing(f)
      PROVE  TypeOK'
  BY <1>5 DEF SkipMissing, disk
<1>6. ASSUME NEW f \in Files, DigestSource(f)
      PROVE  TypeOK'
  BY <1>6 DEF DigestSource, disk
<1>7. ASSUME NEW f \in Files, Reuse(f)
      PROVE  TypeOK'
  <2>1. current' \in Manifests
    BY <1>7 DEF Reuse, Mirrored
  <2>2. copying' \in [file : Files \cup {Absent}, digest : Contents \cup {Absent},
        time : Times]
    BY <1>7 DEF Reuse, Mirrored
  <2>3. QED
    BY <1>7, <2>1, <2>2 DEF Reuse, Mirrored, disk
<1>8. ASSUME NEW f \in Files, OpenCopy(f)
      PROVE  TypeOK'
  <2>1. mirror' \in [Files -> [content : Contents \cup {Absent, Partial}, time : Times]]
    BY <1>8 DEF OpenCopy
  <2>2. source[f].time \in Times
    BY <1>8 DEF OpenCopy
  <2>3. copying' = [file |-> f, digest |-> copying.digest, time |-> source[f].time]
    BY <1>8 DEF OpenCopy
  <2>4. QED
    BY <1>8, <2>1, <2>2, <2>3 DEF OpenCopy
<1>9. ASSUME NEW f \in Files, Copy(f)
      PROVE  TypeOK'
  <2>1. mirror' \in [Files -> [content : Contents \cup {Absent, Partial}, time : Times]]
    BY <1>9 DEF Copy
  <2>2. current' \in Manifests
    BY <1>9 DEF Copy, Mirrored
  <2>3. copying' \in [file : Files \cup {Absent}, digest : Contents \cup {Absent},
        time : Times]
    BY <1>9 DEF Copy, Mirrored
  <2>4. QED
    BY <1>9, <2>1, <2>2, <2>3 DEF Copy, Mirrored
<1>10. ASSUME ListDocuments
      PROVE  TypeOK'
  <2>1. current' \in Manifests
    BY <1>10 DEF ListDocuments, Documents
  <2>2. todo' \in SUBSET Files
    BY <1>10 DEF ListDocuments, Guarded, Marked, Mirroring
  <2>3. QED
    BY <1>10, <2>1, <2>2 DEF ListDocuments, disk
<1>11. ASSUME NEW f \in Files, RemoveStale(f)
      PROVE  TypeOK'
  BY <1>11 DEF RemoveStale
<1>12. ASSUME StaleRemoved
      PROVE  TypeOK'
  BY <1>12 DEF StaleRemoved, Documents, disk
<1>13. ASSUME NEW f \in Files, ApplyDocument(f)
      PROVE  TypeOK'
  <2>1. ASSUME mirror' = [mirror EXCEPT ![f] = Entry(Partial, Local)]
        PROVE  TypeOK'
    BY <1>13, <2>1 DEF ApplyDocument
  <2>2. ASSUME mirror' = [mirror EXCEPT ![f] = Entry(overlay[f], Local)]
        PROVE  TypeOK'
    BY <1>13, <2>2 DEF ApplyDocument
  <2>3. QED
    BY <1>13, <2>1, <2>2 DEF ApplyDocument
<1>14. ASSUME WriteManifest
      PROVE  TypeOK'
  BY <1>14 DEF WriteManifest, locals
<1>15. ASSUME Unmark
      PROVE  TypeOK'
  BY <1>15 DEF Unmark, locals
<1>16. ASSUME Abandon
      PROVE  TypeOK'
  BY <1>16 DEF Abandon, Forget, disk
<1>17. ASSUME BuildRan
      PROVE  TypeOK'
  <2>1. ASSUME mirror' = mirror
        PROVE  TypeOK'
    BY <1>17, <2>1 DEF BuildRan, Forget
  <2>2. ASSUME NEW g \in Files, mirror' = [mirror EXCEPT ![g] = NoFile]
        PROVE  TypeOK'
    BY <1>17, <2>2 DEF BuildRan, Forget
  <2>3. ASSUME NEW g \in Files, NEW c \in Contents, NEW t,
        t = IF mirror[g].content = Absent \/ mirror[g].time = Built THEN Built ELSE Local,
        mirror' = [mirror EXCEPT ![g] = Entry(c, t)]
        PROVE  TypeOK'
    BY <1>17, <2>3 DEF BuildRan, Forget
  <2>4. QED
    BY <1>17, <2>1, <2>2, <2>3 DEF BuildRan
<1>18. ASSUME NEW f \in Files, NEW c \in Contents \cup {Absent}, Save(f, c)
      PROVE  TypeOK'
  BY <1>18 DEF Save, disk, locals
<1>19. CASE UNCHANGED vars
  BY <1>19 DEF vars, disk, locals
<1> HIDE DEF IInv, TypeOK, Entry, NoFile, NoDocuments, EmptyManifest, NoManifest,
      NotCopying, Manifests, Local, Built, Times
<1>20. QED
  BY <1>1, <1>2, <1>3, <1>4, <1>5, <1>6, <1>7, <1>8, <1>9, <1>10, <1>11, <1>12, <1>13,
     <1>14, <1>15, <1>16, <1>17, <1>18, <1>19
     DEF Next

\* A mirrored file has the time its source had when it was copied, or Local.
LEMMA TimesStep ==
    ASSUME IInv, [Next]_vars
    PROVE  KnownTimes'
<1> USE OverlayAssumption DEF IInv, TypeOK, KnownTimes, Entry, NoFile, NoDocuments,
      EmptyManifest, NoManifest, NotCopying, Manifests, Local, Built, Times
<1>1. ASSUME NEW O \in [Files -> Contents \cup {Absent}], Begin(O)
      PROVE  KnownTimes'
  BY <1>1 DEF Begin, Trusted, disk
<1>2. ASSUME ResetMirror
      PROVE  KnownTimes'
  <2>1. ASSUME mirror' = mirror
        PROVE  KnownTimes'
    BY <1>2, <2>1 DEF ResetMirror, locals
  <2>2. ASSUME NEW g \in Files, mirror' = [mirror EXCEPT ![g] = NoFile]
        PROVE  KnownTimes'
    BY <1>2, <2>2 DEF ResetMirror, locals
  <2>3. QED
    BY <1>2, <2>1, <2>2 DEF ResetMirror
<1>3. ASSUME ForgetManifest
      PROVE  KnownTimes'
  BY <1>3 DEF ForgetManifest
<1>4. ASSUME Mark
      PROVE  KnownTimes'
  BY <1>4 DEF Mark, Listed
<1>5. ASSUME NEW f \in Files, SkipMissing(f)
      PROVE  KnownTimes'
  BY <1>5 DEF SkipMissing, disk
<1>6. ASSUME NEW f \in Files, DigestSource(f)
      PROVE  KnownTimes'
  BY <1>6 DEF DigestSource, disk
<1>7. ASSUME NEW f \in Files, Reuse(f)
      PROVE  KnownTimes'
  BY <1>7 DEF Reuse, Reusable, DestinationMatches, Mirrored, disk
<1>8. ASSUME NEW f \in Files, OpenCopy(f)
      PROVE  KnownTimes'
  BY <1>8 DEF OpenCopy
<1>9. ASSUME NEW f \in Files, Copy(f)
      PROVE  KnownTimes'
  BY <1>9 DEF Copy, Mirrored
<1>10. ASSUME ListDocuments
      PROVE  KnownTimes'
  BY <1>10 DEF ListDocuments, Documents, disk
<1>11. ASSUME NEW f \in Files, RemoveStale(f)
      PROVE  KnownTimes'
  BY <1>11 DEF RemoveStale
<1>12. ASSUME StaleRemoved
      PROVE  KnownTimes'
  BY <1>12 DEF StaleRemoved, Documents, disk
<1>13. ASSUME NEW f \in Files, ApplyDocument(f)
      PROVE  KnownTimes'
  <2>1. ASSUME mirror' = [mirror EXCEPT ![f] = Entry(Partial, Local)]
        PROVE  KnownTimes'
    BY <1>13, <2>1 DEF ApplyDocument
  <2>2. ASSUME mirror' = [mirror EXCEPT ![f] = Entry(overlay[f], Local)]
        PROVE  KnownTimes'
    BY <1>13, <2>2 DEF ApplyDocument
  <2>3. QED
    BY <1>13, <2>1, <2>2 DEF ApplyDocument
<1>14. ASSUME WriteManifest
      PROVE  KnownTimes'
  BY <1>14 DEF WriteManifest, locals
<1>15. ASSUME Unmark
      PROVE  KnownTimes'
  BY <1>15 DEF Unmark, locals
<1>16. ASSUME Abandon
      PROVE  KnownTimes'
  BY <1>16 DEF Abandon, Forget, disk
<1>17. ASSUME BuildRan
      PROVE  KnownTimes'
  <2>1. ASSUME mirror' = mirror
        PROVE  KnownTimes'
    BY <1>17, <2>1 DEF BuildRan, Forget
  <2>2. ASSUME NEW g \in Files, mirror' = [mirror EXCEPT ![g] = NoFile]
        PROVE  KnownTimes'
    BY <1>17, <2>2 DEF BuildRan, Forget
  <2>3. ASSUME NEW g \in Files, NEW c \in Contents, NEW t,
        t = IF mirror[g].content = Absent \/ mirror[g].time = Built THEN Built ELSE Local,
        mirror' = [mirror EXCEPT ![g] = Entry(c, t)]
        PROVE  KnownTimes'
    BY <1>17, <2>3 DEF BuildRan, Forget
  <2>4. QED
    BY <1>17, <2>1, <2>2, <2>3 DEF BuildRan
<1>18. ASSUME NEW f \in Files, NEW c \in Contents \cup {Absent}, Save(f, c)
      PROVE  KnownTimes'
  BY <1>18 DEF Save, disk, locals
<1>19. CASE UNCHANGED vars
  BY <1>19 DEF vars, disk, locals
<1> HIDE DEF IInv, TypeOK, KnownTimes, Entry, NoFile, NoDocuments, EmptyManifest,
      NoManifest, NotCopying, Manifests, Local, Built, Times
<1>20. QED
  BY <1>1, <1>2, <1>3, <1>4, <1>5, <1>6, <1>7, <1>8, <1>9, <1>10, <1>11, <1>12, <1>13,
     <1>14, <1>15, <1>16, <1>17, <1>18, <1>19
     DEF Next

\* A file whose digest is recorded was copied with a time read after the digest, so
\* that a later save shows in the time.
LEMMA VouchStep ==
    ASSUME IInv, [Next]_vars
    PROVE  DigestsVouch'
<1> USE OverlayAssumption DEF IInv, TypeOK, KnownTimes, DigestsVouch, TimeTells, Entry,
      NoFile, NoDocuments, EmptyManifest, NoManifest, NotCopying, Manifests, Local, Built, Times
<1>1. ASSUME NEW O \in [Files -> Contents \cup {Absent}], Begin(O)
      PROVE  DigestsVouch'
  BY <1>1 DEF Begin, Trusted, disk
<1>2. ASSUME ResetMirror
      PROVE  DigestsVouch'
  <2>1. ASSUME mirror' = mirror
        PROVE  DigestsVouch'
    BY <1>2, <2>1 DEF ResetMirror, locals
  <2>2. ASSUME NEW g \in Files, mirror' = [mirror EXCEPT ![g] = NoFile]
        PROVE  DigestsVouch'
    BY <1>2, <2>2 DEF ResetMirror, locals
  <2>3. QED
    BY <1>2, <2>1, <2>2 DEF ResetMirror
<1>3. ASSUME ForgetManifest
      PROVE  DigestsVouch'
  BY <1>3 DEF ForgetManifest
<1>4. ASSUME Mark
      PROVE  DigestsVouch'
  BY <1>4 DEF Mark, Listed
<1>5. ASSUME NEW f \in Files, SkipMissing(f)
      PROVE  DigestsVouch'
  BY <1>5 DEF SkipMissing, disk
<1>6. ASSUME NEW f \in Files, DigestSource(f)
      PROVE  DigestsVouch'
  BY <1>6 DEF DigestSource, disk
<1>7. ASSUME NEW f \in Files, Reuse(f)
      PROVE  DigestsVouch'
  BY <1>7 DEF Reuse, Reusable, DestinationMatches, Mirrored, disk
<1>8. ASSUME NEW f \in Files, OpenCopy(f)
      PROVE  DigestsVouch'
  BY <1>8 DEF OpenCopy
<1>9. ASSUME NEW f \in Files, Copy(f)
      PROVE  DigestsVouch'
  BY <1>9 DEF Copy, Mirrored
<1>10. ASSUME ListDocuments
      PROVE  DigestsVouch'
  BY <1>10 DEF ListDocuments, Documents, disk
<1>11. ASSUME NEW f \in Files, RemoveStale(f)
      PROVE  DigestsVouch'
  BY <1>11 DEF RemoveStale
<1>12. ASSUME StaleRemoved
      PROVE  DigestsVouch'
  BY <1>12 DEF StaleRemoved, Documents, disk
<1>13. ASSUME NEW f \in Files, ApplyDocument(f)
      PROVE  DigestsVouch'
  <2>1. ASSUME mirror' = [mirror EXCEPT ![f] = Entry(Partial, Local)]
        PROVE  DigestsVouch'
    BY <1>13, <2>1 DEF ApplyDocument
  <2>2. ASSUME mirror' = [mirror EXCEPT ![f] = Entry(overlay[f], Local)]
        PROVE  DigestsVouch'
    BY <1>13, <2>2 DEF ApplyDocument
  <2>3. QED
    BY <1>13, <2>1, <2>2 DEF ApplyDocument
<1>14. ASSUME WriteManifest
      PROVE  DigestsVouch'
  BY <1>14 DEF WriteManifest, locals
<1>15. ASSUME Unmark
      PROVE  DigestsVouch'
  BY <1>15 DEF Unmark, locals
<1>16. ASSUME Abandon
      PROVE  DigestsVouch'
  BY <1>16 DEF Abandon, Forget, disk
<1>17. ASSUME BuildRan
      PROVE  DigestsVouch'
  <2>1. ASSUME mirror' = mirror
        PROVE  DigestsVouch'
    BY <1>17, <2>1 DEF BuildRan, Forget
  <2>2. ASSUME NEW g \in Files, mirror' = [mirror EXCEPT ![g] = NoFile]
        PROVE  DigestsVouch'
    BY <1>17, <2>2 DEF BuildRan, Forget
  <2>3. ASSUME NEW g \in Files, NEW c \in Contents, NEW t,
        t = IF mirror[g].content = Absent \/ mirror[g].time = Built THEN Built ELSE Local,
        mirror' = [mirror EXCEPT ![g] = Entry(c, t)]
        PROVE  DigestsVouch'
    BY <1>17, <2>3 DEF BuildRan, Forget
  <2>4. QED
    BY <1>17, <2>1, <2>2, <2>3 DEF BuildRan
<1>18. ASSUME NEW f \in Files, NEW c \in Contents \cup {Absent}, Save(f, c)
      PROVE  DigestsVouch'
  BY <1>18 DEF Save, disk, locals
<1>19. CASE UNCHANGED vars
  BY <1>19 DEF vars, disk, locals
<1> HIDE DEF IInv, TypeOK, KnownTimes, DigestsVouch, TimeTells, Entry, NoFile, NoDocuments,
      EmptyManifest, NoManifest, NotCopying, Manifests, Local, Built, Times
<1>20. QED
  BY <1>1, <1>2, <1>3, <1>4, <1>5, <1>6, <1>7, <1>8, <1>9, <1>10, <1>11, <1>12, <1>13,
     <1>14, <1>15, <1>16, <1>17, <1>18, <1>19
     DEF Next

\* The marker is put before the mirror changes and removed when it is complete.
LEMMA GuardStep ==
    ASSUME IInv, [Next]_vars
    PROVE  Guarded'
<1> USE OverlayAssumption DEF IInv, TypeOK, Guarded, Marked, Mirroring, Prepared,
      EmptyManifest, NoDocuments, Manifests
<1>1. ASSUME NEW O \in [Files -> Contents \cup {Absent}], Begin(O)
      PROVE  Guarded'
  BY <1>1 DEF Begin, Trusted, disk
<1>2. ASSUME ResetMirror
      PROVE  Guarded'
  BY <1>2 DEF ResetMirror, locals
<1>3. ASSUME ForgetManifest
      PROVE  Guarded'
  BY <1>3 DEF ForgetManifest
<1>4. ASSUME Mark
      PROVE  Guarded'
  BY <1>4 DEF Mark, Listed
<1>5. ASSUME NEW f \in Files, SkipMissing(f)
      PROVE  Guarded'
  BY <1>5 DEF SkipMissing, disk
<1>6. ASSUME NEW f \in Files, DigestSource(f)
      PROVE  Guarded'
  BY <1>6 DEF DigestSource, disk
<1>7. ASSUME NEW f \in Files, Reuse(f)
      PROVE  Guarded'
  BY <1>7 DEF Reuse, Reusable, DestinationMatches, Mirrored, disk
<1>8. ASSUME NEW f \in Files, OpenCopy(f)
      PROVE  Guarded'
  BY <1>8 DEF OpenCopy
<1>9. ASSUME NEW f \in Files, Copy(f)
      PROVE  Guarded'
  BY <1>9 DEF Copy, Mirrored
<1>10. ASSUME ListDocuments
      PROVE  Guarded'
  BY <1>10 DEF ListDocuments, Documents, disk
<1>11. ASSUME NEW f \in Files, RemoveStale(f)
      PROVE  Guarded'
  BY <1>11 DEF RemoveStale
<1>12. ASSUME StaleRemoved
      PROVE  Guarded'
  BY <1>12 DEF StaleRemoved, Documents, disk
<1>13. ASSUME NEW f \in Files, ApplyDocument(f)
      PROVE  Guarded'
  BY <1>13 DEF ApplyDocument, Documents
<1>14. ASSUME WriteManifest
      PROVE  Guarded'
  BY <1>14 DEF WriteManifest, locals
<1>15. ASSUME Unmark
      PROVE  Guarded'
  BY <1>15 DEF Unmark, locals
<1>16. ASSUME Abandon
      PROVE  Guarded'
  BY <1>16 DEF Abandon, Forget, disk
<1>17. ASSUME BuildRan
      PROVE  Guarded'
  BY <1>17 DEF BuildRan, Forget
<1>18. ASSUME NEW f \in Files, NEW c \in Contents \cup {Absent}, Save(f, c)
      PROVE  Guarded'
  BY <1>18 DEF Save, disk, locals
<1>19. CASE UNCHANGED vars
  BY <1>19 DEF vars, disk, locals
<1> HIDE DEF IInv, TypeOK, Guarded, Marked, Mirroring, Prepared, EmptyManifest,
      NoDocuments, Manifests
<1>20. QED
  BY <1>1, <1>2, <1>3, <1>4, <1>5, <1>6, <1>7, <1>8, <1>9, <1>10, <1>11, <1>12, <1>13,
     <1>14, <1>15, <1>16, <1>17, <1>18, <1>19
     DEF Next

\* The marker goes only when the manifest lists the whole mirror.
LEMMA WholeStep ==
    ASSUME IInv, [Next]_vars
    PROVE  UnmarkedMirrorIsWhole'
<1> USE OverlayAssumption DEF IInv, TypeOK, Guarded, Marked, Mirroring,
      UnmarkedMirrorIsWhole, Generated, Prepared, PreparedOf, NotThere, Entry, NoFile, NoDocuments,
            EmptyManifest, NoManifest, NotCopying, Manifests, Local, Built, Times
<1>1. ASSUME NEW O \in [Files -> Contents \cup {Absent}], Begin(O)
      PROVE  UnmarkedMirrorIsWhole'
  BY <1>1 DEF Begin, Trusted, disk
<1>2. ASSUME ResetMirror
      PROVE  UnmarkedMirrorIsWhole'
  BY <1>2 DEF ResetMirror, locals
<1>3. ASSUME ForgetManifest
      PROVE  UnmarkedMirrorIsWhole'
  BY <1>3 DEF ForgetManifest
<1>4. ASSUME Mark
      PROVE  UnmarkedMirrorIsWhole'
  BY <1>4 DEF Mark, Listed
<1>5. ASSUME NEW f \in Files, SkipMissing(f)
      PROVE  UnmarkedMirrorIsWhole'
  BY <1>5 DEF SkipMissing, disk
<1>6. ASSUME NEW f \in Files, DigestSource(f)
      PROVE  UnmarkedMirrorIsWhole'
  BY <1>6 DEF DigestSource, disk
<1>7. ASSUME NEW f \in Files, Reuse(f)
      PROVE  UnmarkedMirrorIsWhole'
  BY <1>7 DEF Reuse, Reusable, DestinationMatches, Mirrored, disk
<1>8. ASSUME NEW f \in Files, OpenCopy(f)
      PROVE  UnmarkedMirrorIsWhole'
  BY <1>8 DEF OpenCopy
<1>9. ASSUME NEW f \in Files, Copy(f)
      PROVE  UnmarkedMirrorIsWhole'
  BY <1>9 DEF Copy, Mirrored
<1>10. ASSUME ListDocuments
      PROVE  UnmarkedMirrorIsWhole'
  BY <1>10 DEF ListDocuments, Documents, disk
<1>11. ASSUME NEW f \in Files, RemoveStale(f)
      PROVE  UnmarkedMirrorIsWhole'
  BY <1>11 DEF RemoveStale
<1>12. ASSUME StaleRemoved
      PROVE  UnmarkedMirrorIsWhole'
  BY <1>12 DEF StaleRemoved, Documents, disk
<1>13. ASSUME NEW f \in Files, ApplyDocument(f)
      PROVE  UnmarkedMirrorIsWhole'
  BY <1>13 DEF ApplyDocument, Documents
<1>14. ASSUME WriteManifest
      PROVE  UnmarkedMirrorIsWhole'
  BY <1>14 DEF WriteManifest, locals
<1>15. ASSUME Unmark
      PROVE  UnmarkedMirrorIsWhole'
  <2>1. pc = "unmark" /\ manifest = current /\ todo = {} /\ mirror' = mirror /\ manifest' = manifest
    BY <1>15 DEF Unmark
  <2>2. ASSUME NEW f \in Files
        PROVE  /\ mirror[f].content # Partial
               /\ mirror[f].content # Absent => f \in manifest.paths \/ Generated(f)
    <3>1. CASE f \in Documents
      BY <2>1, <3>1 DEF Documents
    <3>2. CASE f \notin Documents
      <4>1. \/ mirror[f].content \in seen[f] /\ seen[f] \subseteq Contents \cup {Absent}
            \/ mirror[f].time = Built
        BY <2>1, <3>2
      <4>2. mirror[f].content # Partial
        BY <4>1 DEF KnownTimes
      <4>3. f \notin current.paths => mirror[f].content = Absent \/ mirror[f].time = Built
        BY <2>1
      <4>4. QED
        BY <2>1, <4>2, <4>3
    <3>3. QED
      BY <3>1, <3>2
  <2> HIDE DEF TypeOK, Guarded, Prepared, PreparedOf, Manifests, NoManifest
  <2>3. QED
    BY <2>1, <2>2
<1>16. ASSUME Abandon
      PROVE  UnmarkedMirrorIsWhole'
  BY <1>16 DEF Abandon, Forget, disk
<1>17. ASSUME BuildRan
      PROVE  UnmarkedMirrorIsWhole'
  <2>1. ASSUME mirror' = mirror
        PROVE  UnmarkedMirrorIsWhole'
    BY <1>17, <2>1 DEF BuildRan, Forget
  <2>2. ASSUME NEW g \in Files, mirror' = [mirror EXCEPT ![g] = NoFile]
        PROVE  UnmarkedMirrorIsWhole'
    BY <1>17, <2>2 DEF BuildRan, Forget
  <2>3. ASSUME NEW g \in Files, NEW c \in Contents, NEW t,
        t = IF mirror[g].content = Absent \/ mirror[g].time = Built THEN Built ELSE Local,
        mirror' = [mirror EXCEPT ![g] = Entry(c, t)]
        PROVE  UnmarkedMirrorIsWhole'
    <3>1. manifest' = manifest /\ marker' = marker
      BY <1>17 DEF BuildRan
    <3>2. /\ mirror'[g].content = c /\ mirror'[g].time = t /\ c # Partial
          /\ \A f \in Files \ {g} : mirror'[f] = mirror[f]
      BY <2>3
    <3>3. SUFFICES ASSUME ~marker, manifest # NoManifest, NEW f \in Files
                   PROVE  /\ mirror'[f].content # Partial
                          /\ mirror'[f].content # Absent =>
                               \/ f \in manifest.paths
                               \/ mirror'[f].time = Built /\ f \notin manifest.paths
      BY <3>1
    <3>4. CASE f # g
      BY <3>2, <3>3, <3>4
    <3>5. CASE f = g
      <4>1. t = Built \/ (mirror[g].content # Absent /\ mirror[g].time # Built)
        BY <2>3
      <4>2. g \in manifest.paths \/ t = Built
        BY <3>3, <4>1
      <4>3. QED
        BY <3>2, <3>5, <4>2
    <3>6. QED
      BY <3>4, <3>5
  <2> HIDE DEF IInv, TypeOK, Guarded, UnmarkedMirrorIsWhole, Prepared, PreparedOf, Manifests, Entry,
        NoFile
  <2>4. QED
    BY <1>17, <2>1, <2>2, <2>3 DEF BuildRan
<1>18. ASSUME NEW f \in Files, NEW c \in Contents \cup {Absent}, Save(f, c)
      PROVE  UnmarkedMirrorIsWhole'
  BY <1>18 DEF Save, disk, locals
<1>19. CASE UNCHANGED vars
  BY <1>19 DEF vars, disk, locals
<1> HIDE DEF IInv, TypeOK, Guarded, Marked, Mirroring, UnmarkedMirrorIsWhole, Generated, Prepared,
      PreparedOf, NotThere, Entry, NoFile, NoDocuments, EmptyManifest, NoManifest, NotCopying,
            Manifests, Local, Built, Times
<1>20. QED
  BY <1>1, <1>2, <1>3, <1>4, <1>5, <1>6, <1>7, <1>8, <1>9, <1>10, <1>11, <1>12, <1>13,
     <1>14, <1>15, <1>16, <1>17, <1>18, <1>19
     DEF Next

\* Each loop leaves its part of the mirror done.
LEMMA PreparedStep ==
    ASSUME IInv, [Next]_vars
    PROVE  Prepared'
<1> USE OverlayAssumption DEF IInv, TypeOK, Guarded, Marked, Mirroring,
      UnmarkedMirrorIsWhole, Generated, DigestsVouch, TimeTells, Prepared, PreparedOf, NotThere, Documents,
            Entry, NoFile, NoDocuments, EmptyManifest, NoManifest, NotCopying, Manifests,
                  Local, Built, Times
<1>1. ASSUME NEW O \in [Files -> Contents \cup {Absent}], Begin(O)
      PROVE  Prepared'
  BY <1>1 DEF Begin, Trusted, disk
<1>2. ASSUME ResetMirror
      PROVE  Prepared'
  BY <1>2 DEF ResetMirror, locals
<1>3. ASSUME ForgetManifest
      PROVE  Prepared'
  BY <1>3 DEF ForgetManifest
<1>4. ASSUME Mark
      PROVE  Prepared'
  <2>1. ASSUME marker
        PROVE  Prepared'
    BY <1>4, <2>1 DEF Mark, Listed
  <2>2. ASSUME ~marker
        PROVE  Prepared'
    BY <1>4, <2>2 DEF Mark, Listed
  <2>3. QED
    BY <1>4, <2>1, <2>2 DEF Mark
<1>5. ASSUME NEW f \in Files, SkipMissing(f)
      PROVE  Prepared'
  BY <1>5 DEF SkipMissing, disk
<1>6. ASSUME NEW f \in Files, DigestSource(f)
      PROVE  Prepared'
  BY <1>6 DEF DigestSource, disk
<1>7. ASSUME NEW f \in Files, Reuse(f)
      PROVE  Prepared'
  BY <1>7 DEF Reuse, Reusable, DestinationMatches, Mirrored, disk
<1>8. ASSUME NEW f \in Files, OpenCopy(f)
      PROVE  Prepared'
  BY <1>8 DEF OpenCopy
<1>9. ASSUME NEW f \in Files, Copy(f)
      PROVE  Prepared'
  BY <1>9 DEF Copy, Mirrored
<1>10. ASSUME ListDocuments
      PROVE  Prepared'
  BY <1>10 DEF ListDocuments, disk
<1>11. ASSUME NEW f \in Files, RemoveStale(f)
      PROVE  Prepared'
  BY <1>11 DEF RemoveStale
<1>12. ASSUME StaleRemoved
      PROVE  Prepared'
  BY <1>12 DEF StaleRemoved, disk
<1>13. ASSUME NEW f \in Files, ApplyDocument(f)
      PROVE  Prepared'
  <2>1. ASSUME mirror' = [mirror EXCEPT ![f] = Entry(Partial, Local)]
        PROVE  Prepared'
    BY <1>13, <2>1 DEF ApplyDocument
  <2>2. ASSUME mirror' = [mirror EXCEPT ![f] = Entry(overlay[f], Local)]
        PROVE  Prepared'
    BY <1>13, <2>2 DEF ApplyDocument
  <2>3. QED
    BY <1>13, <2>1, <2>2 DEF ApplyDocument
<1>14. ASSUME WriteManifest
      PROVE  Prepared'
  BY <1>14 DEF WriteManifest, locals
<1>15. ASSUME Unmark
      PROVE  Prepared'
  BY <1>15 DEF Unmark, locals
<1>16. ASSUME Abandon
      PROVE  Prepared'
  BY <1>16 DEF Abandon, Forget, disk
<1>17. ASSUME BuildRan
      PROVE  Prepared'
  BY <1>17 DEF BuildRan, Forget
<1>18. ASSUME NEW f \in Files, NEW c \in Contents \cup {Absent}, Save(f, c)
      PROVE  Prepared'
  BY <1>18 DEF Save, disk, locals
<1>19. CASE UNCHANGED vars
  BY <1>19 DEF vars, disk, locals
<1> HIDE DEF IInv, TypeOK, Guarded, Marked, Mirroring, UnmarkedMirrorIsWhole, Generated, DigestsVouch,
      TimeTells, Prepared, PreparedOf, NotThere, Documents, Entry, NoFile, NoDocuments,
            EmptyManifest, NoManifest, NotCopying, Manifests, Local, Built, Times
<1>20. QED
  BY <1>1, <1>2, <1>3, <1>4, <1>5, <1>6, <1>7, <1>8, <1>9, <1>10, <1>11, <1>12, <1>13,
     <1>14, <1>15, <1>16, <1>17, <1>18, <1>19
     DEF Next

-----------------------------------------------------------------------------
\* A new session directory, or one of an older version.
LEMMA InitIInv == Init => IInv
<1> SUFFICES ASSUME Init PROVE IInv
  OBVIOUS
<1> USE OverlayAssumption DEF Init, Entry, NoFile, NoDocuments, EmptyManifest, NoManifest,
      NotCopying, Manifests, Local, Built, Times
<1>1. TypeOK
  <2>1. source \in [Files -> [content : Contents \cup {Absent}, time : 0..MaxSaves]]
    OBVIOUS
  <2>2. mirror \in [Files -> [content : Contents \cup {Absent, Partial}, time : Times]]
    OBVIOUS
  <2>3. manifest \in Manifests \cup {NoManifest}
    OBVIOUS
  <2>4. /\ overlay \in [Files -> Contents \cup {Absent}]
        /\ previous = NoManifest
        /\ current \in Manifests
        /\ copying \in [file : Files \cup {Absent}, digest : Contents \cup {Absent}, time : Times]
        /\ seen \in [Files -> SUBSET (Contents \cup {Absent})]
    OBVIOUS
  <2>5. /\ saves \in 0..MaxSaves /\ marker = FALSE /\ pc = "idle" /\ todo = {}
    OBVIOUS
  <2> HIDE DEF Init, Manifests, NoManifest, Times, Local, Built
  <2>6. QED
    BY <2>1, <2>2, <2>3, <2>4, <2>5 DEF TypeOK
<1>2. KnownTimes /\ DigestsVouch
  BY DEF KnownTimes, DigestsVouch
<1>3. Guarded /\ UnmarkedMirrorIsWhole
  BY DEF Guarded, Marked, Mirroring, UnmarkedMirrorIsWhole, Generated
<1>4. Prepared
  BY DEF Prepared, PreparedOf, NotThere, Mirroring, Documents
<1>5. QED
  BY <1>1, <1>2, <1>3, <1>4 DEF IInv

\* Every behaviour keeps the inductive invariant.
THEOREM Invariance == Spec => []IInv
<1>1. IInv /\ [Next]_vars => IInv'
  BY TypeStep, TimesStep, VouchStep, GuardStep, WholeStep, PreparedStep DEF IInv
<1>2. QED
  BY InitIInv, <1>1, PTL DEF Spec

\* The workspace, the session directory and a preparation's locals keep their types.
THEOREM TypeCorrect == Spec => []TypeOK
<1>1. IInv => TypeOK
  BY DEF IInv
<1>2. QED
  BY Invariance, <1>1, PTL

\* Whatever earlier preparations and builds left behind, and whatever is saved while
\* the mirror is prepared, the verifier gets the documents of the request over a
\* workspace whose files were there during the preparation.
THEOREM MirrorIsFaithful == Spec => []MirrorIsCurrent
<1>1. IInv => MirrorIsCurrent
  BY DEF IInv, Prepared, PreparedOf, NotThere, MirrorIsCurrent, Generated, Documents
<1>2. QED
  BY Invariance, <1>1, PTL

\* A preparation that was cut off anywhere leaves the marker, or no manifest, or a
\* complete mirror that its manifest lists.
THEOREM MirrorIsWhole == Spec => []UnmarkedMirrorIsWhole
<1>1. IInv => UnmarkedMirrorIsWhole
  BY DEF IInv
<1>2. QED
  BY Invariance, <1>1, PTL
=============================================================================
