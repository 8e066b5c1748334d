---------------------------- MODULE OverlayMirror ----------------------------
(***************************************************************************)
(* The shadow workspace of one editor session                              *)
(* (crates/walaru-daemon/src/overlay.rs).  prepare_cancellable brings the  *)
(* session's mirror up to date with the workspace and puts the editor's    *)
(* unsaved documents over it, reusing mirrored files it can trust; the     *)
(* marker `mirror-preparing` tells a later preparation that an earlier one *)
(* did not get to its end.                                                 *)
(*                                                                         *)
(* One step is one file operation of the code.  A preparation can be left  *)
(* between any two of them (cancelled, an I/O error, the daemon killed),   *)
(* and the developer can save files at any time.  Between preparations the *)
(* build runs in the mirror and may change, delete and create files there. *)
(* Files all have the same length, so that only digests and modification   *)
(* times tell contents apart; every save gets a new modification time; a   *)
(* file operation is seen by later ones (no power loss).                   *)
(***************************************************************************)
EXTENDS Naturals

CONSTANTS
    Files,      \* workspace-relative paths
    Contents,   \* what a file may contain
    Absent,     \* the content of a path with no file
    Partial,    \* the content of a file whose copy did not end
    MaxSaves    \* bound: saves in the workspace

ASSUME OverlayAssumption ==
    /\ Absent \notin Contents /\ Absent \notin Files
    /\ Partial \notin Contents
    /\ Absent # Partial
    /\ MaxSaves \in Nat

\* Modification times: of the workspace's saves, and times that the mirror's
\* file got from a write in the mirror, which are no save's: Built for a file
\* that the build created, Local for any other.
Local == MaxSaves + 1
Built == MaxSaves + 2
Times == 0..Built

VARIABLES
    source,     \* the workspace: content and time of each path
    saves,      \* number of saves so far
    mirror,     \* the mirror: content and time of each path
    manifest,   \* mirrored-files.json, or NoManifest
    marker,     \* whether mirror-preparing exists
    pc,         \* where the preparation is
    overlay,    \* the documents of the request: content of each path, or Absent
    previous,   \* the manifest the preparation trusts
    current,    \* the manifest it is building
    todo,       \* paths still to be handled by the current loop
    copying,    \* the file being mirrored, with the digest and the time taken of it
    seen        \* contents each path had in the workspace since the preparation began

disk == <<mirror, manifest, marker>>
locals == <<overlay, previous, current, todo, copying>>
vars == <<source, saves, disk, pc, locals, seen>>

-----------------------------------------------------------------------------
Entry(c, time) == [content |-> c, time |-> time]
NoFile == Entry(Absent, 0)
NoDocuments == [f \in Files |-> Absent]

\* MirrorManifest::new(); `digests` maps a path to Absent when it has no entry.
EmptyManifest == [paths |-> {}, digests |-> NoDocuments, overlayPaths |-> {}]
NoManifest == [paths |-> {Absent}, digests |-> NoDocuments, overlayPaths |-> {}]
Manifests == [paths : SUBSET Files, digests : [Files -> Contents \cup {Absent}],
              overlayPaths : SUBSET Files]

NotCopying == [file |-> Absent, digest |-> Absent, time |-> 0]

TypeOK ==
    /\ source \in [Files -> [content : Contents \cup {Absent}, time : 0..MaxSaves]]
    /\ saves \in 0..MaxSaves
    /\ mirror \in [Files -> [content : Contents \cup {Absent, Partial}, time : Times]]
    /\ manifest \in Manifests \cup {NoManifest}
    /\ marker \in BOOLEAN
    /\ pc \in {"idle", "reset", "forget", "mark", "mirror", "digested", "opened",
               "remove", "apply", "unmark", "ready"}
    /\ overlay \in [Files -> Contents \cup {Absent}]
    /\ previous \in Manifests \cup {NoManifest}
    /\ current \in Manifests
    /\ todo \in SUBSET Files
    /\ copying \in [file : Files \cup {Absent}, digest : Contents \cup {Absent}, time : Times]
    /\ seen \in [Files -> SUBSET (Contents \cup {Absent})]

\* A workspace, and a session directory that is new or was left by a version
\* whose manifest only listed paths.
Init ==
    /\ source \in [Files -> {NoFile} \cup {Entry(c, 0) : c \in Contents}]
    /\ saves = 0
    /\ \/ manifest = NoManifest /\ mirror = [f \in Files |-> NoFile]
       \/ /\ manifest \in {[EmptyManifest EXCEPT !.paths = P] : P \in SUBSET Files}
          /\ \E c \in Contents : mirror = [f \in Files |->
                IF f \in manifest.paths THEN Entry(c, 0) ELSE NoFile]
    /\ marker = FALSE
    /\ pc = "idle"
    /\ overlay = NoDocuments
    /\ previous = NoManifest
    /\ current = EmptyManifest
    /\ todo = {}
    /\ copying = NotCopying
    /\ seen = [f \in Files |-> {}]

-----------------------------------------------------------------------------
(* prepare_cancellable.                                                    *)

\* `previous`: nothing after an interrupted preparation.
Trusted == IF marker THEN NoManifest ELSE manifest

\* A request for documents O starts.  Every path the workspace may list is
\* seen as it is now, or as it is saved from now on.
Begin(O) ==
    /\ pc = "idle"
    /\ overlay' = O
    /\ previous' = Trusted
    /\ current' = EmptyManifest
    /\ seen' = [f \in Files |-> {source[f].content}]
    /\ pc' = IF Trusted = NoManifest THEN "reset" ELSE "mark"
    /\ UNCHANGED <<source, saves, disk, todo, copying>>

\* if previous.is_none() { remove_destination(mirror_root) }, file by file.
ResetMirror ==
    /\ pc = "reset"
    /\ \/ /\ \E f \in Files : mirror[f] # NoFile /\ mirror' = [mirror EXCEPT ![f] = NoFile]
          /\ UNCHANGED pc
       \/ /\ \A f \in Files : mirror[f] = NoFile
          /\ pc' = "forget"
          /\ UNCHANGED mirror
    /\ UNCHANGED <<source, saves, manifest, marker, locals, seen>>

\* Mutant of ForgetManifest: no empty manifest takes the place of the old one.
ForgetOnly ==
    /\ pc = "forget"
    /\ manifest' = NoManifest
    /\ pc' = "mark"
    /\ UNCHANGED <<source, saves, mirror, marker, locals, seen>>

\* remove_destination(manifest_path); previous = Some(MirrorManifest::new())
ForgetManifest ==
    /\ pc = "forget"
    /\ manifest' = NoManifest
    /\ previous' = EmptyManifest
    /\ pc' = "mark"
    /\ UNCHANGED <<source, saves, mirror, marker, overlay, current, todo, copying, seen>>

Listed == {f \in Files : source[f].content # Absent}

\* Mutant of Mark: no marker is left.
MarkSkipped ==
    /\ pc = "mark"
    /\ todo' = Listed
    /\ pc' = "mirror"
    /\ UNCHANGED <<source, saves, disk, overlay, previous, current, copying, seen>>

\* remove_destination(preparing_path); File::create(preparing_path); then the
\* workspace is listed.
Mark ==
    /\ pc = "mark"
    /\ IF marker
       THEN marker' = FALSE /\ UNCHANGED <<pc, todo>>
       ELSE marker' = TRUE /\ pc' = "mirror" /\ todo' = Listed
    /\ UNCHANGED <<source, saves, mirror, manifest, overlay, previous, current, copying, seen>>

\* A listed file that is gone when its turn comes is skipped.
SkipMissing(f) ==
    /\ pc = "mirror"
    /\ f \in todo
    /\ source[f].content = Absent
    /\ todo' = todo \ {f}
    /\ UNCHANGED <<source, saves, disk, pc, overlay, previous, current, copying, seen>>

\* mirror_file: let digest = file_digest(source)
DigestSource(f) ==
    /\ pc = "mirror"
    /\ f \in todo
    /\ source[f].content # Absent
    /\ todo' = todo \ {f}
    /\ copying' = [file |-> f, digest |-> source[f].content, time |-> 0]
    /\ pc' = "digested"
    /\ UNCHANGED <<source, saves, disk, overlay, previous, current, seen>>

\* destination_matches: equal times are trusted, otherwise digests decide.
DestinationMatches(f) ==
    /\ mirror[f].content # Absent
    /\ \/ mirror[f].time = source[f].time
       \/ mirror[f].content = copying.digest

\* Mutant of Reusable: an unsaved document left in the mirror is reused.
ReusableOverlay(f) ==
    /\ previous.digests[f] = copying.digest
    /\ mirror[f].content # Absent

Reusable(f) ==
    /\ previous.digests[f] = copying.digest
    /\ f \notin previous.overlayPaths
    /\ DestinationMatches(f)

\* current.paths.insert, current.digests.insert
Mirrored(f) ==
    /\ current' = [current EXCEPT !.paths = @ \cup {f}, !.digests[f] = copying.digest]
    /\ copying' = NotCopying
    /\ pc' = "mirror"

Reuse(f) ==
    /\ pc = "digested"
    /\ f = copying.file
    /\ source[f].content # Absent
    /\ Reusable(f)
    /\ Mirrored(f)
    /\ UNCHANGED <<source, saves, disk, overlay, previous, todo, seen>>

\* copy_input: the source's metadata is read, and the destination replaced by
\* an empty file.
OpenCopy(f) ==
    /\ pc = "digested"
    /\ f = copying.file
    /\ source[f].content # Absent
    /\ ~Reusable(f)
    /\ copying' = [copying EXCEPT !.time = source[f].time]
    /\ mirror' = [mirror EXCEPT ![f] = Entry(Partial, Local)]
    /\ pc' = "opened"
    /\ UNCHANGED <<source, saves, manifest, marker, overlay, previous, current, todo, seen>>

\* The contents are copied, and the time is set where the file permits it.
Copy(f) ==
    /\ pc = "opened"
    /\ f = copying.file
    /\ source[f].content # Absent
    /\ \E time \in {copying.time, Local} :
            mirror' = [mirror EXCEPT ![f] = Entry(source[f].content, time)]
    /\ Mirrored(f)
    /\ UNCHANGED <<source, saves, manifest, marker, overlay, previous, todo, seen>>

Documents == {f \in Files : overlay[f] # Absent}

\* Every document is a path of the mirror, and one that must not be reused.
ListDocuments ==
    /\ pc = "mirror"
    /\ todo = {}
    /\ current' = [current EXCEPT !.paths = @ \cup Documents, !.overlayPaths = Documents]
    /\ todo' = previous.paths \ current'.paths
    /\ pc' = "remove"
    /\ UNCHANGED <<source, saves, disk, overlay, previous, copying, seen>>

\* Paths that are no longer mirrored are removed.
RemoveStale(f) ==
    /\ pc = "remove"
    /\ f \in todo
    /\ mirror' = [mirror EXCEPT ![f] = NoFile]
    /\ todo' = todo \ {f}
    /\ UNCHANGED <<source, saves, manifest, marker, pc, overlay, previous, current, copying, seen>>

StaleRemoved ==
    /\ pc = "remove"
    /\ todo = {}
    /\ todo' = Documents
    /\ pc' = "apply"
    /\ UNCHANGED <<source, saves, disk, overlay, previous, current, copying, seen>>

\* remove_destination(&target), fs::write(target, document.content)
ApplyDocument(f) ==
    /\ pc = "apply"
    /\ f \in todo
    /\ \/ /\ mirror' = [mirror EXCEPT ![f] = Entry(Partial, Local)]
          /\ mirror[f].content # Partial
          /\ UNCHANGED todo
       \/ /\ mirror' = [mirror EXCEPT ![f] = Entry(overlay[f], Local)]
          /\ todo' = todo \ {f}
    /\ UNCHANGED <<source, saves, manifest, marker, pc, overlay, previous, current, copying, seen>>

\* write_mirror_manifest: a temporary file is renamed over the old manifest.
WriteManifest ==
    /\ pc = "apply"
    /\ todo = {}
    /\ manifest' = current
    /\ pc' = "unmark"
    /\ UNCHANGED <<source, saves, mirror, marker, locals, seen>>

\* fs::remove_file(&preparing_path): the preparation succeeded.
Unmark ==
    /\ pc = "unmark"
    /\ marker' = FALSE
    /\ pc' = "ready"
    /\ UNCHANGED <<source, saves, mirror, manifest, locals, seen>>

\* The locals of a preparation go out of scope.
Forget ==
    /\ pc' = "idle"
    /\ overlay' = NoDocuments
    /\ previous' = NoManifest
    /\ current' = EmptyManifest
    /\ todo' = {}
    /\ copying' = NotCopying
    /\ seen' = [f \in Files |-> {}]

\* Cancelled, an I/O error (a source that vanished, say), or the daemon killed:
\* the disk stays as it is.
Abandon ==
    /\ pc \notin {"idle", "ready"}
    /\ Forget
    /\ UNCHANGED <<source, saves, disk>>

\* The verification is over, and the build may have written or deleted a file
\* of the mirror, or created one that no manifest lists.
BuildRan ==
    /\ pc = "ready"
    /\ \/ UNCHANGED mirror
       \/ \E f \in Files, c \in Contents \cup {Absent} :
            mirror' = [mirror EXCEPT ![f] =
                IF c = Absent THEN NoFile
                ELSE Entry(c, IF @.content = Absent \/ @.time = Built THEN Built ELSE Local)]
    /\ Forget
    /\ UNCHANGED <<source, saves, manifest, marker>>

\* The developer saves or deletes a file of the workspace.
Save(f, c) ==
    /\ saves < MaxSaves
    /\ saves' = saves + 1
    /\ source' = [source EXCEPT ![f] = IF c = Absent THEN NoFile ELSE Entry(c, saves + 1)]
    /\ seen' = IF pc \in {"idle", "ready"} THEN seen ELSE [seen EXCEPT ![f] = @ \cup {c}]
    /\ UNCHANGED <<disk, pc, locals>>

Next ==
    \/ \E O \in [Files -> Contents \cup {Absent}] : Begin(O)
    \/ ResetMirror \/ ForgetManifest \/ Mark
    \/ \E f \in Files : SkipMissing(f) \/ DigestSource(f) \/ Reuse(f) \/ OpenCopy(f) \/ Copy(f)
    \/ ListDocuments \/ \E f \in Files : RemoveStale(f)
    \/ StaleRemoved \/ \E f \in Files : ApplyDocument(f)
    \/ WriteManifest \/ Unmark \/ Abandon \/ BuildRan
    \/ \E f \in Files, c \in Contents \cup {Absent} : Save(f, c)

Spec == Init /\ [][Next]_vars

-----------------------------------------------------------------------------
(* Properties.                                                             *)

\* A file that the build created and that no preparation has listed since:
\* the mirror "preserves generated build state between live runs".
Generated(f) == mirror[f].time = Built /\ f \notin manifest.paths

\* The build sees what the editor shows: a mirror handed to the verifier holds
\* every unsaved document, and for every other path a content the workspace
\* had while the mirror was prepared (or what the build itself generated at a
\* path that is not mirrored), whatever cancelled, failed or killed
\* preparations and builds in the mirror left behind.
MirrorIsCurrent ==
    pc = "ready" =>
        \A f \in Files :
            IF overlay[f] # Absent
            THEN mirror[f].content = overlay[f]
            ELSE mirror[f].content \in seen[f] \/ Generated(f)

\* A half-written mirror is never trusted: without the marker, a file that the
\* manifest does not list is not there unless the build generated it, and none
\* is a torn copy.
UnmarkedMirrorIsWhole ==
    ~marker /\ manifest # NoManifest =>
        \A f \in Files :
            /\ mirror[f].content # Partial
            /\ mirror[f].content # Absent => f \in manifest.paths \/ Generated(f)
=============================================================================
