----------------------------- MODULE AppReview -----------------------------
(***************************************************************************)
(* One app id from upload to review: POST /apps/submit, submit-review,     *)
(* approve and reject (routes/appsRun.ts), the app routes of an admin      *)
(* (routes/adminApps.ts) and the gate canAccess (gateway/registry.ts).     *)
(*                                                                         *)
(* An app is a row of the table apps and a directory of files; a handler   *)
(* replaces the directory first and then writes the row.  The handlers of  *)
(* the users do both without an await; the upload of an admin awaits the   *)
(* installation of the package's dependencies in between.                  *)
(*                                                                         *)
(* A version stands for the content of one upload.  The visibilities       *)
(* public, login and restricted all open an app to somebody who is neither *)
(* its owner nor an admin: here they are one, shared.                      *)
(*                                                                         *)
(* What a visitor gets is the directory, or the process of a persistent    *)
(* package, which was started from the directory as it was then and goes   *)
(* on when the directory is exchanged (lib/sandbox.ts).  Any version may   *)
(* be persistent.                                                          *)
(***************************************************************************)
EXTENDS Naturals, FiniteSets

CONSTANTS
    Users,      \* users who submit packages
    Admin,      \* the admins
    Versions,   \* contents, each uploaded at most once
    Signed,     \* the versions with a trusted signature
    Uploads,    \* requests of POST /admin/apps/package
    None,
    Crashes     \* may the process die?

VARIABLES
    row,        \* the row of apps, or None
    files,      \* the version in the app's directory, or None
    proc,       \* the version the app's process was started from, or None
    starting,   \* is a process about to be started?
    upload,     \* upload[w] : the version whose dependencies w waits for
    used,       \* the versions uploaded so far
    seen,       \* what an admin has looked at and not decided on
    cleared,    \* history: the versions an admin has vouched for, by a
                \* decision or by uploading them
    slipped,    \* history: versions that came where nobody looks: while a
                \* decision was made on another one, with a crash before their
                \* row, next to the row of another one, or as a process that
                \* outlived the exchange of its files
    taken,      \* history: an update has taken the app offline
    mixed       \* history: row and files may be of different exchanges, after
                \* a crash within one, a deletion in the middle of an upload
                \* or uploads that overlap

vars == <<row, files, proc, starting, upload, used, seen, cleared, slipped, taken, mixed>>

Row == [owner : Users \cup {Admin},
        shared : BOOLEAN,       \* visibility is not 'private'
        on : BOOLEAN,           \* enabled
        review : {"none", "pending", "approved", "rejected"},
        ver : Versions]         \* what manifest and signatureStatus describe

ReviewAssumption ==
    /\ Admin \notin Users
    /\ None \notin Users \cup Versions \cup {Admin} \cup Row
    /\ Signed \subseteq Versions
    /\ Crashes \in BOOLEAN

TypeOK ==
    /\ row \in Row \cup {None}
    /\ {files, proc} \subseteq Versions \cup {None}
    /\ starting \in BOOLEAN
    /\ upload \in [Uploads -> Versions \cup {None}]
    /\ used \subseteq Versions
    /\ seen \subseteq used
    /\ cleared \cup slipped \subseteq Versions
    /\ taken \in BOOLEAN
    /\ mixed \in BOOLEAN

Init ==
    /\ row = None
    /\ files = None
    /\ proc = None /\ starting = FALSE
    /\ upload = [w \in Uploads |-> None]
    /\ used = {}
    /\ seen = {}
    /\ cleared = {} /\ slipped = {}
    /\ taken = FALSE
    /\ mixed = FALSE

Exists == row # None

Take(v) == v \notin used /\ used' = used \cup {v}

\* What there is to read of the app.
Contents == {row.ver, files} \ {None}

\* No handler that exchanges the files stops the process.
Exchange(v) == files' = v /\ slipped' = (slipped \cup {proc}) \ {None} /\ UNCHANGED <<proc, starting>>

-----------------------------------------------------------------------------
(* POST /apps/submit *)

\* A first version: for its owner only, available at once.
SubmitNew(u, v) ==
    /\ ~ Exists
    /\ Take(v)
    /\ Exchange(v)
    /\ row' = [owner |-> u, shared |-> FALSE, on |-> TRUE, ver |-> v,
               review |-> IF v \in Signed THEN "approved" ELSE "none"]
    /\ taken' = FALSE
    /\ mixed' = FALSE
    /\ UNCHANGED <<upload, seen, cleared>>

MayUpdate(u) == Exists /\ u \in {row.owner, Admin}

\* A new version is reviewed again; one that others could reach goes offline.
Updated(v) ==
    IF v \in Signed
    THEN [row EXCEPT !.ver = v, !.review = "approved"]
    ELSE [row EXCEPT !.ver = v, !.review = "pending", !.on = @ /\ ~ row.shared]

SubmitUpdate(u, v) ==
    /\ MayUpdate(u)
    /\ Take(v)
    /\ files' = v
    /\ slipped' = (slipped \cup {proc} \cup (IF seen = {} THEN {} ELSE {v})) \ {None}
    /\ row' = Updated(v)
    /\ taken' = (taken \/ (row.on /\ ~ Updated(v).on))
    /\ mixed' = FALSE
    /\ UNCHANGED <<proc, starting, upload, seen, cleared>>

NoUploads == [w \in Uploads |-> None]

\* The process dies between the removal of the old directory and the rename,
\* or between the rename and the write of the row.
CrashInSubmit(u, v) ==
    /\ Crashes
    /\ ~ Exists \/ MayUpdate(u)
    /\ Take(v)
    /\ files' \in {v, None}
    /\ slipped' = slipped \cup {v}
    /\ proc' = None /\ starting' = FALSE
    /\ upload' = NoUploads
    /\ mixed' = TRUE
    /\ UNCHANGED <<row, seen, cleared, taken>>

-----------------------------------------------------------------------------
(* The review *)

\* POST /apps/:id/submit-review.
SubmitReview(u) ==
    /\ MayUpdate(u)
    /\ row' = [row EXCEPT !.review = IF row.ver \in Signed THEN "approved" ELSE "pending"]
    /\ UNCHANGED <<files, proc, starting, upload, used, seen, cleared, slipped, taken, mixed>>

\* GET /admin/review/pending: the admin reads the manifest and the files.
Look ==
    /\ Exists /\ row.review = "pending"
    /\ seen' = Contents
    /\ UNCHANGED <<row, files, proc, starting, upload, used, cleared, slipped, taken, mixed>>

\* An admin approves what was looked at: the handler gets an id, not a
\* version, and asks neither for the version nor for the status.
Approve(share) ==
    /\ Exists
    /\ seen # {}
    /\ row' = [row EXCEPT !.review = "approved", !.on = TRUE, !.shared = @ \/ share]
    /\ cleared' = cleared \cup seen
    /\ seen' = {}
    /\ taken' = FALSE
    /\ UNCHANGED <<files, proc, starting, upload, used, slipped, mixed>>

Reject ==
    /\ Exists
    /\ seen # {}
    /\ row' = [row EXCEPT !.review = "rejected"]
    /\ seen' = {}
    /\ UNCHANGED <<files, proc, starting, upload, used, cleared, slipped, taken, mixed>>

-----------------------------------------------------------------------------
(* canAccess and the gateway *)

\* Fault: a rejected package is not held back.
HeldBackPending(r) == r.review = "pending"

HeldBack(r) == r.review \in {"pending", "rejected"}

\* Somebody who is neither owner nor admin gets through.
OpenToOthers(r) == r # None /\ r.on /\ r.shared /\ ~ HeldBack(r)

-----------------------------------------------------------------------------
(* The other routes of an admin *)

\* PUT /admin/apps/:id.  Who opens an app vouches for what is in it; a change
\* of passUser, and that only, stops the process.
Edit(share, on) ==
    /\ Exists
    /\ row' = [row EXCEPT !.shared = share, !.on = on]
    /\ cleared' = IF OpenToOthers(row') THEN cleared \cup Contents ELSE cleared
    /\ taken' = FALSE
    /\ proc' \in {proc, None}
    /\ UNCHANGED <<files, starting, upload, used, seen, slipped, mixed>>

\* DELETE /admin/apps/:id; the files stay, and so does the process.
Delete ==
    /\ Exists
    /\ row' = None
    /\ seen' = {}
    /\ taken' = FALSE
    /\ mixed' = (mixed \/ upload # NoUploads)
    /\ UNCHANGED <<files, proc, starting, upload, used, cleared, slipped>>

\* No app of that name, when the handler looks.
Uploadable(w) == upload[w] = None /\ ~ Exists

\* POST /admin/apps/package up to the await: the files are in place.
UploadStarts(w, v) ==
    /\ Uploadable(w)
    /\ Take(v)
    /\ Exchange(v)
    /\ cleared' = cleared \cup {v}
    /\ upload' = [upload EXCEPT ![w] = v]
    /\ mixed' = (upload # NoUploads)
    /\ UNCHANGED <<row, seen, taken>>

\* The dependencies are there: the row is inserted, unless there is one.
UploadEnds(w, share) ==
    /\ upload[w] # None
    /\ upload' = [upload EXCEPT ![w] = None]
    /\ \/ /\ Exists
          /\ UNCHANGED <<row, slipped>>
       \/ /\ ~ Exists
          /\ row' = [owner |-> Admin, shared |-> share, on |-> TRUE, ver |-> upload[w],
                     review |-> "none"]
          /\ slipped' = (slipped \cup {files, proc}) \ {None, upload[w]}
    /\ UNCHANGED <<files, proc, starting, used, seen, cleared, taken, mixed>>

\* The installation fails: the directory is removed.
UploadFails(w) ==
    /\ upload[w] # None
    /\ upload' = [upload EXCEPT ![w] = None]
    /\ files' = None
    /\ UNCHANGED <<row, proc, starting, used, seen, cleared, slipped, taken, mixed>>

-----------------------------------------------------------------------------
(* The process *)

\* A visit that the gate lets through, of the owner for one, finds none.
Visit ==
    /\ Exists /\ row.on
    /\ proc = None /\ ~ starting
    /\ starting' = TRUE
    /\ UNCHANGED <<row, files, proc, upload, used, seen, cleared, slipped, taken, mixed>>

\* ensurePersistent: the port is there.  The row is not asked again.
Spawn ==
    /\ starting
    /\ proc' = files /\ starting' = FALSE
    /\ UNCHANGED <<row, files, upload, used, seen, cleared, slipped, taken, mixed>>

\* It is stopped, for being idle, for another package or for new variables, or
\* ends by itself and is started again.
Ends(restart) ==
    /\ proc # None
    /\ proc' = None /\ starting' = restart
    /\ UNCHANGED <<row, files, upload, used, seen, cleared, slipped, taken, mixed>>

Crash ==
    /\ Crashes
    /\ upload # NoUploads \/ proc # None \/ starting
    /\ upload' = NoUploads
    /\ proc' = None /\ starting' = FALSE
    /\ UNCHANGED <<row, files, used, seen, cleared, slipped, taken, mixed>>

Next ==
    \/ \E u \in Users \cup {Admin} :
         \/ \E v \in Versions : SubmitNew(u, v) \/ SubmitUpdate(u, v) \/ CrashInSubmit(u, v)
         \/ SubmitReview(u)
    \/ Look
    \/ \E share \in BOOLEAN : Approve(share) \/ \E on \in BOOLEAN : Edit(share, on)
    \/ Reject
    \/ Delete
    \/ \E w \in Uploads :
         \/ \E v \in Versions : UploadStarts(w, v)
         \/ \E share \in BOOLEAN : UploadEnds(w, share)
         \/ UploadFails(w)
    \/ Visit \/ Spawn
    \/ \E restart \in BOOLEAN : Ends(restart)
    \/ Crash

Spec == Init /\ [][Next]_vars

-----------------------------------------------------------------------------
(* Properties *)

\* The review gate (P1-6, appsRun.ts:369-371): nobody but the owner and the
\* admins gets files that no admin has vouched for and that bear no trusted
\* signature.  Refuted: a version that arrives between an admin's look and the
\* decision is approved with the one that was looked at.
NoUnreviewedCode ==
    OpenToOthers(row) /\ files # None /\ ~ mixed => files \in cleared \cup Signed

\* ... through crashes as well.  Refuted: an update exchanges the directory
\* before it writes the row that takes the app offline.
NeverUnreviewed ==
    OpenToOthers(row) /\ files # None => files \in cleared \cup Signed

\* ... and by the process.  Refuted: the one the owner has started goes on
\* through update, approval and deletion.
ProcessIsReviewed ==
    OpenToOthers(row) /\ proc # None => proc \in cleared \cup Signed

\* What strangers get of an app, manifest, files and process, an admin or a
\* trusted signature stands for, or it has slipped through in one of the four
\* ways that are named at slipped: by nothing else, no order of updates,
\* reviews, edits, deletions, uploads, starts and crashes, does a version get
\* by the gate (registry.ts:119-122, appsRun.ts:351-384, adminApps.ts).
StrangersGetVouched ==
    OpenToOthers(row) => {row.ver, files, proc} \ {None} \subseteq cleared \cup Signed \cup slipped

\* The row describes the files next to it: manifest, signature and review
\* are those of the version that a start finds.
RowDescribesFiles == Exists /\ files # None /\ ~ mixed => row.ver = files

\* The review gate, and the row it decides by.
OpenIsVouched == StrangersGetVouched /\ RowDescribesFiles

\* An app keeps its files: the directory is only removed with, or for, the
\* app it belongs to.  Refuted: the upload that fails removes what it finds.
AppHasFiles == Exists => files # None

\* An update takes an app offline until its review; when the app is approved
\* again, by an admin or by its signature, it is back.  Refuted: a signed
\* update approves it and leaves it offline.
ApprovalRestores == Exists /\ taken => row.review # "approved"
=============================================================================
