------------------------------ MODULE Package ------------------------------
(***************************************************************************)
(* A .neon-aap package from its zip to the directory of an app:            *)
(* storePackageFiles and validateManifest (gateway/staticApp.ts), the      *)
(* signature (lib/signing.ts) and what POST /apps/submit, POST             *)
(* /admin/apps/package and its preview make of them.                       *)
(*                                                                         *)
(* The entries are unpacked one by one into a directory of the request's   *)
(* own, which is renamed at the very end.  All of that runs without an     *)
(* await, so there is one request at a time; what happens to the row       *)
(* afterwards, and while dependencies are installed, is AppReview.         *)
(*                                                                         *)
(* A name stands for the entries that end up in one file; "outside" for    *)
(* those with .. or an absolute path.  Contents are members of small sets: *)
(* of a manifest whether it parses and is valid, of signature.json whose   *)
(* key made it, over what, and under which key_id.  Two names of one file  *)
(* (a and ./a) are left out.                                               *)
(***************************************************************************)
EXTENDS Naturals, Sequences

CONSTANTS
    Users, Admin, None,
    MaxEntries,     \* MAX_ENTRIES
    MaxBytes        \* MAX_UNCOMPRESSED

VARIABLES
    req,        \* who sends what to which route, or None
    n, bytes,   \* processed, uncompressed
    dir,        \* the directory of the request: file -> content
    entries,    \* name -> the contents under it, in the order of the zip
    manifest, signature,
    site,       \* the app's directory, or None
    row         \* the app's row, or None

PackageAssumption ==
    /\ MaxEntries \in Nat /\ MaxBytes \in Nat
    /\ None \notin [by : Users \cup {Admin}, route : {"submit", "upload", "preview"}]

reading == <<n, bytes, dir, entries, manifest, signature>>
vars == <<req, reading, site, row>>

\* What the owner of the trusted key has signed.
Genuine == [manifest |-> <<"valid">>, code |-> <<"good">>]

\* A signature was made by a key and names a public key and an id.  The owner
\* of the trusted key signs nothing else than the genuine package, the others
\* this very one.
Signatures == [by : {"trusted", "other"}, key : {"trusted", "other"}, id : {"trusted", "other"}]

Contents == [manifest |-> {"valid", "invalid", "broken"}, code |-> {"good", "bad", "big"},
             signature |-> Signatures, outside |-> {"big"}]
Size(x, c) == IF x # "signature" /\ c = "big" THEN 3 ELSE 1

\* The size in the header may be anything.
PlainEntries == {[name |-> x, content |-> c, said |-> s] :
                x \in {"manifest", "code", "outside"}, c \in {"valid", "invalid", "broken", "good", "bad", "big"},
                s \in {0, 3}}
ZipEntries ==
    {e \in PlainEntries : e.content \in Contents[e.name]} \cup
    {[name |-> "signature", content |-> c, said |-> 1] : c \in Signatures}

Nothing == <<>>

TypeOK ==
    /\ req \in [by : Users \cup {Admin}, route : {"submit", "upload", "preview"}] \cup {None}
    /\ n \in 0 .. MaxEntries /\ bytes \in 0 .. MaxBytes
    /\ manifest \in Contents.manifest \cup {None} /\ signature \in Signatures \cup {None}
    /\ row = None \/ row \in [owner : Users \cup {Admin}, signed : {"verified", "untrusted", "unsigned"}]

Unread ==
    /\ n' = 0 /\ bytes' = 0
    /\ entries' = Nothing
    /\ manifest' = None /\ signature' = None

Init ==
    /\ req = None
    /\ n = 0 /\ bytes = 0
    /\ dir = None /\ entries = Nothing
    /\ manifest = None /\ signature = None
    /\ site = None /\ row = None

Begin(u, route) ==
    /\ req = None
    /\ route = "submit" \/ u = Admin
    /\ req' = [by |-> u, route |-> route]
    /\ dir' = Nothing
    /\ Unread
    /\ UNCHANGED <<site, row>>

-----------------------------------------------------------------------------
(* storePackageFiles *)

With(f, x, c) == [y \in DOMAIN f \cup {x} |-> IF y = x THEN c ELSE f[y]]
Listed(x) == IF x \in DOMAIN entries THEN entries[x] ELSE <<>>

\* Refused: the directory goes, here or in the catch of the handler.
Refused ==
    /\ req' = None
    /\ dir' = None
    /\ Unread
    /\ UNCHANGED <<site, row>>

\* The header is asked first, to save the work; what counts is the content.
TooLarge(e) == bytes + e.said > MaxBytes \/ bytes + Size(e.name, e.content) > MaxBytes

\* An entry outside of the directory is passed over before it is measured.
Skip(e) ==
    /\ e.name = "outside"
    /\ n < MaxEntries
    /\ n' = n + 1
    /\ UNCHANGED <<req, bytes, dir, entries, manifest, signature, site, row>>

\* Fault: what is written under a name a second time is not digested.
DigestedOnce(x, c) == IF x \in DOMAIN entries THEN entries ELSE With(entries, x, <<c>>)

Digested(x, c) == With(entries, x, Append(Listed(x), c))

\* A manifest.json that is no JSON.
Broken(e) == e.name = "manifest" /\ e.content = "broken"

\* An entry that has been written: the last one of a name is what remains.
Extract(e) ==
    /\ e.name # "outside" /\ ~ Broken(e)
    /\ n < MaxEntries /\ ~ TooLarge(e)
    /\ n' = n + 1
    /\ bytes' = bytes + Size(e.name, e.content)
    /\ dir' = With(dir, e.name, e.content)
    /\ entries' = IF e.name = "signature" THEN entries ELSE Digested(e.name, e.content)
    /\ manifest' = IF e.name = "manifest" THEN e.content ELSE manifest
    /\ signature' = IF e.name = "signature" THEN e.content ELSE signature
    /\ UNCHANGED <<req, site, row>>

\* rejectPackage.
Reject(e) ==
    /\ n = MaxEntries \/ (e.name # "outside" /\ (Broken(e) \/ TooLarge(e)))
    /\ Refused

-----------------------------------------------------------------------------
(* checkPackageSignature *)

\* verifyWithEmbeddedKey: the digest is that of these entries, the key inside
\* has made the signature, and the id is that of the key.
Intact(s) ==
    /\ s.by = s.key
    /\ s.by = "trusted" => entries = Genuine
    /\ s.id = s.key

\* checkPackageSignature.
Status ==
    IF signature = None THEN "unsigned"
    ELSE IF ~ Intact(signature) THEN "invalid"
    ELSE IF signature.id = "trusted" THEN "verified" ELSE "untrusted"

Valid == manifest = "valid" /\ Status # "invalid"

-----------------------------------------------------------------------------
(* The end of the request *)

\* A new app, or one's own; an upload never replaces one.
MayReplace(u) == row # None => req.route = "submit" /\ u \in {row.owner, Admin}

\* No manifest, an invalid one, a broken signature, a name that is taken; a
\* preview is always thrown away.
GiveBack ==
    /\ ~ Valid \/ req.route = "preview" \/ ~ MayReplace(req.by)
    /\ Refused

\* The directory is renamed and the row is written.
Accept ==
    /\ Valid /\ req.route # "preview" /\ MayReplace(req.by)
    /\ site' = [files |-> dir, by |-> req.by]
    /\ row' = [owner |-> IF row = None THEN req.by ELSE row.owner, signed |-> Status]
    /\ dir' = None
    /\ req' = None
    /\ Unread

\* An upload that fails after the rename: without its dependencies the app's
\* directory goes again, for an unknown visibility it stays without a row.
UploadFails ==
    /\ Valid /\ req.route = "upload" /\ MayReplace(req.by)
    /\ site' \in {None, [files |-> dir, by |-> req.by]}
    /\ dir' = None
    /\ req' = None
    /\ Unread
    /\ UNCHANGED row

\* DELETE /admin/apps/:id leaves the files.
Delete ==
    /\ req = None /\ row # None
    /\ row' = None
    /\ UNCHANGED <<req, reading, site>>

\* The process dies.  The directory stays, but no request knows of it: nothing
\* ever removes it.
Crash ==
    /\ req # None
    /\ Refused

Next ==
    \/ \E u \in Users \cup {Admin}, route \in {"submit", "upload", "preview"} : Begin(u, route)
    \/ /\ req # None
       /\ \/ \E e \in ZipEntries : Skip(e) \/ Extract(e) \/ Reject(e)
          \/ GiveBack
          \/ Accept
          \/ UploadFails
    \/ Delete
    \/ Crash

Spec == Init /\ [][Next]_vars

-----------------------------------------------------------------------------
(* Properties *)

\* A trusted signature needs no review: what an app that bears one runs is,
\* file by file, what the owner of the trusted key has signed - whatever was
\* added to the zip, doubled in it or taken over from another package.
SignedIsStored ==
    row # None /\ row.signed = "verified" /\ site # None =>
        \A x \in DOMAIN site.files \cup DOMAIN Genuine :
            x # "signature" => x \in DOMAIN site.files /\ <<site.files[x]>> = Genuine[x]

OnDisk(x) == IF x \in DOMAIN dir THEN Size(x, dir[x]) ELSE 0

\* What is unpacked stays below the limits at every moment, whatever the
\* headers of the zip say: the disk is filled by at most this much.
DiskIsBounded ==
    dir # None => OnDisk("manifest") + OnDisk("code") + OnDisk("signature") + OnDisk("outside") <= MaxBytes

\* An app's files come from its owner or from an admin, also those that a
\* refused package of somebody else was meant to replace.
OwnFilesOnly == row # None /\ site # None => site.by \in {row.owner, Admin}

\* Whatever a zip says of itself, its sizes, signature and names of files: it
\* fills no disk, passes for nobody else's, replaces nobody else's.
UploadsAreContained == SignedIsStored /\ DiskIsBounded /\ OwnFilesOnly
=============================================================================
