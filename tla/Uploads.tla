------------------------------- MODULE Uploads -------------------------------
(***************************************************************************)
(* MediasService and those who upload through it: avatars, images of        *)
(* packages and of proofs, media messages.  A file in the storage and its   *)
(* row in medias are written, and deleted, by two calls.                    *)
(*                                                                          *)
(* A host is a row that images hang on: a package, a message or a proof.    *)
(* Several files of one request are independent calls; a request carries    *)
(* one here.                                                                *)
(***************************************************************************)
EXTENDS Contacts

CONSTANTS
  Images,    \* identifiers of files, never used twice (bound)
  Hosts,
  HostKind   \* [Hosts -> {"package", "message", "proof"}]

ASSUME HostsAssumption ==
  /\ HostKind \in [Hosts -> {"package", "message", "proof"}]
  /\ Nil \notin Images /\ Nil \notin Hosts

VARIABLES
  file,     \* each file in the storage
  media,    \* each row of medias
  holder,   \* package_medias, message_medias, mission_proof_images
  avatar,   \* user_avatar
  host,     \* each host
  linked    \* packages that are in a mission

uploads == <<file, media, holder, avatar, host, linked>>

Lifecycle == {"absent", "live", "erased"}

UploadsInit ==
  /\ file = [i \in Images |-> "absent"]
  /\ media = [i \in Images |-> "absent"]
  /\ holder = [i \in Images |-> Nil]
  /\ avatar = [u \in Users |-> Nil]
  /\ host = [h \in Hosts |-> "absent"]
  /\ linked = {}

----------------------------------------------------------------------------
\* createAvatar: the image it will replace is read first.
UploadAvatar(w, u) ==
  /\ Arrives("avatar")
  /\ Live(u)
  /\ Start(w, [Free EXCEPT !.at = "upload_file", !.kind = "avatar", !.user = u,
                           !.seen = avatar[u]])
  /\ UNCHANGED <<load, contacts, uploads>>

NewPackage(h)      == HostKind[h] = "package" /\ host[h] = "absent"
NewMediaMessage(h) == HostKind[h] = "message" /\ host[h] = "absent"

\* createWithImages and createMedia: the host is created with its image.
UploadWithHost(w, h) ==
  /\ Arrives("host")
  /\ NewPackage(h) \/ NewMediaMessage(h)
  /\ Start(w, [Free EXCEPT !.at = "upload_file", !.kind = "host", !.user = h])
  /\ UNCHANGED <<load, contacts, uploads>>

PackageTakesImage(h) == HostKind[h] = "package" /\ host[h] = "live"
\* A party of the mission sends images of a proof, before or after its code.
ProofTakesImage(h)   == HostKind[h] = "proof" /\ host[h] # "erased"

\* createImage of a package and addImages of a proof, which is upserted.
UploadToHost(w, h) ==
  /\ Arrives("image")
  /\ PackageTakesImage(h) \/ ProofTakesImage(h)
  /\ host' = [host EXCEPT ![h] = "live"]
  /\ Start(w, [Free EXCEPT !.at = "upload_file", !.kind = "image", !.user = h])
  /\ UNCHANGED <<load, contacts, file, media, holder, avatar, linked>>

\* storage.upload, which may fail.
StoreFile(w) ==
  /\ Doing(w, "upload_file")
  /\ \/ \E i \in Images :
          /\ file[i] = "absent"
          /\ file' = [file EXCEPT ![i] = "live"]
          /\ task' = [task EXCEPT ![w].at = "upload_row", ![w].row = i]
     \/ Answer(w) /\ file' = file
  /\ UNCHANGED <<load, contacts, media, holder, avatar, host, linked>>

InsertMedia(w) ==
  /\ Doing(w, "upload_row")
  /\ media' = [media EXCEPT ![task[w].row] = "live"]
  /\ Then(w, "upload_attach")
  /\ UNCHANGED <<load, contacts, file, holder, avatar, host, linked>>

\* Fault: what the new image replaces is discarded first.
AttachAvatarLast(w) ==
  LET f == task[w]
  IN /\ Doing(w, "upload_attach") /\ f.kind = "avatar"
     /\ IF f.seen # Nil
        THEN /\ task' = [task EXCEPT ![w].at = "discard_read", ![w].row = f.seen]
             /\ avatar' = avatar
        ELSE avatar' = [avatar EXCEPT ![f.user] = f.row] /\ Answer(w)
     /\ UNCHANGED <<load, contacts, file, media, holder, host, linked>>

\* The new image is shown; what it replaces is discarded afterwards.
AttachAvatar(w) ==
  LET f == task[w]
  IN /\ Doing(w, "upload_attach") /\ f.kind = "avatar"
     /\ IF Live(f.user)
        THEN /\ avatar' = [avatar EXCEPT ![f.user] = f.row]
             /\ IF f.seen # Nil
                THEN task' = [task EXCEPT ![w].at = "discard_read",
                                          ![w].row = f.seen]
                ELSE Answer(w)
        ELSE Answer(w) /\ avatar' = avatar
     /\ UNCHANGED <<load, contacts, file, media, holder, host, linked>>

\* The host is inserted with its image; when that fails (its conversation or
\* its owner is gone) the upload is rolled back.
AttachWithHost(w) ==
  LET f == task[w]
  IN /\ Doing(w, "upload_attach") /\ f.kind = "host"
     /\ \/ /\ host[f.user] = "absent"
           /\ host' = [host EXCEPT ![f.user] = "live"]
           /\ holder' = [holder EXCEPT ![f.row] = f.user]
           /\ Answer(w)
        \/ Then(w, "discard_read") /\ UNCHANGED <<host, holder>>
     /\ UNCHANGED <<load, contacts, file, media, avatar, linked>>

\* A host deleted meanwhile refuses the image, which is not rolled back.
AttachToHost(w) ==
  LET f == task[w]
  IN /\ Doing(w, "upload_attach") /\ f.kind = "image"
     /\ holder' = IF host[f.user] = "live"
                  THEN [holder EXCEPT ![f.row] = f.user] ELSE holder
     /\ Answer(w)
     /\ UNCHANGED <<load, contacts, file, media, avatar, host, linked>>

----------------------------------------------------------------------------
\* MediasService.delete: an image without a row has no file to delete, and
\* the handler fails.
ReadDiscarded(w) ==
  /\ Doing(w, "discard_read")
  /\ IF media[task[w].row] = "live" THEN Then(w, "discard_file") ELSE Answer(w)
  /\ UNCHANGED <<load, contacts, uploads>>

\* Fault: a failure of the storage is ignored.
DiscardFileQuietly(w) ==
  /\ Doing(w, "discard_file")
  /\ file' = [file EXCEPT ![task[w].row] = "erased"] \/ file' = file
  /\ Then(w, "discard_row")
  /\ UNCHANGED <<load, contacts, media, holder, avatar, host, linked>>

\* storage.delete: when it fails, the row stays.
DiscardFile(w) ==
  /\ Doing(w, "discard_file")
  /\ \/ /\ file' = [file EXCEPT ![task[w].row] = "erased"]
        /\ Then(w, "discard_row")
     \/ Answer(w) /\ file' = file
  /\ UNCHANGED <<load, contacts, media, holder, avatar, host, linked>>

\* medias.delete: joins of packages and proofs cascade, those of avatars and
\* messages refuse.
Deletable(i) ==
  /\ media[i] = "live"
  /\ \A u \in Users : avatar[u] # i
  /\ holder[i] # Nil => HostKind[holder[i]] # "message"

ErasedMedia(i) ==
  /\ media' = [media EXCEPT ![i] = "erased"]
  /\ holder' = [holder EXCEPT ![i] = Nil]

DiscardRow(w) ==
  /\ Doing(w, "discard_row")
  /\ IF Deletable(task[w].row)
     THEN ErasedMedia(task[w].row) ELSE UNCHANGED <<media, holder>>
  /\ Answer(w)
  /\ UNCHANGED <<load, contacts, file, avatar, host, linked>>

----------------------------------------------------------------------------
\* PackagesService.delete: seen holds the images whose file is still to be
\* deleted, row those whose row is.
DeletePackage(w, h) ==
  /\ Arrives("delete_host")
  /\ HostKind[h] = "package" /\ host[h] = "live" /\ h \notin linked
  /\ Start(w, [Free EXCEPT !.at = "package_images", !.user = h, !.row = {},
                           !.seen = {i \in Images : holder[i] = h}])
  /\ UNCHANGED <<load, contacts, uploads>>

\* The discards of the images run side by side and none stops the others.
DiscardImageFile(w) ==
  LET f == task[w]
  IN /\ Doing(w, "package_images")
     /\ \E i \in f.seen :
          \/ /\ media[i] = "live"
             /\ file' = [file EXCEPT ![i] = "erased"]
             /\ task' = [task EXCEPT ![w].seen = @ \ {i},
                                     ![w].row = @ \union {i}]
          \/ /\ task' = [task EXCEPT ![w].seen = @ \ {i}]
             /\ file' = file
     /\ UNCHANGED <<load, contacts, media, holder, avatar, host, linked>>

DiscardImageRow(w) ==
  LET f == task[w]
  IN /\ Doing(w, "package_images")
     /\ \E i \in f.row :
          /\ IF Deletable(i) THEN ErasedMedia(i)
             ELSE UNCHANGED <<media, holder>>
          /\ task' = [task EXCEPT ![w].row = @ \ {i}]
     /\ UNCHANGED <<load, contacts, file, avatar, host, linked>>

\* packages.delete, refused when a mission took the package meanwhile.
ErasePackage(w) ==
  LET f == task[w]
  IN /\ Doing(w, "package_images") /\ f.seen = {} /\ f.row = {}
     /\ IF host[f.user] = "live" /\ f.user \notin linked
        THEN /\ host' = [host EXCEPT ![f.user] = "erased"]
             /\ holder' = [i \in Images |->
                  IF holder[i] = f.user THEN Nil ELSE holder[i]]
        ELSE UNCHANGED <<host, holder>>
     /\ Answer(w)
     /\ UNCHANGED <<load, contacts, file, media, avatar, linked>>

\* A mission takes a package (MissionsService.addPackages).
LinkPackage(h) ==
  /\ Arrives("delete_host")
  /\ HostKind[h] = "package" /\ host[h] = "live"
  /\ linked' = linked \union {h}
  /\ UNCHANGED <<load, task, contacts, file, media, holder, avatar, host>>

\* A message is deleted, or a mission with its proofs: the join goes, the
\* image and its file stay.
EraseHost(h) ==
  /\ Arrives("delete_host")
  /\ HostKind[h] # "package" /\ host[h] = "live"
  /\ host' = [host EXCEPT ![h] = "erased"]
  /\ holder' = [i \in Images |-> IF holder[i] = h THEN Nil ELSE holder[i]]
  /\ UNCHANGED <<load, task, contacts, file, media, avatar, linked>>

----------------------------------------------------------------------------
\* A media deleted from the database has no file left in the storage
\* (DOCUMENTATION.md, "Suppression Cloudinary": "le fichier est également
\* supprimé"), even when the storage fails or several requests discard it.
ErasedMediaHasNoFile ==
  \A i \in Images : media[i] = "erased" => file[i] = "erased"

\* An avatar and the image of a message are never shown without their file:
\* replacing, discarding and rolling back only touch images nobody shows.
ShownImagesAreStored ==
  \A i \in Images :
    \/ \E u \in Users : avatar[u] = i
    \/ holder[i] # Nil /\ HostKind[holder[i]] = "message"
    => file[i] = "live" /\ media[i] = "live"
=============================================================================
