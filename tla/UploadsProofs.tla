---------------------------- MODULE UploadsProofs ----------------------------
(***************************************************************************)
(* Files and their rows, for any number of images, hosts, users and         *)
(* workers, with failures of the storage and restarts: what is shown is     *)
(* stored, and a row that was deleted leaves no file behind.                *)
(***************************************************************************)
EXTENDS PlatformFrames

UploadingSteps == {"upload_file", "upload_row", "upload_attach"}
OwningSteps    == {"upload_row", "upload_attach"}
DiscardSteps   == {"discard_read", "discard_file", "discard_row"}

UploadsTypeOK ==
  /\ file \in [Images -> Lifecycle] /\ media \in [Images -> Lifecycle]
  /\ holder \in [Images -> Hosts \union {Nil}]
  /\ avatar \in [Users -> Images \union {Nil}]

\* An image that an upload has stored and not attached yet is its own.
Owns(w, i)  == task[w].at \in OwningSteps /\ task[w].row = i
NotOwned(i) == \A w \in Workers : ~Owns(w, i)

Unattached(i) == holder[i] = Nil /\ \A u \in Users : avatar[u] # i
OnMessage(i)  == holder[i] # Nil /\ HostKind[holder[i]] = "message"

\* An image that a handler may discard is shown to nobody, and never will be;
\* one that an upload will replace is shown as that avatar at most.
Dropped(i) ==
  /\ file[i] # "absent" /\ NotOwned(i) /\ ~OnMessage(i)
  /\ \A u \in Users : avatar[u] # i
Replaced(i, u) ==
  /\ file[i] # "absent" /\ NotOwned(i) /\ ~OnMessage(i)
  /\ \A v \in Users \ {u} : avatar[v] # i

UploadOperands(w) ==
  task[w].at \in UploadingSteps =>
    IF task[w].kind = "avatar"
    THEN /\ task[w].user \in Users
         /\ task[w].seen # Nil =>
              task[w].seen \in Images /\ Replaced(task[w].seen, task[w].user)
    ELSE task[w].user \in Hosts
OwnedImage(w) ==
  task[w].at \in OwningSteps =>
    /\ task[w].row \in Images /\ file[task[w].row] = "live"
    /\ Unattached(task[w].row)
    /\ task[w].at = "upload_row" => media[task[w].row] = "absent"
    /\ task[w].at = "upload_attach" => media[task[w].row] = "live"
DroppedImage(w) ==
  task[w].at \in DiscardSteps =>
    /\ task[w].row \in Images /\ Dropped(task[w].row)
    /\ task[w].at = "discard_row" => file[task[w].row] = "erased"
DroppedImages(w) ==
  task[w].at = "package_images" =>
    /\ task[w].seen \subseteq Images /\ task[w].row \subseteq Images
    /\ \A i \in task[w].seen : Dropped(i)
    /\ \A i \in task[w].row : Dropped(i) /\ file[i] = "erased"

FrameUploadsOK(w) ==
  UploadOperands(w) /\ OwnedImage(w) /\ DroppedImage(w) /\ DroppedImages(w)

OwnersApart ==
  \A v, w \in Workers, i \in Images : Owns(v, i) /\ Owns(w, i) => v = w
ImagesInOnePlace ==
  \A i \in Images, u \in Users : avatar[u] = i =>
    holder[i] = Nil /\ \A v \in Users : avatar[v] = i => v = u
AbsentIsUnused ==
  \A i \in Images : file[i] = "absent" => media[i] = "absent" /\ Unattached(i)

ImagesOK ==
  /\ UploadsTypeOK /\ ImagesInOnePlace /\ AbsentIsUnused
  /\ ErasedMediaHasNoFile /\ ShownImagesAreStored

UploadsInv ==
  /\ FramesOK
  /\ \A w \in Workers : FrameUploadsOK(w)
  /\ OwnersApart
  /\ ImagesOK

\* What a step of worker w may do to an image: files and rows of images that
\* are owned stay, only an owner attaches, only a new file finds an owner.
ImageMoves(w, i) ==
  /\ file[i] # "absent" => file'[i] # "absent"
  /\ file[i] = "erased" => file'[i] = "erased"
  /\ file'[i] = file[i] \/ file[i] = "absent" \/ NotOwned(i)
  /\ media'[i] = media[i] \/ Owns(w, i) \/ NotOwned(i)
  /\ \A u \in Users : avatar'[u] = i => avatar[u] = i \/ Owns(w, i)
  /\ holder'[i] \in {holder[i], Nil} \/ Owns(w, i)
  /\ Owns(w, i)' => Owns(w, i) \/ file[i] = "absent"

\* The frame of another worker stays good.
LEMMA OtherFrame ==
  ASSUME UploadsInv, NEW w \in Workers, NEW steps, GoesTo(w, steps),
         \A i \in Images : ImageMoves(w, i),
         NEW v \in Workers, v # w
  PROVE  FrameUploadsOK(v)'
<1> USE DEF UploadsInv
<1>1. task'[v] = task[v] /\ FrameUploadsOK(v)
  BY DEF GoesTo
<1>2. \A x \in Workers, i \in Images : Owns(x, i)' =>
        Owns(x, i) \/ file[i] = "absent"
  BY DEF GoesTo, ImageMoves, Owns
<1>3. ASSUME NEW i \in Images, NotOwned(i), file[i] # "absent"
      PROVE  NotOwned(i)' /\ (~OnMessage(i) => ~OnMessage(i)')
             /\ \A u \in Users : avatar'[u] = i => avatar[u] = i
  BY <1>2, <1>3 DEF NotOwned, ImageMoves, OnMessage
<1>4. \A i \in Images : Dropped(i) => Dropped(i)'
  BY <1>3 DEF Dropped, ImageMoves
<1>5. \A i \in Images, u \in Users : Replaced(i, u) => Replaced(i, u)'
  BY <1>3 DEF Replaced, ImageMoves
<1>6. UploadOperands(v)'
  BY <1>1, <1>5 DEF UploadOperands, FrameUploadsOK
<1>7. OwnedImage(v)'
  <2> SUFFICES ASSUME task[v].at \in OwningSteps
               PROVE  OwnedImage(v)'
    BY <1>1 DEF OwnedImage
  <2> DEFINE i == task[v].row
  <2>1. i \in Images /\ file[i] = "live" /\ Unattached(i) /\ Owns(v, i)
    BY <1>1 DEF FrameUploadsOK, OwnedImage, Owns
  <2>2. ~Owns(w, i) /\ ~NotOwned(i)
    BY <2>1 DEF OwnersApart, NotOwned
  <2>3. file'[i] = file[i] /\ media'[i] = media[i] /\ holder'[i] = Nil
        /\ \A u \in Users : avatar'[u] # i
    BY <2>1, <2>2 DEF ImageMoves, Unattached
  <2> QED
    BY <1>1, <2>1, <2>3 DEF OwnedImage, FrameUploadsOK, Unattached
<1>8. DroppedImage(v)'
  BY <1>1, <1>4 DEF DroppedImage, FrameUploadsOK, ImageMoves, DiscardSteps
<1>9. DroppedImages(v)'
  BY <1>1, <1>4 DEF DroppedImages, FrameUploadsOK, ImageMoves
<1> QED
  BY <1>6, <1>7, <1>8, <1>9 DEF FrameUploadsOK

\* A step of a worker, once its own frame and the tables are shown good.
LEMMA UploadStep ==
  ASSUME UploadsInv, NEW w \in Workers, NEW steps, GoesTo(w, steps),
         \A i \in Images : ImageMoves(w, i),
         FrameUploadsOK(w)', ImagesOK'
  PROVE  UploadsInv'
<1>1. FramesOK'
  BY DEF UploadsInv, FramesOK, GoesTo
<1>2. \A v \in Workers : FrameUploadsOK(v)'
  BY OtherFrame
<1>3. OwnersApart'
  <2> SUFFICES ASSUME NEW v \in Workers, NEW x \in Workers, NEW i \in Images,
                      Owns(v, i)', Owns(x, i)'
               PROVE  v = x
    BY DEF OwnersApart
  <2>1. \A y \in Workers \ {w} : Owns(y, i)' => Owns(y, i)
    BY DEF GoesTo, Owns
  <2>2. \A y \in Workers : Owns(y, i) => file[i] # "absent"
    BY DEF UploadsInv, FrameUploadsOK, OwnedImage, Owns
  <2>3. Owns(w, i)' => Owns(w, i) \/ file[i] = "absent"
    BY DEF ImageMoves
  <2> QED
    BY <2>1, <2>2, <2>3 DEF UploadsInv, OwnersApart
<1> QED
  BY <1>1, <1>2, <1>3 DEF UploadsInv

\* A frame of another part, or an empty one, holds no image.
LEMMA SomeFrame ==
  ASSUME NEW w \in Workers, task'[w].at \notin UploadsSteps
  PROVE  FrameUploadsOK(w)' /\ \A i \in Images : ~Owns(w, i)'
BY DEF FrameUploadsOK, UploadOperands, OwnedImage, DroppedImage, DroppedImages,
       Owns, UploadsSteps, UploadingSteps, OwningSteps, DiscardSteps

\* A step that stores, attaches and discards nothing; joins may go.
LEMMA Elsewhere ==
  ASSUME UploadsInv, FramesOK',
         \A v \in Workers : task'[v] = task[v] \/ task'[v].at \notin UploadsSteps,
         file' = file, media' = media,
         holder' \in [Images -> Hosts \union {Nil}],
         \A i \in Images : holder'[i] \in {holder[i], Nil},
         avatar' \in [Users -> Images \union {Nil}],
         \A u \in Users : avatar'[u] \in {avatar[u], Nil}
  PROVE  UploadsInv'
<1> USE DEF UploadsInv
<1>1. \A v \in Workers, i \in Images : Owns(v, i)' => Owns(v, i)
  BY SomeFrame DEF Owns
<1>2. \A i \in Images, u \in Users : avatar'[u] = i => avatar[u] = i
  BY HostsAssumption
<1>3. \A i \in Images : OnMessage(i)' => OnMessage(i)
  BY DEF OnMessage
<1>4. \A i \in Images : Dropped(i) => Dropped(i)'
  BY <1>1, <1>2, <1>3 DEF Dropped, NotOwned
<1>5. \A i \in Images, u \in Users : Replaced(i, u) => Replaced(i, u)'
  BY <1>1, <1>2, <1>3 DEF Replaced, NotOwned
<1>6. \A i \in Images : Unattached(i) => Unattached(i)'
  BY <1>2 DEF Unattached
<1>7. ASSUME NEW v \in Workers, task'[v] = task[v]
      PROVE  FrameUploadsOK(v)'
  <2>1. FrameUploadsOK(v)
    OBVIOUS
  <2>2. UploadOperands(v)'
    BY <1>5, <1>7, <2>1 DEF FrameUploadsOK, UploadOperands
  <2>3. OwnedImage(v)'
    BY <1>6, <1>7, <2>1 DEF FrameUploadsOK, OwnedImage
  <2>4. DroppedImage(v)' /\ DroppedImages(v)'
    BY <1>4, <1>7, <2>1 DEF FrameUploadsOK, DroppedImage, DroppedImages
  <2> QED
    BY <2>2, <2>3, <2>4 DEF FrameUploadsOK
<1>8. OwnersApart'
  BY <1>1 DEF OwnersApart
<1>9. ImagesOK'
  <2>1. UploadsTypeOK' /\ ErasedMediaHasNoFile'
    BY DEF ImagesOK, UploadsTypeOK, ErasedMediaHasNoFile
  <2>2. ImagesInOnePlace'
    BY <1>2 DEF ImagesOK, ImagesInOnePlace
  <2>3. AbsentIsUnused'
    BY <1>6 DEF ImagesOK, AbsentIsUnused
  <2>4. ShownImagesAreStored'
    BY <1>2, <1>3 DEF ImagesOK, ShownImagesAreStored, OnMessage
  <2> QED
    BY <2>1, <2>2, <2>3, <2>4 DEF ImagesOK
<1> QED
  BY <1>7, <1>8, <1>9, SomeFrame

----------------------------------------------------------------------------
(* Requests that arrive *)

\* What a worker has at hand when it takes a step.
LEMMA AtHand ==
  ASSUME UploadsInv, NEW w \in Workers
  PROVE  /\ DOMAIN task = Workers /\ FrameOK(task[w])
         /\ FrameUploadsOK(w) /\ ImagesOK
BY DEF UploadsInv, FramesOK

\* A step that writes no table of images.
LEMMA ReaderStep ==
  ASSUME UploadsInv, NEW w \in Workers, NEW steps, GoesTo(w, steps),
         UNCHANGED <<file, media, holder, avatar>>,
         \A i \in Images : Owns(w, i)' => Owns(w, i),
         FrameUploadsOK(w)'
  PROVE  UploadsInv'
<1>1. \A i \in Images : ImageMoves(w, i)
  BY DEF ImageMoves
<1>2. ImagesOK'
  BY DEF UploadsInv, ImagesOK, UploadsTypeOK, ImagesInOnePlace, AbsentIsUnused,
         Unattached, ErasedMediaHasNoFile, ShownImagesAreStored
<1> QED
  BY <1>1, <1>2, UploadStep

\* An image that is shown as an avatar, or held by a package, is not the upload
\* of anyone.
LEMMA ShownIsNotOwned ==
  ASSUME UploadsInv, NEW i \in Images, ~Unattached(i)
  PROVE  NotOwned(i) /\ file[i] # "absent"
BY DEF UploadsInv, ImagesOK, AbsentIsUnused, NotOwned, Owns, FrameUploadsOK,
       OwnedImage

\* The image an upload will replace is the one its user shows.
LEMMA AvatarArrives ==
  ASSUME UploadsInv, NEW w \in Workers, NEW u \in Users, UploadAvatar(w, u),
         UNCHANGED <<login, kyc>>
  PROVE  UploadsInv'
<1> DEFINE f == [Free EXCEPT !.at = "upload_file", !.kind = "avatar",
                             !.user = u, !.seen = avatar[u]]
<1>1. GoesTo(w, UploadsSteps)
  BY UploadsArriveFrames DEF UploadsArrive, UploadsInv
<1>2. task' = [task EXCEPT ![w] = f] /\ UNCHANGED uploads
  BY DEF UploadAvatar, Start
<1>3. f.at = "upload_file" /\ f.kind = "avatar" /\ f.user = u
      /\ f.seen = avatar[u]
  BY DEF Free
<1> HIDE DEF f
<1>4. task'[w] = f
  BY <1>2, AtHand
<1>5. ASSUME avatar[u] # Nil
      PROVE  avatar[u] \in Images /\ Replaced(avatar[u], u)
  <2>1. avatar[u] \in Images
    BY <1>5 DEF UploadsInv, ImagesOK, UploadsTypeOK
  <2>2. NotOwned(avatar[u]) /\ file[avatar[u]] # "absent"
    BY <2>1, ShownIsNotOwned DEF Unattached
  <2> QED
    BY <2>1, <2>2
    DEF Replaced, OnMessage, UploadsInv, ImagesOK, ImagesInOnePlace
<1>6. \A v \in Workers, i \in Images : Owns(v, i)' => Owns(v, i)
  BY <1>1, <1>3, <1>4 DEF Owns, OwningSteps, GoesTo
<1>7. \A i \in Images : Replaced(i, u) => Replaced(i, u)'
  BY <1>2, <1>6 DEF Replaced, NotOwned, OnMessage, uploads
<1>8. FrameUploadsOK(w)'
  BY <1>2, <1>3, <1>4, <1>5, <1>7
  DEF FrameUploadsOK, UploadOperands, OwnedImage, DroppedImage, DroppedImages,
      UploadingSteps, OwningSteps, DiscardSteps
<1> QED
  BY <1>1, <1>2, <1>6, <1>8, ReaderStep DEF uploads

\* An image for a new host, or for one that exists.
LEMMA HostArrives ==
  ASSUME UploadsInv, NEW w \in Workers, NEW h \in Hosts,
         UploadWithHost(w, h) \/ UploadToHost(w, h), UNCHANGED <<login, kyc>>
  PROVE  UploadsInv'
<1>1. GoesTo(w, UploadsSteps)
  BY UploadsArriveFrames DEF UploadsArrive, UploadsInv
<1>2. UNCHANGED <<file, media, holder, avatar>>
  BY DEF UploadWithHost, UploadToHost, uploads
<1>3. task'[w].at = "upload_file" /\ task'[w].kind # "avatar"
      /\ task'[w].user = h
  BY AtHand DEF UploadWithHost, UploadToHost, Start, Free
<1>4. FrameUploadsOK(w)' /\ \A i \in Images : ~Owns(w, i)'
  BY <1>3
  DEF FrameUploadsOK, UploadOperands, OwnedImage, DroppedImage, DroppedImages,
      UploadingSteps, OwningSteps, DiscardSteps, Owns
<1> QED
  BY <1>1, <1>2, <1>4, ReaderStep

\* The images of a package that will be deleted are held by it alone.
LEMMA DeletionArrives ==
  ASSUME UploadsInv, NEW w \in Workers, NEW h \in Hosts, DeletePackage(w, h),
         UNCHANGED <<login, kyc>>
  PROVE  UploadsInv'
<1> DEFINE seen == {i \in Images : holder[i] = h}
           f == [Free EXCEPT !.at = "package_images", !.user = h, !.row = {},
                             !.seen = seen]
<1>1. GoesTo(w, UploadsSteps)
  BY UploadsArriveFrames DEF UploadsArrive, UploadsInv
<1>2. task' = [task EXCEPT ![w] = f] /\ UNCHANGED uploads
      /\ HostKind[h] = "package"
  BY DEF DeletePackage, Start
<1>3. f.at = "package_images" /\ f.seen = seen /\ f.row = {}
  BY DEF Free
<1>4. seen \subseteq Images /\ \A i \in seen : Dropped(i)
  <2> SUFFICES ASSUME NEW i \in seen PROVE Dropped(i)
    OBVIOUS
  <2>1. holder[i] = h /\ h # Nil
    BY HostsAssumption
  <2>2. NotOwned(i) /\ file[i] # "absent"
    BY <2>1, ShownIsNotOwned DEF Unattached
  <2>3. \A u \in Users : avatar[u] # i
    BY <2>1 DEF UploadsInv, ImagesOK, ImagesInOnePlace
  <2> QED
    BY <1>2, <2>1, <2>2, <2>3 DEF Dropped, OnMessage
<1> HIDE DEF f, seen
<1>5. task'[w] = f
  BY <1>2, AtHand
<1>6. \A v \in Workers, i \in Images : Owns(v, i)' => Owns(v, i)
  BY <1>1, <1>3, <1>5 DEF Owns, OwningSteps, GoesTo
<1>7. \A i \in Images : Dropped(i) => Dropped(i)'
  BY <1>2, <1>6 DEF Dropped, NotOwned, OnMessage, uploads
<1>8. FrameUploadsOK(w)'
  BY <1>3, <1>4, <1>5, <1>7
  DEF FrameUploadsOK, UploadOperands, OwnedImage, DroppedImage, DroppedImages,
      UploadingSteps, OwningSteps, DiscardSteps
<1> QED
  BY <1>1, <1>2, <1>6, <1>8, ReaderStep DEF uploads

----------------------------------------------------------------------------
(* Statements *)

\* An answer leaves an empty frame.
LEMMA AnswerStep ==
  ASSUME UploadsInv, NEW w \in Workers, Answer(w),
         UNCHANGED <<file, media, holder, avatar>>
  PROVE  UploadsInv'
<1>1. GoesTo(w, {})
  BY AnswerFrame DEF UploadsInv
<1>2. task'[w].at \notin UploadsSteps
  BY FreeFrame DEF Answer, UploadsInv, FramesOK, UploadsSteps
<1> QED
  BY <1>1, <1>2, SomeFrame, ReaderStep

\* A new file belongs to the upload that stored it.
LEMMA StoreStep ==
  ASSUME UploadsInv, NEW w \in Workers, StoreFile(w), UNCHANGED <<login, kyc>>
  PROVE  UploadsInv'
<1>1. GoesTo(w, UploadsSteps)
  BY UploadsFrames DEF UploadsGoOn, UploadsInv
<1>2. UNCHANGED <<media, holder, avatar>> /\ task[w].at = "upload_file"
  BY DEF StoreFile, Doing
<1>3. CASE Answer(w) /\ file' = file
  BY <1>2, <1>3, AnswerStep
<1>4. ASSUME NEW i \in Images, file[i] = "absent",
             file' = [file EXCEPT ![i] = "live"],
             task' = [task EXCEPT ![w].at = "upload_row", ![w].row = i]
      PROVE  UploadsInv'
  <2>1. /\ task'[w].at = "upload_row" /\ task'[w].row = i
        /\ task'[w].kind = task[w].kind /\ task'[w].user = task[w].user
        /\ task'[w].seen = task[w].seen
    BY <1>4, AtHand DEF FrameOK, FrameFields
  <2>2. file \in [Images -> Lifecycle]
    BY DEF UploadsInv, ImagesOK, UploadsTypeOK
  <2>3. file'[i] = "live" /\ \A j \in Images \ {i} : file'[j] = file[j]
    BY <1>4, <2>2
  <2>4. media[i] = "absent" /\ Unattached(i)
    BY <1>4 DEF UploadsInv, ImagesOK, AbsentIsUnused
  <2>5. \A j \in Images : Owns(w, j)' => j = i
    BY <2>1 DEF Owns
  <2>6. \A j \in Images : ImageMoves(w, j)
    BY <1>2, <1>4, <2>3, <2>5 DEF ImageMoves
  <2>7. \A u \in Users, j \in Images : Replaced(j, u) => Replaced(j, u)'
    BY <1>1, <1>2, <1>4, <2>3, <2>5
    DEF Replaced, NotOwned, OnMessage, Owns, GoesTo
  <2>8. FrameUploadsOK(w)'
    BY <1>2, <2>1, <2>3, <2>4, <2>7, AtHand
    DEF FrameUploadsOK, UploadOperands, OwnedImage, DroppedImage,
        DroppedImages, UploadingSteps, OwningSteps, DiscardSteps, Unattached
  <2>9. ImagesOK'
    <3>1. UploadsTypeOK'
      BY <1>2, <1>4, <2>2 DEF UploadsInv, ImagesOK, UploadsTypeOK, Lifecycle
    <3>2. ErasedMediaHasNoFile' /\ ShownImagesAreStored'
      BY <1>2, <1>4, <2>3
      DEF UploadsInv, ImagesOK, ErasedMediaHasNoFile, ShownImagesAreStored
    <3> QED
      BY <1>2, <2>3, <3>1, <3>2
      DEF UploadsInv, ImagesOK, ImagesInOnePlace, AbsentIsUnused, Unattached
  <2> QED
    BY <1>1, <2>6, <2>8, <2>9, UploadStep
<1> QED
  BY <1>3, <1>4 DEF StoreFile

\* The row of the new file.
LEMMA InsertStep ==
  ASSUME UploadsInv, NEW w \in Workers, InsertMedia(w), UNCHANGED <<login, kyc>>
  PROVE  UploadsInv'
<1> DEFINE i == task[w].row
<1>1. GoesTo(w, UploadsSteps)
  BY UploadsFrames DEF UploadsGoOn, UploadsInv
<1>2. /\ UNCHANGED <<file, holder, avatar>> /\ task[w].at = "upload_row"
      /\ media' = [media EXCEPT ![i] = "live"]
      /\ task' = [task EXCEPT ![w].at = "upload_attach"]
  BY DEF InsertMedia, Doing, Then
<1>3. /\ task'[w].at = "upload_attach" /\ task'[w].row = i
      /\ task'[w].kind = task[w].kind /\ task'[w].user = task[w].user
      /\ task'[w].seen = task[w].seen
  BY <1>2, AtHand DEF FrameOK, FrameFields
<1>4. i \in Images /\ file[i] = "live" /\ Unattached(i) /\ Owns(w, i)
  BY <1>2, AtHand DEF FrameUploadsOK, OwnedImage, OwningSteps, Owns
<1>5. media'[i] = "live" /\ \A j \in Images \ {i} : media'[j] = media[j]
  BY <1>2, <1>4 DEF UploadsInv, ImagesOK, UploadsTypeOK
<1>6. \A v \in Workers, j \in Images : Owns(v, j)' <=> Owns(v, j)
  BY <1>1, <1>2, <1>3 DEF Owns, GoesTo, OwningSteps
<1>7. \A j \in Images : ImageMoves(w, j)
  BY <1>2, <1>4, <1>5, <1>6 DEF ImageMoves
<1>8. \A u \in Users, j \in Images : Replaced(j, u) => Replaced(j, u)'
  BY <1>2, <1>6 DEF Replaced, NotOwned, OnMessage
<1>9. FrameUploadsOK(w)'
  BY <1>2, <1>3, <1>4, <1>5, <1>8, AtHand
  DEF FrameUploadsOK, UploadOperands, OwnedImage, DroppedImage,
      DroppedImages, UploadingSteps, OwningSteps, DiscardSteps, Unattached
<1>10. ImagesOK'
  <2>1. UploadsTypeOK'
    BY <1>2 DEF UploadsInv, ImagesOK, UploadsTypeOK, Lifecycle
  <2>2. ErasedMediaHasNoFile' /\ ShownImagesAreStored'
    BY <1>2, <1>5
    DEF UploadsInv, ImagesOK, ErasedMediaHasNoFile, ShownImagesAreStored
  <2> QED
    BY <1>2, <1>4, <1>5, <2>1, <2>2
    DEF UploadsInv, ImagesOK, ImagesInOnePlace, AbsentIsUnused, Unattached
<1> QED
  BY <1>1, <1>7, <1>9, <1>10, UploadStep

\* The new avatar replaces the former one, which nobody shows from then on.
LEMMA AvatarStep ==
  ASSUME UploadsInv, NEW w \in Workers, AttachAvatar(w), UNCHANGED <<login, kyc>>
  PROVE  UploadsInv'
<1>1. GoesTo(w, UploadsSteps)
  BY UploadsFrames DEF UploadsGoOn, UploadsInv
<1>2. /\ UNCHANGED <<file, holder, media>> /\ task[w].at = "upload_attach"
      /\ task[w].kind = "avatar"
  BY DEF AttachAvatar, Doing
<1>11. PICK i \in Images : i = task[w].row
  BY <1>2, AtHand DEF FrameUploadsOK, OwnedImage, OwningSteps
<1>12. PICK u \in Users : u = task[w].user
  BY <1>2, AtHand DEF FrameUploadsOK, UploadOperands, UploadingSteps
<1>3. /\ file[i] = "live" /\ media[i] = "live" /\ Unattached(i) /\ Owns(w, i)
      /\ task[w].seen # Nil =>
           task[w].seen \in Images /\ Replaced(task[w].seen, u)
  BY <1>2, <1>11, <1>12, AtHand
  DEF FrameUploadsOK, OwnedImage, UploadOperands, OwningSteps, UploadingSteps,
      Owns
<1>4. CASE avatar' = avatar /\ Answer(w)
  BY <1>2, <1>4, AnswerStep
<1>5. CASE /\ avatar' = [avatar EXCEPT ![u] = i]
           /\ \/ Answer(w)
              \/ /\ task[w].seen # Nil
                 /\ task' = [task EXCEPT ![w].at = "discard_read",
                                         ![w].row = task[w].seen]
  <2>1. avatar'[u] = i /\ \A v \in Users \ {u} : avatar'[v] = avatar[v]
    BY <1>3, <1>5 DEF UploadsInv, ImagesOK, UploadsTypeOK
  <2>2. ImagesOK'
    <3>1. UploadsTypeOK'
      BY <1>2, <1>3, <1>5 DEF UploadsInv, ImagesOK, UploadsTypeOK
    <3>2. ImagesInOnePlace'
      BY <1>2, <1>3, <2>1
      DEF UploadsInv, ImagesOK, ImagesInOnePlace, Unattached
    <3>3. AbsentIsUnused'
      BY <1>2, <1>3, <2>1
      DEF UploadsInv, ImagesOK, AbsentIsUnused, Unattached
    <3>4. ErasedMediaHasNoFile'
      BY <1>2 DEF UploadsInv, ImagesOK, ErasedMediaHasNoFile
    <3>5. ShownImagesAreStored'
      BY <1>2, <1>3, <2>1 DEF UploadsInv, ImagesOK, ShownImagesAreStored
    <3> QED
      BY <3>1, <3>2, <3>3, <3>4, <3>5 DEF ImagesOK
  <2>3. CASE Answer(w)
    <3>1. task'[w].at \notin UploadsSteps
      BY <2>3, FreeFrame DEF Answer, UploadsInv, FramesOK, UploadsSteps
    <3>2. FrameUploadsOK(w)' /\ \A j \in Images : ~Owns(w, j)'
      BY <3>1, SomeFrame
    <3>3. \A j \in Images : ImageMoves(w, j)
      BY <1>2, <1>3, <2>1, <3>2 DEF ImageMoves
    <3> QED
      BY <1>1, <2>2, <3>2, <3>3, UploadStep
  <2>4. CASE task[w].seen # Nil
             /\ task' = [task EXCEPT ![w].at = "discard_read",
                                     ![w].row = task[w].seen]
    <3>1. PICK s \in Images : s = task[w].seen
      BY <1>3, <2>4
    <3>2. task'[w].at = "discard_read" /\ task'[w].row = s
      BY <2>4, <3>1, AtHand DEF FrameOK, FrameFields
    <3>3. \A j \in Images : ~Owns(w, j)'
      BY <3>2 DEF Owns, OwningSteps
    <3>4. \A j \in Images : ImageMoves(w, j)
      BY <1>2, <1>3, <2>1, <3>3 DEF ImageMoves
    <3>5. Replaced(s, u)
      BY <1>3, <2>4, <3>1
    <3>6. NotOwned(s)'
      BY <1>1, <3>3, <3>5 DEF Replaced, NotOwned, Owns, GoesTo
    <3>7. s # i
      BY <1>3, <3>5 DEF Replaced, NotOwned
    <3>8. \A v \in Users : avatar'[v] # s
      BY <2>1, <3>5, <3>7 DEF Replaced
    <3>9. Dropped(s)'
      BY <1>2, <3>5, <3>6, <3>8 DEF Dropped, Replaced, OnMessage
    <3>10. FrameUploadsOK(w)'
      BY <3>2, <3>9
      DEF FrameUploadsOK, UploadOperands, OwnedImage, DroppedImage,
          DroppedImages, UploadingSteps, OwningSteps, DiscardSteps
    <3> QED
      BY <1>1, <2>2, <3>4, <3>10, UploadStep
  <2> QED
    BY <1>5, <2>3, <2>4
<1> QED
  BY <1>4, <1>5, <1>11, <1>12 DEF AttachAvatar

\* The image is attached to its host, or its upload is rolled back.
LEMMA HostStep ==
  ASSUME UploadsInv, NEW w \in Workers, AttachWithHost(w) \/ AttachToHost(w),
         UNCHANGED <<login, kyc>>
  PROVE  UploadsInv'
<1>1. GoesTo(w, UploadsSteps)
  BY UploadsFrames DEF UploadsGoOn, UploadsInv
<1>2. /\ UNCHANGED <<file, avatar, media>> /\ task[w].at = "upload_attach"
      /\ task[w].kind # "avatar"
  BY DEF AttachWithHost, AttachToHost, Doing
<1>11. PICK i \in Images : i = task[w].row
  BY <1>2, AtHand DEF FrameUploadsOK, OwnedImage, OwningSteps
<1>12. PICK h \in Hosts : h = task[w].user
  BY <1>2, AtHand DEF FrameUploadsOK, UploadOperands, UploadingSteps
<1>3. /\ file[i] = "live" /\ media[i] = "live"
      /\ Unattached(i) /\ Owns(w, i)
  BY <1>2, <1>11, AtHand
  DEF FrameUploadsOK, OwnedImage, UploadOperands, OwningSteps, UploadingSteps,
      Owns
<1>4. CASE holder' = holder /\ Answer(w)
  BY <1>2, <1>4, AnswerStep
<1>5. CASE holder' = [holder EXCEPT ![i] = h] /\ Answer(w)
  <2>1. holder'[i] = h /\ \A j \in Images \ {i} : holder'[j] = holder[j]
    BY <1>3, <1>5 DEF UploadsInv, ImagesOK, UploadsTypeOK
  <2>2. task'[w].at \notin UploadsSteps
    BY <1>5, FreeFrame DEF Answer, UploadsInv, FramesOK, UploadsSteps
  <2>3. FrameUploadsOK(w)' /\ \A j \in Images : ~Owns(w, j)'
    BY <2>2, SomeFrame
  <2>4. \A j \in Images : ImageMoves(w, j)
    BY <1>2, <1>3, <2>1, <2>3 DEF ImageMoves
  <2>5. ImagesOK'
    <3>1. UploadsTypeOK'
      BY <1>2, <1>3, <1>5 DEF UploadsInv, ImagesOK, UploadsTypeOK
    <3>2. ImagesInOnePlace'
      BY <1>2, <1>3, <2>1
      DEF UploadsInv, ImagesOK, ImagesInOnePlace, Unattached
    <3>3. AbsentIsUnused'
      BY <1>2, <1>3, <2>1
      DEF UploadsInv, ImagesOK, AbsentIsUnused, Unattached
    <3>4. ErasedMediaHasNoFile'
      BY <1>2 DEF UploadsInv, ImagesOK, ErasedMediaHasNoFile
    <3>5. ShownImagesAreStored'
      BY <1>2, <1>3, <2>1 DEF UploadsInv, ImagesOK, ShownImagesAreStored
    <3> QED
      BY <3>1, <3>2, <3>3, <3>4, <3>5 DEF ImagesOK
  <2> QED
    BY <1>1, <2>3, <2>4, <2>5, UploadStep
<1>6. CASE holder' = holder /\ task' = [task EXCEPT ![w].at = "discard_read"]
  <2>1. task'[w].at = "discard_read" /\ task'[w].row = i
    BY <1>6, <1>11, AtHand DEF FrameOK, FrameFields
  <2>2. \A j \in Images : ~Owns(w, j)'
    BY <2>1 DEF Owns, OwningSteps
  <2>3. NotOwned(i)'
    <3> SUFFICES ASSUME NEW v \in Workers, Owns(v, i)' PROVE FALSE
      BY DEF NotOwned
    <3>1. v # w
      BY <1>3, <2>2
    <3>2. Owns(v, i)
      BY <1>1, <3>1 DEF Owns, GoesTo
    <3> QED
      BY <1>3, <3>1, <3>2 DEF UploadsInv, OwnersApart
  <2>4. Dropped(i)'
    BY <1>2, <1>3, <1>6, <2>3 DEF Dropped, Unattached, OnMessage
  <2>5. FrameUploadsOK(w)'
    BY <1>3, <2>1, <2>4
    DEF FrameUploadsOK, UploadOperands, OwnedImage, DroppedImage,
        DroppedImages, UploadingSteps, OwningSteps, DiscardSteps
  <2> QED
    BY <1>1, <1>2, <1>6, <2>2, <2>5, ReaderStep
<1> QED
  BY <1>4, <1>5, <1>6, <1>11, <1>12 DEF AttachWithHost, AttachToHost, Then

----------------------------------------------------------------------------
(* Discards *)

\* An image that is dropped stays so while the tables keep what they show and
\* no upload takes it.
LEMMA DroppedStays ==
  ASSUME UploadsInv, NEW w \in Workers, NEW steps, GoesTo(w, steps),
         \A i \in Images : file[i] # "absent" => file'[i] # "absent",
         avatar' = avatar,
         \A i \in Images : holder'[i] \in {holder[i], Nil},
         \A i \in Images : ~Owns(w, i)',
         NEW i \in Images, Dropped(i)
  PROVE  Dropped(i)'
<1>1. NotOwned(i)'
  BY DEF Dropped, NotOwned, Owns, GoesTo
<1>2. ~OnMessage(i)'
  BY DEF Dropped, OnMessage
<1> QED
  BY <1>1, <1>2 DEF Dropped

\* What a discard has at hand.
LEMMA DiscardAtHand ==
  ASSUME UploadsInv, NEW w \in Workers, task[w].at \in DiscardSteps
  PROVE  /\ task[w].row \in Images /\ Dropped(task[w].row)
         /\ task[w].at = "discard_row" => file[task[w].row] = "erased"
BY AtHand DEF FrameUploadsOK, DroppedImage

\* A frame that discards one image.
LEMMA DiscardFrame ==
  ASSUME NEW w \in Workers, NEW i \in Images, task'[w].at \in DiscardSteps,
         task'[w].row = i, Dropped(i)',
         task'[w].at = "discard_row" => file'[i] = "erased"
  PROVE  FrameUploadsOK(w)'
BY DEF FrameUploadsOK, UploadOperands, OwnedImage, DroppedImage, DroppedImages,
       UploadingSteps, OwningSteps, DiscardSteps

\* The row of the image is read.
LEMMA ReadDiscardedStep ==
  ASSUME UploadsInv, NEW w \in Workers, ReadDiscarded(w),
         UNCHANGED <<login, kyc>>
  PROVE  UploadsInv'
<1>1. GoesTo(w, UploadsSteps)
  BY UploadsFrames DEF UploadsGoOn, UploadsInv
<1>2. UNCHANGED <<file, media, holder, avatar>> /\ task[w].at = "discard_read"
  BY DEF ReadDiscarded, Doing, uploads
<1>3. CASE Answer(w)
  BY <1>2, <1>3, AnswerStep
<1>4. CASE task' = [task EXCEPT ![w].at = "discard_file"]
  <2>1. PICK i \in Images : i = task[w].row
    BY <1>2, DiscardAtHand DEF DiscardSteps
  <2>2. Dropped(i)
    BY <1>2, <2>1, DiscardAtHand DEF DiscardSteps
  <2>3. task'[w].at = "discard_file" /\ task'[w].row = i
    BY <1>4, <2>1, AtHand DEF FrameOK, FrameFields
  <2>4. \A j \in Images : ~Owns(w, j)'
    BY <2>3 DEF Owns, OwningSteps
  <2>5. Dropped(i)'
    BY <1>1, <1>2, <2>2, <2>4, DroppedStays
  <2>6. FrameUploadsOK(w)'
    BY <2>3, <2>5, DiscardFrame DEF DiscardSteps
  <2> QED
    BY <1>1, <1>2, <2>4, <2>6, ReaderStep
<1> QED
  BY <1>3, <1>4 DEF ReadDiscarded, Then

\* A file that is erased was shown to nobody.
LEMMA EraseFile ==
  ASSUME UploadsInv, NEW w \in Workers, NEW steps, GoesTo(w, steps),
         UNCHANGED <<media, holder, avatar>>,
         NEW i \in Images, Dropped(i), file' = [file EXCEPT ![i] = "erased"],
         \A j \in Images : ~Owns(w, j)',
         FrameUploadsOK(w)'
  PROVE  UploadsInv'
<1>1. file \in [Images -> Lifecycle]
  BY DEF UploadsInv, ImagesOK, UploadsTypeOK
<1>2. file'[i] = "erased" /\ \A j \in Images \ {i} : file'[j] = file[j]
  BY <1>1
<1>3. \A j \in Images : ImageMoves(w, j)
  BY <1>2 DEF ImageMoves, Dropped
<1>4. ImagesOK'
  <2>1. UploadsTypeOK'
    BY <1>1 DEF UploadsInv, ImagesOK, UploadsTypeOK, Lifecycle
  <2>2. ErasedMediaHasNoFile'
    BY <1>2 DEF UploadsInv, ImagesOK, ErasedMediaHasNoFile
  <2>3. ShownImagesAreStored'
    BY <1>2
    DEF UploadsInv, ImagesOK, ShownImagesAreStored, Dropped, OnMessage
  <2> QED
    BY <1>2, <2>1, <2>2, <2>3
    DEF UploadsInv, ImagesOK, ImagesInOnePlace, AbsentIsUnused, Unattached
<1> QED
  BY <1>3, <1>4, UploadStep

\* The file is deleted in the storage, or that fails.
LEMMA DiscardFileStep ==
  ASSUME UploadsInv, NEW w \in Workers, DiscardFile(w), UNCHANGED <<login, kyc>>
  PROVE  UploadsInv'
<1>1. GoesTo(w, UploadsSteps)
  BY UploadsFrames DEF UploadsGoOn, UploadsInv
<1>2. UNCHANGED <<media, holder, avatar>> /\ task[w].at = "discard_file"
  BY DEF DiscardFile, Doing
<1>3. CASE Answer(w) /\ file' = file
  BY <1>2, <1>3, AnswerStep
<1>4. PICK i \in Images : i = task[w].row
  BY <1>2, DiscardAtHand DEF DiscardSteps
<1>5. CASE /\ file' = [file EXCEPT ![i] = "erased"]
           /\ task' = [task EXCEPT ![w].at = "discard_row"]
  <2>1. Dropped(i)
    BY <1>2, <1>4, DiscardAtHand DEF DiscardSteps
  <2>2. file'[i] = "erased" /\ \A j \in Images \ {i} : file'[j] = file[j]
    BY <1>5 DEF UploadsInv, ImagesOK, UploadsTypeOK
  <2>3. task'[w].at = "discard_row" /\ task'[w].row = i
    BY <1>4, <1>5, AtHand DEF FrameOK, FrameFields
  <2>4. \A j \in Images : ~Owns(w, j)'
    BY <2>3 DEF Owns, OwningSteps
  <2>5. \A j \in Images : file[j] # "absent" => file'[j] # "absent"
    BY <2>2
  <2>6. Dropped(i)'
    BY <1>1, <1>2, <2>1, <2>4, <2>5, DroppedStays
  <2>7. FrameUploadsOK(w)'
    BY <2>2, <2>3, <2>6, DiscardFrame DEF DiscardSteps
  <2> QED
    BY <1>1, <1>2, <1>5, <2>1, <2>4, <2>7, EraseFile
<1> QED
  BY <1>3, <1>4, <1>5 DEF DiscardFile, Then

\* A row that is deleted had lost its file, and takes its join along.
LEMMA EraseMedia ==
  ASSUME UploadsInv, NEW w \in Workers, NEW steps, GoesTo(w, steps),
         UNCHANGED <<file, avatar>>,
         NEW i \in Images, Dropped(i), file[i] = "erased", ErasedMedia(i),
         \A j \in Images : ~Owns(w, j)',
         FrameUploadsOK(w)'
  PROVE  UploadsInv'
<1>1. media'[i] = "erased" /\ \A j \in Images \ {i} : media'[j] = media[j]
  BY DEF UploadsInv, ImagesOK, UploadsTypeOK, ErasedMedia
<1>2. holder'[i] = Nil /\ \A j \in Images \ {i} : holder'[j] = holder[j]
  BY DEF UploadsInv, ImagesOK, UploadsTypeOK, ErasedMedia
<1>3. \A j \in Images : ImageMoves(w, j)
  BY <1>1, <1>2 DEF ImageMoves, Dropped
<1>4. ImagesOK'
  <2>1. UploadsTypeOK'
    BY DEF UploadsInv, ImagesOK, UploadsTypeOK, Lifecycle, ErasedMedia
  <2>2. ErasedMediaHasNoFile'
    BY <1>1 DEF UploadsInv, ImagesOK, ErasedMediaHasNoFile
  <2>3. ShownImagesAreStored'
    BY <1>1, <1>2 DEF UploadsInv, ImagesOK, ShownImagesAreStored, Dropped
  <2>4. ImagesInOnePlace'
    BY <1>2 DEF UploadsInv, ImagesOK, ImagesInOnePlace
  <2>5. AbsentIsUnused'
    BY <1>1, <1>2 DEF UploadsInv, ImagesOK, AbsentIsUnused, Unattached
  <2> QED
    BY <2>1, <2>2, <2>3, <2>4, <2>5 DEF ImagesOK
<1> QED
  BY <1>3, <1>4, UploadStep

\* The row is deleted, unless a join refuses.
LEMMA DiscardRowStep ==
  ASSUME UploadsInv, NEW w \in Workers, DiscardRow(w), UNCHANGED <<login, kyc>>
  PROVE  UploadsInv'
<1>1. GoesTo(w, UploadsSteps)
  BY UploadsFrames DEF UploadsGoOn, UploadsInv
<1>2. UNCHANGED <<file, avatar>> /\ task[w].at = "discard_row" /\ Answer(w)
  BY DEF DiscardRow, Doing
<1>3. CASE UNCHANGED <<media, holder>>
  BY <1>2, <1>3, AnswerStep
<1>4. CASE ErasedMedia(task[w].row)
  <2>1. /\ task[w].row \in Images /\ Dropped(task[w].row)
        /\ file[task[w].row] = "erased"
    BY <1>2, DiscardAtHand DEF DiscardSteps
  <2>2. task'[w].at \notin UploadsSteps
    BY <1>2, FreeFrame DEF Answer, UploadsInv, FramesOK, UploadsSteps
  <2>3. FrameUploadsOK(w)' /\ \A j \in Images : ~Owns(w, j)'
    BY <2>2, SomeFrame
  <2> QED
    BY <1>1, <1>2, <1>4, <2>1, <2>3, EraseMedia
<1> QED
  BY <1>3, <1>4 DEF DiscardRow

----------------------------------------------------------------------------
(* The images of a package that is deleted *)

\* A frame that discards several images.
LEMMA PackageFrame ==
  ASSUME NEW w \in Workers, task'[w].at = "package_images",
         task'[w].seen \subseteq Images, task'[w].row \subseteq Images,
         \A i \in task'[w].seen : Dropped(i)',
         \A i \in task'[w].row : Dropped(i)' /\ file'[i] = "erased"
  PROVE  FrameUploadsOK(w)' /\ \A i \in Images : ~Owns(w, i)'
BY DEF FrameUploadsOK, UploadOperands, OwnedImage, DroppedImage, DroppedImages,
       UploadingSteps, OwningSteps, DiscardSteps, Owns

\* One of its files is deleted, or that fails.
LEMMA DiscardImageFileStep ==
  ASSUME UploadsInv, NEW w \in Workers, DiscardImageFile(w),
         UNCHANGED <<login, kyc>>
  PROVE  UploadsInv'
<1>1. GoesTo(w, UploadsSteps)
  BY UploadsFrames DEF UploadsGoOn, UploadsInv
<1>2. UNCHANGED <<media, holder, avatar>> /\ task[w].at = "package_images"
  BY DEF DiscardImageFile, Doing
<1>3. /\ task[w].seen \subseteq Images /\ task[w].row \subseteq Images
      /\ \A j \in task[w].seen : Dropped(j)
      /\ \A j \in task[w].row : Dropped(j) /\ file[j] = "erased"
  BY <1>2, AtHand DEF FrameUploadsOK, DroppedImages
<1>4. PICK i \in task[w].seen :
        \/ /\ file' = [file EXCEPT ![i] = "erased"]
           /\ task' = [task EXCEPT ![w].seen = @ \ {i},
                                   ![w].row = @ \union {i}]
        \/ task' = [task EXCEPT ![w].seen = @ \ {i}] /\ file' = file
  BY DEF DiscardImageFile
<1>5. i \in Images /\ Dropped(i)
  BY <1>3
<1>6. /\ task'[w].at = "package_images"
      /\ task'[w].seen = task[w].seen \ {i}
  BY <1>2, <1>4, AtHand DEF FrameOK, FrameFields
<1>7. \A j \in Images : ~Owns(w, j)'
  BY <1>6 DEF Owns, OwningSteps
<1>8. CASE task' = [task EXCEPT ![w].seen = @ \ {i}] /\ file' = file
  <2>1. task'[w].row = task[w].row
    BY <1>8, AtHand DEF FrameOK, FrameFields
  <2>2. \A j \in Images : Dropped(j) => Dropped(j)'
    BY <1>1, <1>2, <1>7, <1>8, DroppedStays
  <2>3. FrameUploadsOK(w)'
    BY <1>3, <1>6, <1>8, <2>1, <2>2, PackageFrame
  <2> QED
    BY <1>1, <1>2, <1>7, <1>8, <2>3, ReaderStep
<1>9. CASE /\ file' = [file EXCEPT ![i] = "erased"]
           /\ task' = [task EXCEPT ![w].seen = @ \ {i},
                                   ![w].row = @ \union {i}]
  <2>1. task'[w].row = task[w].row \union {i}
    BY <1>9, AtHand DEF FrameOK, FrameFields
  <2>2. file'[i] = "erased" /\ \A j \in Images \ {i} : file'[j] = file[j]
    BY <1>5, <1>9 DEF UploadsInv, ImagesOK, UploadsTypeOK
  <2>3. \A j \in Images : file[j] # "absent" => file'[j] # "absent"
    BY <2>2
  <2>4. \A j \in Images : Dropped(j) => Dropped(j)'
    BY <1>1, <1>2, <1>7, <2>3, DroppedStays
  <2>5. FrameUploadsOK(w)'
    BY <1>3, <1>5, <1>6, <2>1, <2>2, <2>4, PackageFrame
  <2> QED
    BY <1>1, <1>2, <1>5, <1>7, <1>9, <2>5, EraseFile
<1> QED
  BY <1>4, <1>8, <1>9

\* One of its rows is deleted.
LEMMA DiscardImageRowStep ==
  ASSUME UploadsInv, NEW w \in Workers, DiscardImageRow(w),
         UNCHANGED <<login, kyc>>
  PROVE  UploadsInv'
<1>1. GoesTo(w, UploadsSteps)
  BY UploadsFrames DEF UploadsGoOn, UploadsInv
<1>2. UNCHANGED <<file, avatar>> /\ task[w].at = "package_images"
  BY DEF DiscardImageRow, Doing
<1>3. /\ task[w].seen \subseteq Images /\ task[w].row \subseteq Images
      /\ \A j \in task[w].seen : Dropped(j)
      /\ \A j \in task[w].row : Dropped(j) /\ file[j] = "erased"
  BY <1>2, AtHand DEF FrameUploadsOK, DroppedImages
<1>4. PICK i \in task[w].row :
        /\ ErasedMedia(i) \/ UNCHANGED <<media, holder>>
        /\ task' = [task EXCEPT ![w].row = @ \ {i}]
  BY DEF DiscardImageRow
<1>5. i \in Images /\ Dropped(i) /\ file[i] = "erased"
  BY <1>3
<1>6. /\ task'[w].at = "package_images" /\ task'[w].seen = task[w].seen
      /\ task'[w].row = task[w].row \ {i}
  BY <1>2, <1>4, AtHand DEF FrameOK, FrameFields
<1>7. \A j \in Images : ~Owns(w, j)'
  BY <1>6 DEF Owns, OwningSteps
<1>8. \A j \in Images : holder'[j] \in {holder[j], Nil}
  BY <1>4 DEF ErasedMedia, UploadsInv, ImagesOK, UploadsTypeOK
<1>9. \A j \in Images : Dropped(j) => Dropped(j)'
  BY <1>1, <1>2, <1>7, <1>8, DroppedStays
<1>10. FrameUploadsOK(w)'
  BY <1>2, <1>3, <1>6, <1>9, PackageFrame
<1>11. CASE ErasedMedia(i)
  BY <1>1, <1>2, <1>5, <1>7, <1>10, <1>11, EraseMedia
<1>12. CASE UNCHANGED <<media, holder>>
  BY <1>1, <1>2, <1>7, <1>10, <1>12, ReaderStep
<1> QED
  BY <1>4, <1>11, <1>12

\* Workers other than the one that answers keep their frames.
LEMMA AnswerElsewhere ==
  ASSUME UploadsInv, NEW w \in Workers, Answer(w)
  PROVE  /\ FramesOK'
         /\ \A v \in Workers :
              task'[v] = task[v] \/ task'[v].at \notin UploadsSteps
<1>1. GoesTo(w, {})
  BY AnswerFrame DEF UploadsInv
<1> QED
  BY <1>1 DEF UploadsInv, FramesOK, GoesTo, UploadsSteps

\* The package goes with its joins.
LEMMA ErasePackageStep ==
  ASSUME UploadsInv, NEW w \in Workers, ErasePackage(w)
  PROVE  UploadsInv'
<1>1. UNCHANGED <<file, avatar, media>> /\ Answer(w)
  BY DEF ErasePackage
<1>2. /\ holder' \in [Images -> Hosts \union {Nil}]
      /\ \A i \in Images : holder'[i] \in {holder[i], Nil}
  BY DEF ErasePackage, UploadsInv, ImagesOK, UploadsTypeOK
<1>3. /\ avatar' \in [Users -> Images \union {Nil}]
      /\ \A u \in Users : avatar'[u] \in {avatar[u], Nil}
  BY <1>1 DEF UploadsInv, ImagesOK, UploadsTypeOK
<1> QED
  BY <1>1, <1>2, <1>3, AnswerElsewhere, Elsewhere

----------------------------------------------------------------------------
(* The rest of the platform *)

\* A step of another part leaves files, rows and joins alone.
LEMMA OtherPart ==
  ASSUME UploadsInv, NEW w \in Workers, NEW steps, GoesTo(w, steps),
         steps \intersect UploadsSteps = {},
         UNCHANGED <<file, media, holder, avatar>>
  PROVE  UploadsInv'
<1>1. task'[w].at \notin UploadsSteps
  BY DEF GoesTo, UploadsSteps
<1> QED
  BY <1>1, SomeFrame, ReaderStep

\* No part shares a statement with the uploads.
LEMMA PartsApart ==
  /\ ContactsSteps \intersect UploadsSteps = {}
  /\ LoginSteps \intersect UploadsSteps = {}
  /\ IdentitySteps \intersect UploadsSteps = {}
  /\ ExchangesSteps \intersect UploadsSteps = {}
  /\ RoomsSteps \intersect UploadsSteps = {}
  /\ CatalogueSteps \intersect UploadsSteps = {}
BY DEF ContactsSteps, CodeSteps, LinkSteps, EditSteps, LoginSteps, OtpSteps,
       OAuthSteps, IdentitySteps, ExchangesSteps, ChatSteps, MessageSteps,
       AppointmentSteps, RoomsSteps, CatalogueSteps, UploadsSteps

\* A request arrives.
LEMMA ArriveStep ==
  ASSUME UploadsInv, NEW w \in Workers, Arrive(w)
  PROVE  UploadsInv'
<1> USE DEF uploads
<1>0. FramesOK
  BY DEF UploadsInv
<1>1. CASE ContactsArrive(w) /\ UNCHANGED uploads
  BY <1>0, <1>1, ContactsArriveFrames, PartsApart, OtherPart
<1>2. CASE LoginArrive(w) /\ UNCHANGED uploads
  BY <1>0, <1>2, LoginArriveFrames, PartsApart, OtherPart
<1>3. CASE IdentityArrive(w) /\ UNCHANGED uploads
  BY <1>0, <1>3, IdentityArriveFrames, PartsApart, OtherPart
<1>4. CASE UploadsArrive(w) /\ UNCHANGED <<login, kyc>>
  BY <1>4, AvatarArrives, HostArrives, DeletionArrives DEF UploadsArrive
<1>5. CASE ExchangesArrive(w) /\ UNCHANGED uploads
  BY <1>0, <1>5, ExchangesArriveFrames, PartsApart, OtherPart
<1>6. CASE RoomsArrive(w) /\ UNCHANGED uploads
  BY <1>0, <1>6, RoomsArriveFrames, PartsApart, OtherPart
<1>7. CASE CatalogueArrive(w) /\ UNCHANGED uploads
  BY <1>0, <1>7, CatalogueArriveFrames, PartsApart, OtherPart
<1> QED
  BY <1>1, <1>2, <1>3, <1>4, <1>5, <1>6, <1>7 DEF Arrive

\* The deletion of an account takes its avatar out of sight.
LEMMA AccountStep ==
  ASSUME UploadsInv, NEW w \in Workers, DeleteAccountAndRest(w)
  PROVE  UploadsInv'
<1>1. GoesTo(w, IdentitySteps)
  BY IdentityFrames DEF DeleteAccountAndRest, UploadsInv
<1>2. UNCHANGED <<file, media, holder>>
  BY DEF DeleteAccountAndRest
<1>3. /\ avatar' \in [Users -> Images \union {Nil}]
      /\ \A u \in Users : avatar'[u] \in {avatar[u], Nil}
  BY DEF DeleteAccountAndRest, UploadsInv, ImagesOK, UploadsTypeOK
<1>4. /\ FramesOK'
      /\ \A v \in Workers :
           task'[v] = task[v] \/ task'[v].at \notin UploadsSteps
  BY <1>1, PartsApart DEF UploadsInv, FramesOK, GoesTo, UploadsSteps
<1>5. holder' \in [Images -> Hosts \union {Nil}]
  BY <1>2 DEF UploadsInv, ImagesOK, UploadsTypeOK
<1> QED
  BY <1>2, <1>3, <1>4, <1>5, Elsewhere

\* A handler goes on.
LEMMA ContinueStep ==
  ASSUME UploadsInv, NEW w \in Workers, Continue(w)
  PROVE  UploadsInv'
<1> USE DEF uploads
<1>0. FramesOK
  BY DEF UploadsInv
<1>1. CASE ContactsGoOn(w) /\ UNCHANGED uploads
  BY <1>0, <1>1, ContactsFrames, PartsApart, OtherPart
<1>2. CASE LoginGoOn(w) /\ UNCHANGED uploads
  BY <1>0, <1>2, LoginFrames, PartsApart, OtherPart
<1>3. CASE IdentityGoOn(w) /\ UNCHANGED uploads
  BY <1>0, <1>3, IdentityFrames, PartsApart, OtherPart
<1>4. CASE UploadsGoOn(w) /\ UNCHANGED <<login, kyc>>
  BY <1>4, StoreStep, InsertStep, AvatarStep, HostStep, ReadDiscardedStep,
     DiscardFileStep, DiscardRowStep, DiscardImageFileStep,
     DiscardImageRowStep, ErasePackageStep
  DEF UploadsGoOn
<1>5. CASE ExchangesGoOn(w) /\ UNCHANGED uploads
  BY <1>0, <1>5, ExchangesFrames, PartsApart, OtherPart
<1>6. CASE RoomsGoOn(w) /\ UNCHANGED uploads
  BY <1>0, <1>6, RoomsFrames, PartsApart, OtherPart
<1>7. CASE CatalogueGoOn(w) /\ UNCHANGED uploads
  BY <1>0, <1>7, CatalogueFrames, PartsApart, OtherPart
<1>8. CASE DeleteAccountAndRest(w)
  BY <1>8, AccountStep
<1> QED
  BY <1>1, <1>2, <1>3, <1>4, <1>5, <1>6, <1>7, <1>8 DEF Continue

\* What holds no worker only takes joins away.
LEMMA AtOnceStep ==
  ASSUME UploadsInv, AtOnce
  PROVE  UploadsInv'
<1>1. task' = task
  BY AtOnceFrames
<1>2. UNCHANGED <<file, media, avatar>>
  BY DEF AtOnce, UploadsAtOnce, LinkPackage, EraseHost, uploads
<1>3. /\ holder' \in [Images -> Hosts \union {Nil}]
      /\ \A i \in Images : holder'[i] \in {holder[i], Nil}
  BY DEF AtOnce, UploadsAtOnce, LinkPackage, EraseHost, uploads, UploadsInv,
         ImagesOK, UploadsTypeOK
<1>4. /\ avatar' \in [Users -> Images \union {Nil}]
      /\ \A u \in Users : avatar'[u] \in {avatar[u], Nil}
  BY <1>2 DEF UploadsInv, ImagesOK, UploadsTypeOK
<1>5. FramesOK'
  BY <1>1 DEF UploadsInv, FramesOK
<1> QED
  BY <1>1, <1>2, <1>3, <1>4, <1>5, Elsewhere

\* A restart forgets the uploads that were under way; their files stay.
LEMMA RestartStep ==
  ASSUME UploadsInv, Restart
  PROVE  UploadsInv'
<1>1. UNCHANGED <<file, media, holder, avatar>>
  BY DEF Restart, uploads
<1>2. FramesOK' /\ \A v \in Workers : task'[v].at \notin UploadsSteps
  BY FreeFrame DEF Restart, FramesOK, UploadsSteps
<1>3. /\ holder' \in [Images -> Hosts \union {Nil}]
      /\ \A i \in Images : holder'[i] \in {holder[i], Nil}
      /\ avatar' \in [Users -> Images \union {Nil}]
      /\ \A u \in Users : avatar'[u] \in {avatar[u], Nil}
  BY <1>1 DEF UploadsInv, ImagesOK, UploadsTypeOK
<1> QED
  BY <1>1, <1>2, <1>3, Elsewhere

\* Every step keeps the invariant of the uploads.
LEMMA UploadsNext ==
  ASSUME UploadsInv, [Next]_vars
  PROVE  UploadsInv'
<1>1. CASE \E w \in Workers : Arrive(w)
  BY <1>1, ArriveStep
<1>2. CASE \E w \in Workers : Continue(w)
  BY <1>2, ContinueStep
<1>3. CASE AtOnce
  BY <1>3, AtOnceStep
<1>4. CASE Restart
  BY <1>4, RestartStep
<1>5. CASE UNCHANGED vars
  <2>1. UNCHANGED <<task, file, media, holder, avatar>>
    BY <1>5 DEF vars, uploads
  <2>2. FramesOK'
    BY <2>1 DEF UploadsInv, FramesOK
  <2>3. /\ holder' \in [Images -> Hosts \union {Nil}]
        /\ \A i \in Images : holder'[i] \in {holder[i], Nil}
        /\ avatar' \in [Users -> Images \union {Nil}]
        /\ \A u \in Users : avatar'[u] \in {avatar[u], Nil}
    BY <2>1 DEF UploadsInv, ImagesOK, UploadsTypeOK
  <2> QED
    BY <2>1, <2>2, <2>3, Elsewhere
<1> QED
  BY <1>1, <1>2, <1>3, <1>4, <1>5 DEF Next

\* At the start nothing is stored.
LEMMA UploadsStart == Init => UploadsInv
<1> SUFFICES ASSUME Init PROVE UploadsInv
  OBVIOUS
<1>1. FramesOK
  BY FramesInit
<1>2. \A w \in Workers : task[w].at \notin UploadsSteps
  BY FreeFrame DEF Init, TrafficInit, UploadsSteps
<1>3. \A w \in Workers :
        FrameUploadsOK(w) /\ \A i \in Images : ~Owns(w, i)
  BY <1>2
  DEF FrameUploadsOK, UploadOperands, OwnedImage, DroppedImage, DroppedImages,
      Owns, UploadsSteps, UploadingSteps, OwningSteps, DiscardSteps
<1>4. ImagesOK
  BY HostsAssumption
  DEF Init, UploadsInit, ImagesOK, UploadsTypeOK, Lifecycle, ImagesInOnePlace,
      AbsentIsUnused, Unattached, ErasedMediaHasNoFile, ShownImagesAreStored
<1> QED
  BY <1>1, <1>3, <1>4 DEF UploadsInv, OwnersApart

\* The invariant of the uploads, for any instance.
THEOREM UploadsInvariant == Spec => []UploadsInv
<1> QED
  BY UploadsStart, UploadsNext, PTL DEF Spec

\* Files and rows (medias.service.ts, upload and delete): a row that was
\* deleted leaves no file in the storage, whatever fails or races.
THEOREM ErasedMediaIsGone == Spec => []ErasedMediaHasNoFile
<1>1. UploadsInv => ErasedMediaHasNoFile
  BY DEF UploadsInv, ImagesOK
<1> QED
  BY <1>1, UploadsInvariant, PTL

\* What is shown (users.service.ts, createAvatar; messages.service.ts,
\* createMedia): an avatar and the image of a message have their row and file.
THEOREM ShownImagesStand == Spec => []ShownImagesAreStored
<1>1. UploadsInv => ShownImagesAreStored
  BY DEF UploadsInv, ImagesOK
<1> QED
  BY <1>1, UploadsInvariant, PTL
=============================================================================
