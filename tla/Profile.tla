------------------------------- MODULE Profile -------------------------------
(***************************************************************************)
(* internal/profile: one member's profile, its gallery in three columns    *)
(* (photo_urls, primary_photo_url and the pre-v1 photo_url), and the three *)
(* ways of writing it: the merge of PUT /api/v1/profile, the replacement   *)
(* of PUT /api/v1/profile/photos, from URLs or from media assets, and the  *)
(* form of PUT /api/profile, which is two transactions one after the other.*)
(*                                                                         *)
(* A URL is a member of Photos when validatePhotoURL takes it; BadPhoto    *)
(* stands for the ones it refuses, which an old photo_url may hold.        *)
(***************************************************************************)
EXTENDS Naturals, Sequences, SequencesExt

CONSTANTS Photos,        \* URLs that are accepted
          BadPhoto,      \* a URL that is not
          NoPhoto,       \* no photo: NULL or the empty text
          MaxPhotos,     \* entries of a gallery
          ProfileCalls,  \* requests at once
          MaxSent        \* bound: entries of a request

ASSUME ProfileAssumption ==
  /\ BadPhoto \notin Photos /\ NoPhoto \notin Photos \cup {BadPhoto}
  /\ MaxPhotos \in Nat \ {0} /\ MaxSent \in Nat

VARIABLES profile,  \* the stored row, with the date of birth of users; bio stands
                    \* for the gender, the place and the interests too
          saving    \* what each request is doing

profileVars == <<profile, saving>>

AnyPhotos == Photos \cup {BadPhoto}
UrlLists(n) == UNION {[1 .. k -> AnyPhotos] : k \in 0 .. n}

\* list: the gallery to be; promoted: the photo of the old form; alone
\* (history): no other call has written the gallery since this one read it.
IdleSaving == [replacing |-> FALSE, list |-> <<>>, promoted |-> NoPhoto, alone |-> FALSE]

ProfileTypeOK ==
  /\ profile.bio \in {"", "text"} /\ profile.born \in BOOLEAN
  /\ profile.gallery \in Seq(AnyPhotos)
  /\ {profile.primary, profile.photoUrl} \subseteq AnyPhotos \cup {NoPhoto}
  /\ saving \in [ProfileCalls ->
       [replacing: BOOLEAN, list: Seq(AnyPhotos),
        promoted: AnyPhotos \cup {NoPhoto}, alone: BOOLEAN]]

FirstPhoto(list) == IF list = <<>> THEN NoPhoto ELSE list[1]

\* Registration's empty row, or one whose photo_url the migration has copied.
ProfileInit ==
  /\ \E list \in UrlLists(1) :
       profile = [bio |-> "", born |-> FALSE, gallery |-> list,
                  primary |-> FirstPhoto(list), photoUrl |-> FirstPhoto(list)]
  /\ saving = [c \in ProfileCalls |-> IdleSaving]

Idle(c) == ~saving[c].replacing

-----------------------------------------------------------------------------
\* Fault: the photo is put in front and its old place is kept too.
DropNothing(values, value) == values

\* dropValue.
DropValue(values, value) ==
  FoldLeft(LAMBDA out, v : IF v # value THEN Append(out, v) ELSE out, <<>>, values)

\* The gallery the old form asks for: its photo first, the others after it.
WithPhotoFirst(list, photo) ==
  LET all == <<photo>> \o DropValue(list, photo)
  IN  IF Len(all) > MaxPhotos THEN SubSeq(all, 1, MaxPhotos) ELSE all

\* ValidatePhotoURLs: too many, or one that is refused, refuses the list;
\* repeated ones are dropped.
ListIsTaken(list) == Len(list) <= MaxPhotos /\ BadPhoto \notin ToSet(list)
WithoutRepeats(list) ==
  FoldLeft(LAMBDA out, p : IF p \in ToSet(out) THEN out ELSE Append(out, p), <<>>, list)

\* Repo.SetPhotos: the three columns in one statement.
StoreGallery(c, list) ==
  /\ profile' = [profile EXCEPT !.gallery = list, !.primary = FirstPhoto(list),
                                !.photoUrl = FirstPhoto(list)]
  /\ saving' = [d \in ProfileCalls |->
                  IF d = c THEN IdleSaving ELSE [saving[d] EXCEPT !.alone = FALSE]]

\* The call is answered, or given up.
SavingEnds(c) == saving' = [saving EXCEPT ![c] = IdleSaving]

-----------------------------------------------------------------------------
\* Repo.Update: COALESCE keeps what is not sent.
UpdatedRow(bios) ==
  [profile EXCEPT !.bio = IF bios = {} THEN @ ELSE CHOOSE b \in bios : TRUE]

\* PUT /profile: what is not sent stays, and the date of birth, which is in
\* users, is written in the same transaction.  A refused field refuses them all.
MergeProfile(c, bios, born) ==
  /\ Idle(c)
  /\ profile' = [UpdatedRow(bios) EXCEPT !.born = @ \/ born]
  /\ UNCHANGED saving

\* PUT /profile/photos with URLs.
SetPhotos(c, list) ==
  /\ Idle(c) /\ ListIsTaken(list)
  /\ StoreGallery(c, WithoutRepeats(list))

\* PUT /profile/photos with asset ids: each was the member's own and ready when
\* it was looked up (Media), and nothing holds it until the gallery is written.
SetAssets(c, list) ==
  /\ Idle(c) /\ Len(list) <= MaxPhotos
  /\ saving' = [saving EXCEPT ![c] = [IdleSaving EXCEPT !.replacing = TRUE, !.list = list]]
  /\ UNCHANGED profile

\* PUT /api/profile, the first transaction: every text field is replaced, and
\* the gallery of the row that comes back decides what is asked for next.
SaveForm(c, bio, photo) ==
  /\ Idle(c)
  /\ profile' = UpdatedRow({bio})
  /\ LET current == profile.gallery
     IN  IF photo = FirstPhoto(current) THEN UNCHANGED saving
         ELSE saving' = [saving EXCEPT ![c] = [IdleSaving EXCEPT
                !.replacing = TRUE, !.promoted = photo, !.alone = TRUE,
                !.list = IF photo = NoPhoto THEN <<>> ELSE WithPhotoFirst(current, photo)]]

\* The second write of the two: the list is checked only now, so the text of a
\* form whose photo is refused has been saved.
ReplaceGallery(c) ==
  /\ saving[c].replacing
  /\ IF ListIsTaken(saving[c].list)
     THEN StoreGallery(c, WithoutRepeats(saving[c].list))
     ELSE SavingEnds(c) /\ UNCHANGED profile

\* A statement fails or the process ends.
SavingStops(c) ==
  /\ saving[c].replacing
  /\ SavingEnds(c)
  /\ UNCHANGED profile

\* What the three endpoints may be sent.
PutProfile(c) ==
  \E bios \in {{}, {""}, {"text"}}, born \in BOOLEAN : MergeProfile(c, bios, born)

PutPhotos(c) ==
  \E list \in UrlLists(MaxSent) :
    SetPhotos(c, list) \/ (BadPhoto \notin ToSet(list) /\ SetAssets(c, list))

PutForm(c) ==
  \E bio \in {"", "text"}, photo \in AnyPhotos \cup {NoPhoto} : SaveForm(c, bio, photo)

ProfileNext ==
  \E c \in ProfileCalls :
    PutProfile(c) \/ PutPhotos(c) \/ PutForm(c) \/ ReplaceGallery(c) \/ SavingStops(c)

ProfileSpec == ProfileInit /\ [][ProfileNext]_profileVars

-----------------------------------------------------------------------------
\* Whatever the order of the writes, the gallery keeps its bound and shows no
\* photo twice, the three columns agree on its first photo, and a refused URL is
\* in it only alone, as the migration left it.
GalleryShape ==
  /\ Len(profile.gallery) <= MaxPhotos
  /\ IsInjective(profile.gallery)
  /\ profile.primary = FirstPhoto(profile.gallery)
  /\ profile.photoUrl = profile.primary
  /\ BadPhoto \in ToSet(profile.gallery) => profile.gallery = <<BadPhoto>>

\* A form that puts a photo first keeps the others in their order, each where it
\* was or, if the photo did not stand before it, one further; unless the gallery
\* was written in between.  Only the last one goes, when the photo is new and the
\* gallery full.
KeepsPhotos(c) ==
  LET photo == saving[c].promoted
      old == profile.gallery
      new == profile'.gallery
      Moved(k) == IF \E i \in 1 .. k : old[i] = photo THEN k ELSE k + 1
  IN  (new # old /\ saving[c].replacing /\ ~saving'[c].replacing
         /\ photo # NoPhoto /\ saving[c].alone)
        => /\ FirstPhoto(new) = photo
           /\ Len(new) = IF photo \in ToSet(old) \/ Len(old) = MaxPhotos
                         THEN Len(old) ELSE Len(old) + 1
           /\ \A k \in DOMAIN old :
                old[k] # photo /\ Moved(k) <= MaxPhotos => new[Moved(k)] = old[k]

FormKeepsPhotos == [][\A c \in ProfileCalls : KeepsPhotos(c)]_profileVars
=============================================================================
