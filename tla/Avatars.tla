------------------------------ MODULE Avatars -------------------------------
(***************************************************************************)
(* The avatar of one user: a row of user_avatar, written by uploads of the *)
(* user, by the pictures that logins fetch from the provider in a task of  *)
(* their own, and deleted by admins; a write looks whether there is a row, *)
(* and then updates or inserts it.  What is written is announced to the    *)
(* sessions, which then ask for the avatar again.                          *)
(*                                                                         *)
(* Between the steps of one, others take theirs: the row comes and goes,   *)
(* and so does the user.  An announcement is seen at once (UpdateProxy     *)
(* says what becomes of it).                                               *)
(***************************************************************************)
CONSTANTS
    Painters,  \* uploads, logins and resets at once
    Pictures,
    NoPicture

VARIABLES
    owner,   \* the row of the user is there
    avatar,  \* the row of user_avatar: a picture in its encoding, or NoPicture
    shown,   \* what the sessions of the user and of the others show
    work,    \* what each painter is at
    hushed   \* history: whom the last change was not announced to

avatarVars == <<owner, avatar, shown, work, hushed>>

Sides == {"self", "others"}

(* Uploads are resized and encoded anew; a provider's picture stays as is. *)
Encoded(how, picture) == [how |-> how, picture |-> picture]

Images == {Encoded(how, p) : how \in {"webp", "raw"}, p \in Pictures}

Work(does, at, with) ==
    [does |-> does, at |-> at, with |-> with, crossed |-> FALSE]

Idling == Work("nothing", "rest", NoPicture)

At(p, at) == work[p].at = at

Painting == {p \in Painters : ~At(p, "rest")}

(* The row changed under those that are under way. *)
Crossed(p, q) ==
    [o \in Painters |-> IF o = p THEN q
                        ELSE IF At(o, "rest") THEN work[o] ELSE [work[o] EXCEPT !.crossed = TRUE]]

ASSUME AvatarsOK == NoPicture \notin Images

AvatarsInit ==
    /\ owner = TRUE
    /\ avatar = NoPicture
    /\ shown = [s \in Sides |-> NoPicture]
    /\ work = [p \in Painters |-> Idling]
    /\ hushed = {}

-----------------------------------------------------------------------------
(* update_avatar, of a body that is not too large (413) and an image (400).*)
UpdateAvatar(p, picture) ==
    /\ At(p, "rest")
    /\ work' = [work EXCEPT ![p] = Work("upload", "find", Encoded("webp", picture))]
    /\ UNCHANGED <<owner, avatar, shown, hushed>>

(* sync_image: the task of a login.                                        *)
SyncImage(p, picture) ==
    /\ At(p, "rest") /\ owner
    /\ work' = [work EXCEPT ![p] = Work("login", "fetch", Encoded("raw", picture))]
    /\ UNCHANGED <<owner, avatar, shown, hushed>>

FetchPicture(p) ==
    /\ At(p, "fetch")
    /\ \/ work' = [work EXCEPT ![p].at = "find"]
       \/ work' = [work EXCEPT ![p] = Idling]
    /\ UNCHANGED <<owner, avatar, shown, hushed>>

(* update_user_avatar: the look, and the write that it decides upon.       *)
FindAvatar(p) ==
    /\ At(p, "find")
    /\ work' = [work EXCEPT ![p].at = IF avatar = NoPicture THEN "insert" ELSE "update"]
    /\ UNCHANGED <<owner, avatar, shown, hushed>>

(* Mutant: every write is an insert that replaces. *)
Fits_Upsert(at) == TRUE

(* An update of no row, a second row and a row without a user are errors.  *)
Fits(at) == IF at = "update" THEN avatar # NoPicture ELSE avatar = NoPicture /\ owner

WriteAvatar(p) ==
    /\ At(p, "insert") \/ At(p, "update")
    /\ IF Fits(work[p].at)
         THEN /\ avatar' = work[p].with
              /\ work' = Crossed(p, [work[p] EXCEPT !.at = "announce"])
              /\ hushed' = Sides
         ELSE /\ work' = [work EXCEPT ![p].at = "failed"]
              /\ UNCHANGED <<avatar, hushed>>
    /\ UNCHANGED <<owner, shown>>

(* reset_user_avatar, of a row that need not be there. *)
ResetUserAvatar(p) ==
    /\ At(p, "rest")
    /\ avatar' = NoPicture
    /\ work' = Crossed(p, Work("reset", "announce", NoPicture))
    /\ hushed' = Sides
    /\ UNCHANGED <<owner, shown>>

(* Whom each of them tells: a login only the user.                         *)
Audience(does) == IF does = "login" THEN {"self"} ELSE Sides

(* The sessions fetch the avatar again, which gives them NoPicture on 404. *)
Announce(p) ==
    /\ At(p, "announce")
    /\ LET told == Audience(work[p].does)
       IN  /\ shown' = [s \in Sides |-> IF s \in told THEN avatar ELSE shown[s]]
           /\ hushed' = hushed \ told
    /\ work' = [work EXCEPT ![p] = Idling]
    /\ UNCHANGED <<owner, avatar>>

(* An error of the database is the answer, or the end of the task.         *)
Answered(p) ==
    /\ At(p, "failed")
    /\ work' = [work EXCEPT ![p] = Idling]
    /\ UNCHANGED <<owner, avatar, shown, hushed>>

(* A query fails, or the client is gone and the handler dropped.           *)
GiveUp(p) ==
    /\ p \in Painting /\ ~At(p, "failed")
    /\ work' = [work EXCEPT ![p] = Idling]
    /\ UNCHANGED <<owner, avatar, shown, hushed>>

(* delete_user takes the avatar along. *)
DeleteOwner ==
    /\ owner
    /\ owner' = FALSE
    /\ avatar' = NoPicture
    /\ work' = [o \in Painters |-> IF At(o, "rest") THEN work[o]
                                   ELSE [work[o] EXCEPT !.crossed = TRUE]]
    /\ UNCHANGED <<shown, hushed>>

AvatarsNext ==
    \/ \E p \in Painters :
         \/ \E picture \in Pictures : UpdateAvatar(p, picture) \/ SyncImage(p, picture)
         \/ FetchPicture(p) \/ FindAvatar(p) \/ WriteAvatar(p) \/ ResetUserAvatar(p)
         \/ Announce(p) \/ Answered(p) \/ GiveUp(p)
    \/ DeleteOwner

AvatarsSpec == AvatarsInit /\ [][AvatarsNext]_avatarVars

-----------------------------------------------------------------------------
(* Properties *)

AvatarsTypeOK ==
    /\ owner \in BOOLEAN
    /\ avatar \in Images \union {NoPicture}
    /\ shown \in [Sides -> Images \union {NoPicture}]
    /\ \A p \in Painters :
         /\ work[p].does \in {"nothing", "upload", "login", "reset"}
         /\ work[p].at \in {"rest", "fetch", "find", "insert", "update", "announce", "failed"}
         /\ work[p].with \in Images \union {NoPicture}
    /\ hushed \subseteq Sides

(* The row of an avatar never outlives or comes after that of its user.    *)
(* A write is refused only because another change or the deletion of the   *)
(* user came between its look and it.  And once nothing is under way,      *)
(* every session shows the avatar that is saved, but for those that the    *)
(* last change did not reach: of others when a login made it, of all when  *)
(* it was given up before it was announced.                                *)
AvatarsShown ==
    /\ avatar # NoPicture => owner
    /\ \A p \in Painters : At(p, "failed") => work[p].crossed \/ ~owner
    /\ Painting = {} /\ owner => \A s \in Sides \ hushed : shown[s] = avatar
=============================================================================
