--------------------------- MODULE SpeakerRecords ---------------------------
(***************************************************************************)
(* Speakers and the users behind them (SpeakersService).                    *)
(***************************************************************************)
EXTENDS Accounts

CONSTANTS EarlierSpeakerRecords  \* speakers stored before; each is its user's

\* A speaker is named by the request that creates it, or its user.
SpeakerNames == Requests \cup EarlierSpeakerRecords

ASSUME SpeakersAssumption == EarlierSpeakerRecords \subseteq EarlierAccounts

SpeakerDoc == [user : AccountNames \cup {None}, status : EntityStatus, edited : BOOLEAN]
NoSpeaker == [user |-> None, status |-> "active", edited |-> FALSE]

VARIABLES speakers  \* speakers[s]: Speaker; user None: not stored

SpeakerIsHere(s) == speakers[s].user # None /\ speakers[s].status # "deleted"

SpeakerRequest(op, s, changes) ==
    [op |-> op, speaker |-> s, user |-> speakers[s].user, changes |-> changes,
     old |-> IF SpeakerIsHere(s) THEN accounts[speakers[s].user].avatar ELSE None]

\* createSpeakerWithUser: UsersService.create, then the speaker.
CreateSpeakerWithUser(r) ==
    /\ \/ Start(r, "error", SpeakerRequest("createSpeaker", r, NoChanges))
       \/ \E b \in CreateBodies : Start(r, "emailLookup", SpeakerRequest("createSpeaker", r, b))
    /\ UNCHANGED <<accountVars, speakers>>

InsertSpeaker(r) ==
    /\ pc[r] = "speakerInsert"
    /\ speakers' = [speakers EXCEPT ![r] = [NoSpeaker EXCEPT !.user = r]]
    /\ Ends(r)
    /\ UNCHANGED accountVars

\* update: the speaker is written first, then its user, when the names, the phone
\* or the e-mail are given (ofUser); the update of the user may refuse.
UpdateSpeaker(r) ==
    \E s \in SpeakerNames, ofUser \in BOOLEAN :
    \E b \in {NoChanges} \cup IF ofUser THEN {[email |-> m] : m \in Emails} ELSE {} :
        \/ /\ ~SpeakerIsHere(s)
           /\ Start(r, "error", SpeakerRequest("updateSpeaker", s, NoChanges))
           /\ UNCHANGED <<accountVars, speakers>>
        \/ /\ SpeakerIsHere(s)
           /\ speakers' = [speakers EXCEPT ![s].edited = TRUE]
           /\ \E label \in {IF ofUser THEN "speakerUser" ELSE "ok", "failed"} :
                    Start(r, label, SpeakerRequest("updateSpeaker", s, b))
           /\ UNCHANGED accountVars

\* UsersService.update reads the user.
UpdateSpeakerUser(r) ==
    /\ pc[r] = "speakerUser"
    /\ Goto(r, IF AccountIsHere(local[r].user)
               THEN AfterRead(local[r].user, local[r].changes) ELSE "error")
    /\ UNCHANGED <<accountVars, speakers>>

ChangeSpeakerStatus(r) ==
    /\ \E s \in SpeakerNames, status \in EntityStatus :
        \/ speakers[s].user = None /\ Start(r, "error", SpeakerRequest("speakerStatus", s, NoChanges))
           /\ UNCHANGED speakers
        \/ /\ speakers[s].user # None
           /\ \E label \in {"ok", "failed"} :
                    Start(r, label, SpeakerRequest("speakerStatus", s, NoChanges))
           /\ speakers' = [speakers EXCEPT ![s].status = status]
    /\ UNCHANGED accountVars

(***************************************************************************)
(* The photo is the avatar of the user                                      *)
(***************************************************************************)
UpdatePhoto(r) ==
    /\ \E s \in SpeakerNames : Start(r, IF SpeakerIsHere(s) THEN "photoUpload" ELSE "error",
                                     SpeakerRequest("updatePhoto", s, NoChanges))
    /\ UNCHANGED <<accountVars, speakers>>

UploadPhoto(r) ==
    /\ pc[r] = "photoUpload"
    /\ Upload(r)
    /\ Goto(r, "photoSet")
    /\ UNCHANGED <<accounts, companies, speakers>>

SetPhoto(r) ==
    /\ pc[r] = "photoSet"
    /\ LET u == local[r].user
       IN  SetAccount(r, u, [accounts[u] EXCEPT !.avatar = r],
                      IF local[r].old # None THEN "photoDelete" ELSE "photoAnswer")
    /\ UNCHANGED <<companyVars, speakers>>

DeletePhoto(r) ==
    /\ \E s \in SpeakerNames :
        LET request == SpeakerRequest("deletePhoto", s, NoChanges)
        IN  Start(r, IF SpeakerIsHere(s) /\ request.old # None THEN "photoDelete" ELSE "error",
                  request)
    /\ UNCHANGED <<accountVars, speakers>>

\* Mutant: the photo the user has by now is deleted.
NewPhoto(r) == accounts[local[r].user].avatar

\* The photo as read when the request arrived.
OldPhoto(r) == local[r].old

DeletePhotoFile(r) ==
    /\ pc[r] = "photoDelete"
    /\ DeleteFile(OldPhoto(r))
    /\ Goto(r, IF Asked(r, "updatePhoto") THEN "photoAnswer" ELSE "photoUnset")
    /\ UNCHANGED <<accounts, companies, speakers>>

\* The avatar is set to undefined, which sanitizeFlat drops: it stays.
UnsetPhoto(r) ==
    /\ pc[r] = "photoUnset"
    /\ SetAccount(r, local[r].user, accounts[local[r].user], "photoAnswer")
    /\ UNCHANGED <<companyVars, speakers>>

AnswerPhoto(r) ==
    /\ pc[r] = "photoAnswer"
    /\ Goto(r, IF SpeakerIsHere(local[r].speaker) THEN "ok" ELSE "error")
    /\ UNCHANGED <<accountVars, speakers>>

SpeakerArrive(r) ==
    \/ CreateSpeakerWithUser(r) \/ UpdateSpeaker(r)
    \/ ChangeSpeakerStatus(r) \/ UpdatePhoto(r) \/ DeletePhoto(r)

SpeakerStep(r) ==
    \/ InsertSpeaker(r) \/ UpdateSpeakerUser(r) \/ UploadPhoto(r) \/ SetPhoto(r)
    \/ DeletePhotoFile(r) \/ UnsetPhoto(r) \/ AnswerPhoto(r)

SpeakerLabels == {"speakerInsert", "speakerUser", "photoUpload", "photoSet", "photoDelete",
                  "photoUnset", "photoAnswer"}

SpeakerInit ==
    speakers = [s \in SpeakerNames |->
        IF s \in EarlierSpeakerRecords THEN [NoSpeaker EXCEPT !.user = s] ELSE NoSpeaker]

(***************************************************************************)
(* Properties                                                               *)
(***************************************************************************)
SpeakerTypeOK == speakers \in [SpeakerNames -> SpeakerDoc]

\* An avatar whose file is gone was given by its URL, to this user or another
\* owner, or deleted by a request to delete it: the updates of the photo, however
\* they interleave, leave one that exists.
AvatarFilesExist ==
    \A u \in AccountNames : accounts[u].avatar \notin files \cup {None} =>
        Named(accounts[u].avatar) \/ \E r \in Requests : Asked(r, "deletePhoto") /\ local[r].user = u

\* A speaker's user was created before the speaker.
SpeakersHaveUsers ==
    \A s \in SpeakerNames : speakers[s].user # None => accounts[speakers[s].user].email # None
=============================================================================
