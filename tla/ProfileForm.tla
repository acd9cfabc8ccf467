---- MODULE ProfileForm ----
(***************************************************************************)
(* The page of one's own profile (ProfilePage.tsx) with the handlers that  *)
(* answer it (handler_profile.go): each loads the user, writes one column, *)
(* and answers with the user it had loaded and the column it wrote.  Texts *)
(* and images are numbers, larger when later; avatar and cover are         *)
(* uploaded alike and are one image here.                                  *)
(***************************************************************************)
EXTENDS ClientValues

CONSTANT MaxProfileMoves    \* bound: what the user does

ASSUME ProfileAssumption == MaxProfileMoves \in Nat

VARIABLES
    profile,        \* server: what is saved
    shownProfile,   \* the user of the context, None before it is loaded
    onPage,         \* the page is mounted
    nicknameDraft, editingNickname, savingNickname, uploading,
    profileCalls,   \* requests under way
    profileMoves,
    blurred         \* history: requests overlapped, or one failed

profileVars == <<profile, shownProfile, onPage, nicknameDraft, editingNickname,
                 savingNickname, uploading, profileCalls, profileMoves, blurred>>
pageVars == <<onPage, nicknameDraft, editingNickname, savingNickname, uploading>>

Numbered == 0 .. MaxProfileMoves
Profiles == [nickname : Numbered, image : Numbered]
ProfileCalls == [n : Numbered, kind : {"load", "nickname", "image"}, value : Numbered,
                 step : {"sent", "read", "done"}, user : Profiles \cup {None},
                 mine : BOOLEAN,   \* the page that sent it is still mounted
                 lost : BOOLEAN]   \* given up by the page, not by the server

ProfileTypeOK ==
    /\ profile \in Profiles /\ shownProfile \in Profiles
    /\ onPage \in BOOLEAN /\ nicknameDraft \in Numbered /\ editingNickname \in BOOLEAN
    /\ savingNickname \in BOOLEAN /\ uploading \in BOOLEAN
    /\ profileCalls \subseteq ProfileCalls /\ profileMoves \in Numbered
    /\ blurred \in BOOLEAN

\* The session of before knows the profile as it was when it was stored.
ProfileInit ==
    /\ profile = [nickname |-> 0, image |-> 0] /\ shownProfile = profile
    /\ onPage = FALSE /\ nicknameDraft = 0 /\ editingNickname = FALSE
    /\ savingNickname = FALSE /\ uploading = FALSE
    /\ profileCalls = {} /\ profileMoves = 0 /\ blurred = FALSE

ProfileMove == profileMoves < MaxProfileMoves /\ profileMoves' = profileMoves + 1

Send(kind, value, others) ==
    /\ profileCalls' = others \cup {[n |-> profileMoves', kind |-> kind, value |-> value,
                                     step |-> "sent", user |-> None, mine |-> TRUE, lost |-> FALSE]}
    /\ blurred' = (others # {})

-----------------------------------------------------------------------------
(* The page.                                                               *)

\* loadProfile, when the page is mounted; the requests of an earlier mount go on.
EnterProfile ==
    /\ ~onPage /\ onPage' = TRUE
    /\ ProfileMove
    /\ Send("load", 0, profileCalls)
    /\ nicknameDraft' = 0 /\ editingNickname' = FALSE
    /\ savingNickname' = FALSE /\ uploading' = FALSE
    /\ UNCHANGED <<profile, shownProfile>>

LeaveProfile ==
    /\ onPage /\ onPage' = FALSE
    /\ profileCalls' = {[c EXCEPT !.mine = FALSE] : c \in profileCalls}
    /\ UNCHANGED <<profile, shownProfile, nicknameDraft, editingNickname, savingNickname,
                   uploading, profileMoves, blurred>>

\* A double click on the name, and the button that gives it up, also during a save.
StartNicknameEdit ==
    /\ onPage /\ ~editingNickname /\ editingNickname' = TRUE
    /\ nicknameDraft' = shownProfile.nickname
    /\ UNCHANGED <<profile, shownProfile, onPage, savingNickname, uploading, profileCalls,
                   profileMoves, blurred>>

CancelNicknameEdit ==
    /\ onPage /\ editingNickname /\ editingNickname' = FALSE
    /\ nicknameDraft' = shownProfile.nickname
    /\ UNCHANGED <<profile, shownProfile, onPage, savingNickname, uploading, profileCalls,
                   profileMoves, blurred>>

TypeNickname ==
    /\ onPage /\ editingNickname
    /\ ProfileMove
    /\ nicknameDraft' = profileMoves'
    /\ UNCHANGED <<profile, shownProfile, onPage, editingNickname, savingNickname, uploading,
                   profileCalls, blurred>>

\* The button waits for the save under way, the Enter key does not.
SaveNickname ==
    /\ onPage /\ editingNickname
    /\ ProfileMove
    /\ savingNickname' = TRUE
    /\ Send("nickname", nicknameDraft, profileCalls)
    /\ UNCHANGED <<profile, shownProfile, onPage, nicknameDraft, editingNickname, uploading>>

UploadImage ==
    /\ onPage /\ ~uploading /\ uploading' = TRUE
    /\ ProfileMove
    /\ Send("image", profileMoves', profileCalls)
    /\ UNCHANGED <<profile, shownProfile, onPage, nicknameDraft, editingNickname,
                   savingNickname>>

\* finally: the flag of the request's kind, if the page is still there.
Settle(c) ==
    /\ savingNickname' = (savingNickname /\ ~(c.mine /\ c.kind = "nickname"))
    /\ uploading' = (uploading /\ ~(c.mine /\ c.kind = "image"))

\* updateUser; a load sets the draft even while it is edited, a save closes the editor.
ProfileAnswers(c) ==
    /\ c.step = "done" /\ ~c.lost
    /\ profileCalls' = profileCalls \ {c}
    /\ shownProfile' = c.user
    /\ nicknameDraft' = IF c.mine /\ c.kind \in {"load", "nickname"} THEN c.user.nickname
                                                                   ELSE nicknameDraft
    /\ editingNickname' = (editingNickname /\ ~(c.mine /\ c.kind = "nickname"))
    /\ Settle(c)
    /\ UNCHANGED <<profile, onPage, profileMoves, blurred>>

\* Refused, or lost on its way there or back; or the connection is lost while the server
\* goes on with the request, whose answer nobody will have.
ProfileCallFails(c) ==
    /\ profileCalls' \in {profileCalls \ {c},
                         (profileCalls \ {c}) \cup {[c EXCEPT !.lost = TRUE, !.mine = FALSE]}}
    /\ blurred' = TRUE
    /\ Settle(c)
    /\ UNCHANGED <<profile, shownProfile, onPage, nicknameDraft, editingNickname, profileMoves>>

-----------------------------------------------------------------------------
(* The server.                                                             *)

Progress(c, new) ==
    /\ profileCalls' = (profileCalls \ {c}) \cup {new}
    /\ UNCHANGED <<shownProfile, pageVars, profileMoves, blurred>>

ReadProfile(c) ==
    /\ c.step = "sent"
    /\ Progress(c, [c EXCEPT !.step = IF c.kind = "load" THEN "done" ELSE "read",
                             !.user = profile])
    /\ UNCHANGED profile

\* Wrong variant: the answer is the user that was loaded, without the new column.
AnswerAsRead(c) == c.user
\* The user that was loaded, with the column that was written.
AnswerOf(c) == [c.user EXCEPT ![c.kind] = c.value]

WriteProfile(c) ==
    /\ c.step = "read"
    /\ profile' = [profile EXCEPT ![c.kind] = c.value]
    /\ Progress(c, [c EXCEPT !.step = "done", !.user = AnswerOf(c)])

ProfileNext ==
    \/ EnterProfile \/ LeaveProfile
    \/ StartNicknameEdit \/ CancelNicknameEdit \/ TypeNickname \/ SaveNickname \/ UploadImage
    \/ \E c \in profileCalls :
           ReadProfile(c) \/ WriteProfile(c) \/ ProfileAnswers(c) \/ ProfileCallFails(c)

-----------------------------------------------------------------------------
(* The profile in the header and on the page is the one that is saved, once *)
(* no request is under way, unless the latest of them overlapped - both then *)
(* answer with a user of before (handler_profile.go:57, :91) - or failed.    *)
ShownProfileIsSaved == profileCalls = {} /\ ~blurred => shownProfile = profile
====
