-------------------------------- MODULE Composer --------------------------------
(* One submission in the composer of Business Suite: workflow.execute fills    *)
(* in a page that people use too, reads it back, records that it will click,   *)
(* clicks once, and looks for the post in the calendar.  The page may open     *)
(* with a draft in it, may take what is typed for something else, may turn a   *)
(* switch long after it was clicked, and may be gone at any step.              *)
(*                                                                             *)
(* A step of the code is an action; between two of them other people and the  *)
(* page itself may act.  A value of the form is compared only with what was    *)
(* frozen for this post, so that it is "ours" or something else.               *)
EXTENDS Integers, Sequences, SequencesExt

CONSTANTS Channels,    \* the accounts that the drop-down offers
          Target,      \* the one to publish on
          Images,      \* the frozen images, in their order
          Medias,      \* what people may make of the attachments
          MaxTouches   \* bound: what people and the page do to the form

VARIABLES
    at,        \* the step that comes next
    desk,      \* the run belongs to the review desk (it has a manual run)
    form,      \* the page, or NoPage
    lagging,   \* a click on the switch that the page has not answered yet
    typed,     \* how often the text, or the time, was typed in this step
    keys,      \* the attachments' addresses when they were first checked
    row,       \* the state in the journal of this attempt
    clicked,   \* the page as it was when it was clicked, or NoPage
    remote,    \* the platform accepted that click
    toast,     \* the message of success that is visible: none, "old" or "ours"
    after,     \* the fields something moved after their last check (history)
    touches

page == <<form, lagging, toast>>
record == <<row, clicked, remote>>
vars == <<at, desk, page, typed, keys, record, after, touches>>

NoPage == [text |-> "no page"]
Values == {"ours", "other"}
Fields == {"context", "channels", "story", "extras", "media", "text",
           "switch", "sets", "date", "time"}
ValuesOf(field) ==
    CASE field = "channels" -> SUBSET Channels
      [] field = "media" -> Medias
      [] field = "text" -> {"empty", "old", "ours", "mangled"}
      [] field = "sets" -> 1..2
      [] field \in {"date", "time"} -> Values
      [] OTHER -> BOOLEAN

\* A field is as the post was frozen; of the attachments only their number counts.
AsFrozen(f, field) ==
    CASE field = "channels" -> f.channels = {Target}
      [] field = "media" -> Len(f.media) = Len(Images) /\ ~f.uploading
      [] field = "sets" -> f.sets = 1
      [] field \in {"story", "extras"} -> ~f[field]
      [] field \in {"context", "switch"} -> f[field]
      [] OTHER -> f[field] = "ours"

\* What opens: an empty composer, or one with the draft of another post in it.
Opened ==
    [context : BOOLEAN, channels : SUBSET Channels, story : BOOLEAN, extras : {FALSE},
     media : {<<>>}, address : {"blob"}, uploading : {FALSE}, text : {"empty"},
     switch : {FALSE}, sets : {1}, date : {"other"}, time : {"other"}]
    \cup
    [context : {TRUE}, channels : {Channels}, story : {FALSE}, extras : BOOLEAN,
     media : {<<>>, <<Images[1]>>}, address : {"blob"}, uploading : {FALSE}, text : {"old"},
     switch : BOOLEAN, sets : 1..2, date : {"other"}, time : {"other"}]

Init ==
    /\ at = "baseline" /\ desk \in BOOLEAN
    /\ form = NoPage /\ lagging = FALSE /\ typed = 0 /\ keys = <<"none", <<>>>>
    /\ row = "none" /\ clicked = NoPage /\ remote = FALSE /\ toast = "none"
    /\ after = Fields /\ touches = 0
--------------------------------------------------------------------------------
\* What people and the page do between two steps.

Open == form # NoPage
PersonTouches ==
    /\ Open /\ at # "end" /\ touches < MaxTouches /\ touches' = touches + 1
    /\ \E field \in Fields : \E value \in ValuesOf(field) \ {form[field]} :
        /\ form' = [form EXCEPT ![field] = value]
        /\ after' = after \cup {field}
    /\ UNCHANGED <<at, desk, lagging, toast, typed, keys, record>>

\* Thumbnails change from local to remote addresses, or are not drawn at all.
PageRenders ==
    /\ Open /\ at # "end" /\ form.media # <<>>
    /\ \/ form.uploading /\ form' = [form EXCEPT !.uploading = FALSE] /\ UNCHANGED touches
       \/ /\ form.address = "blob" /\ touches < MaxTouches /\ touches' = touches + 1
          /\ \E a \in {"cdn", "none"} : form' = [form EXCEPT !.address = a]
    /\ UNCHANGED <<at, desk, lagging, toast, typed, keys, record, after>>

\* A click on the switch takes effect: long after a second one, it turns it off.
SwitchTurns ==
    /\ Open /\ lagging /\ lagging' = FALSE
    /\ form' = [form EXCEPT !.switch = ~@] /\ after' = after \cup {"switch"}
    /\ UNCHANGED <<at, desk, toast, typed, keys, record, touches>>

\* The message of an earlier post is still on the page.
OldToastShows ==
    /\ Open /\ clicked = NoPage /\ toast = "none" /\ touches < MaxTouches
    /\ toast' = "old" /\ touches' = touches + 1
    /\ UNCHANGED <<at, desk, form, lagging, typed, keys, record, after>>
--------------------------------------------------------------------------------
\* A step that reads: it goes on only if what it reads is right, else it raises.
Requires(here, test, there, fields) ==
    /\ at = here
    /\ IF test THEN at' = there /\ after' = after \ fields
               ELSE at' = "raised" /\ UNCHANGED after
    /\ UNCHANGED <<desk, page, typed, keys, record, touches>>

\* A step that changes the page.
Fills(here, there, f) ==
    /\ at = here /\ at' = there /\ form' = f
    /\ UNCHANGED <<desk, toast, keys, record, after, touches>>

\* No card of the calendar looks like this post already (workflow.py 145-161).
BaselineIsEmpty == \E none \in BOOLEAN : Requires("baseline", none, "open", {})

\* A page that cannot be used, or of another asset, is closed (334-372).
OpenComposer ==
    /\ at = "open"
    /\ \E f \in Opened : form' = f
    /\ at' = (IF form'.context THEN "select" ELSE "raised")
    /\ UNCHANGED <<desk, lagging, toast, typed, keys, record, after, touches>>

\* channels.select: the option of the account is clicked, and the other's.
SelectTarget ==
    /\ at = "select"
    /\ IF ~form.context THEN at' = "raised" /\ UNCHANGED form
       ELSE at' = "deselect" /\ \E took \in BOOLEAN :
            form' = [form EXCEPT !.channels = IF took THEN @ \cup {Target} ELSE @]
    /\ UNCHANGED <<desk, lagging, toast, typed, keys, record, after, touches>>

DeselectOthers == \E took \in BOOLEAN :
    /\ Fills("deselect", "selected",
             [form EXCEPT !.channels = IF took THEN @ \cap {Target} ELSE @])
    /\ UNCHANGED <<lagging, typed>>

SelectionIsRead == Requires("selected", form.channels = {Target}, "story", {"channels"})

\* Sharing to the story is stopped only for this post; any other choice raises.
StopStory ==
    /\ at = "story"
    /\ \E onlyThis \in BOOLEAN :
        IF form.story /\ ~onlyThis THEN at' = "raised" /\ UNCHANGED form
        ELSE at' = "extras" /\ form' = [form EXCEPT !.story = FALSE]
    /\ UNCHANGED <<desk, lagging, toast, typed, keys, record, after, touches>>

ExtrasAreOff ==
    Requires("extras", ~form.story /\ ~form.extras /\ form.context, "upload", {"story", "extras", "context"})

\* The files are given to the chooser in their order, after what is there.
UploadImages == \E multiple \in BOOLEAN :
    LET takes == Len(Images) = 1 \/ multiple IN
    /\ Fills("upload", IF takes THEN "uploaded" ELSE "raised",
             IF takes THEN [form EXCEPT !.media = @ \o Images, !.uploading = TRUE] ELSE form)
    /\ UNCHANGED <<lagging, typed>>

Known(k) == k[1] # "none"
SameBag(s, t) == Len(s) = Len(t) /\ ToSet(s) = ToSet(t)
\* media.verify_upload: their number, the end of the upload, and their order if
\* every address was known at both times and they are the same addresses.
UploadVerified(previous) ==
    /\ AsFrozen(form, "media")
    /\ (Known(previous) /\ previous[1] = form.address /\ SameBag(previous[2], form.media))
           => previous[2] = form.media

VerifyUpload(here, there) ==
    /\ at = here
    /\ keys' = (IF here = "uploaded" THEN <<form.address, form.media>> ELSE keys)
    /\ IF UploadVerified(keys) THEN at' = there /\ after' = after \ {"media"}
                               ELSE at' = "raised" /\ UNCHANGED after
    /\ UNCHANGED <<desk, page, typed, record, touches>>

\* fill_caption: in one go, then line by line; what is read back is the text.
FillCaption ==
    /\ at = "caption"
    /\ \E t \in {"ours", "mangled"} :
        /\ form' = [form EXCEPT !.text = t]
        /\ at' = (IF t = "ours" THEN "switch" ELSE IF typed = 0 THEN "caption" ELSE "raised")
        /\ typed' = (IF t = "ours" \/ typed = 1 THEN 0 ELSE 1)
        /\ after' = (IF t = "ours" THEN after \ {"text"} ELSE after)
    /\ UNCHANGED <<desk, lagging, toast, keys, record, touches>>

\* _switch_is_on: clicked when it is off, and once more if it stays off.
TurnSwitch ==
    /\ at = "switch"
    /\ \/ /\ form.switch /\ at' = "controls" /\ typed' = 0 /\ after' = after \ {"switch"}
          /\ UNCHANGED <<form, lagging>>
       \/ /\ ~form.switch /\ typed < 2 /\ typed' = typed + 1 /\ UNCHANGED <<at, after>>
          /\ \/ form' = [form EXCEPT !.switch = TRUE] /\ UNCHANGED lagging
             \/ ~lagging /\ lagging' = TRUE /\ UNCHANGED form
             \/ UNCHANGED <<form, lagging>>
       \/ /\ ~form.switch /\ typed = 2 /\ at' = "raised" /\ typed' = 0
          /\ UNCHANGED <<form, lagging, after>>
    /\ UNCHANGED <<desk, toast, keys, record, touches>>

\* One date and one time control: several would be paired by guessing.
ControlsArePaired == Requires("controls", form.sets = 1, "date", {"sets"})

TypeDate == \E d \in Values :
    /\ Fills("date", IF d = "ours" THEN "time" ELSE "raised", [form EXCEPT !.date = d])
    /\ UNCHANGED <<lagging, typed>>

\* _set_one_time: the hour with one digit, then with two; the date is read again.
TypeTime ==
    /\ at = "time"
    /\ \E t \in Values, d \in {form.date, "other"} :
        /\ form' = [form EXCEPT !.time = t, !.date = d]
        /\ at' = (CASE t = "ours" /\ d = "ours" -> "verify"
                    [] t # "ours" /\ typed = 0 -> "time"
                    [] OTHER -> "raised")
        /\ typed' = (IF at' = "time" THEN 1 ELSE 0)
        /\ after' = (IF at' = "verify" THEN after \ {"date", "time"} ELSE after)
    /\ UNCHANGED <<desk, lagging, toast, keys, record, touches>>

\* channels.verify_before_submit: the live form, for the desk as for the record.
LiveForm == \A field \in {"context", "channels", "story", "extras", "sets", "switch"} :
    AsFrozen(form, field)
LiveFields == {"context", "channels", "story", "extras", "sets", "switch"}
VerifyBeforeSubmit(here, there) == Requires(here, LiveForm, there, LiveFields)

Writes(here, there, status) ==
    /\ at = here /\ at' = there /\ row' = status
    /\ UNCHANGED <<desk, page, typed, keys, clicked, remote, after, touches>>

\* A run that only prepares ends here, and leaves the page to its operator.
Prepare ==
    \/ Writes("prepare", "live", "prepared")
    \/ ~desk /\ Writes("prepare", "end", "prepared")

\* The distance in the calendar, and the button (check_live_slot, wait_submit_ready).
SlotIsStillFree == \E free \in BOOLEAN : Requires("live", free, "ready", {})
ButtonIsReady == \E enabled \in BOOLEAN : Requires("ready", enabled, "media again", {})

\* Mutant: the date and the time are not read again before the click.
FormGlanced == \A field \in {"text", "switch", "sets"} : AsFrozen(form, field)

\* verify_form reads the text, the switch and the one set of controls.
FormVerified == \A field \in {"text", "switch", "sets", "date", "time"} : AsFrozen(form, field)
VerifyForm == Requires("form", FormVerified, "verify again",
                       {"text", "switch", "sets", "date", "time"})

\* The review is as it was approved, and the content as it was frozen; only the
\* desk asks this of the run.
PreSubmitCheck == \E asApproved \in BOOLEAN :
    Requires("last", asApproved \/ ~desk, "arm", {})

\* The intent is durable before the click.
Arm == Writes("arm", "click", "ambiguous")

\* submit: one click, never before a message of success that is already there.
ToastIsFresh == toast = "none"
Click ==
    /\ at = "click"
    /\ IF ToastIsFresh
       THEN /\ at' = "signal" /\ clicked' = form
            /\ remote' \in BOOLEAN
            /\ toast' \in (IF remote' THEN {"none", "ours"} ELSE {"none"})
       ELSE at' = "raised" /\ UNCHANGED <<clicked, remote, toast>>
    /\ UNCHANGED <<desk, form, lagging, typed, keys, row, after, touches>>

\* The message was seen, or the click raised, or nothing came in time.
Signal ==
    \/ toast # "none" /\ Writes("signal", "readback", "submitted")
    \/ Writes("signal", "readback", "ambiguous")

\* The calendar shows the post, or not yet; only the first changes the state.
ReadBack ==
    \/ remote /\ Writes("readback", "end", "scheduled")
    \/ Writes("readback", "end", row)

\* Whatever is raised ends the attempt: before it was armed as failed, after as it is.
TerminalStatus == IF row \in {"ambiguous", "submitted"} THEN row ELSE "failed"
Raised == Writes("raised", "end", TerminalStatus)

\* Any step of the page can time out; the process can stop between two of them.
TimesOut ==
    /\ at \notin {"baseline", "prepare", "arm", "raised", "end"}
    /\ at' = "raised"
    /\ UNCHANGED <<desk, page, typed, keys, record, after, touches>>
Dies ==
    /\ at # "end" /\ at' = "end"
    /\ UNCHANGED <<desk, page, typed, keys, record, after, touches>>

Next ==
    \/ PersonTouches \/ PageRenders \/ SwitchTurns \/ OldToastShows
    \/ BaselineIsEmpty \/ OpenComposer \/ SelectTarget \/ DeselectOthers \/ SelectionIsRead
    \/ StopStory \/ ExtrasAreOff \/ UploadImages \/ VerifyUpload("uploaded", "caption")
    \/ FillCaption \/ TurnSwitch \/ ControlsArePaired \/ TypeDate \/ TypeTime
    \/ VerifyBeforeSubmit("verify", "prepare") \/ Prepare \/ SlotIsStillFree \/ ButtonIsReady
    \/ VerifyUpload("media again", "form") \/ VerifyForm
    \/ VerifyBeforeSubmit("verify again", "last") \/ PreSubmitCheck \/ Arm \/ Click
    \/ Signal \/ ReadBack \/ Raised \/ TimesOut \/ Dies

Spec == Init /\ [][Next]_vars
--------------------------------------------------------------------------------
(* The type invariant of the module. *)
TypeOK ==
    /\ \A f \in {form, clicked} \ {NoPage} :
        \A field \in Fields \ {"media"} : f[field] \in ValuesOf(field)
    /\ row \in {"none", "prepared", "ambiguous", "submitted", "scheduled", "failed"}
    /\ after \subseteq Fields /\ typed \in 0..2

(* CLICKED AS FROZEN.  Every field that nothing moved after its last check     *)
(* arrives at the click as it was frozen: above all the switch, without which  *)
(* the post is published at once, and the account.                             *)
ClickedAsFrozen ==
    clicked # NoPage => \A field \in Fields \ after : AsFrozen(clicked, field)

(* THE ORDER IS KEPT.  If the attachments had the same known addresses at both *)
(* checks and nobody moved them since, they are not only reordered.            *)
OrderIsKept ==
    (/\ clicked # NoPage /\ "media" \notin after
     /\ Known(keys) /\ keys[1] = clicked.address /\ SameBag(keys[2], clicked.media))
        => keys[2] = clicked.media

(* A CLICK IS ON RECORD.  An attempt that is recorded as failed did not click; *)
(* one that clicked is never free to be tried again; and what is recorded as   *)
(* submitted or scheduled was accepted by the platform for this click.         *)
ClickIsOnRecord ==
    /\ clicked # NoPage => row \in {"ambiguous", "submitted", "scheduled"}
    /\ row \in {"submitted", "scheduled"} => remote
================================================================================
