------------------------------ MODULE ImageVersions ------------------------------
(* The German versions of one picture: localize/images.py with the desk's      *)
(* handlers around it.  The ledger images_de.jsonl says which bytes the        *)
(* program made; whatever else lies in media_de was put there by a person and  *)
(* is neither overwritten nor improved upon.  Generation, upload and selection *)
(* take images.lock; people who copy files by hand, and captures, do not.      *)
(* Bytes are a record of who made them and a number.  A file's name is Target  *)
(* (NN.jpg, the program's), Other (NN.png, only people's) or the number of a   *)
(* refinement (NN_v<id>.jpg, outside the glob NN.* of people).                 *)
EXTENDS Integers, Sequences, FiniteSets, SequencesExt

CONSTANTS None, MaxOutputs, MaxGiven, MaxChanges, MaxCrashes

VARIABLES
    files,      \* media_de: the bytes under each name
    ledger,     \* images_de.jsonl
    uploads,    \* manual_uploads.jsonl: name and bytes
    kept,       \* media_de/superseded
    choice,     \* the review's image choice: None or the original it is bound to
    source,     \* the version of the original picture
    texts,      \* the German texts on record for the present source text
    job,        \* what holds images.lock
    given,      \* bytes of people that nobody but the program has touched since
    hands,      \* how often people have brought a picture
    crashes

vars == <<files, ledger, uploads, kept, choice, source, texts, job, given, hands, crashes>>
disk == <<files, ledger, uploads, kept>>
post == <<choice, source, texts>>

Target == 0
Other == -1
Plain == {Target, Other}
Program(n) == [by |-> "program", n |-> n]
Person(n) == [by |-> "person", n |-> n]
Idle == [step |-> "idle"]
Has(name) == name \in DOMAIN files
Put(fs, name, bytes) == [x \in DOMAIN fs \cup {name} |-> IF x = name THEN bytes ELSE fs[x]]
Without(fs, names) == [x \in DOMAIN fs \ names |-> fs[x]]

Outputs == {ledger[i].bytes.n : i \in DOMAIN ledger}
NewOutput == Cardinality(Outputs) + 1

Init ==
    /\ files = <<>> /\ ledger = <<>> /\ uploads = {} /\ kept = {}
    /\ choice = None /\ source = 0 /\ texts = <<1>>
    /\ job = Idle /\ given = {} /\ hands = 0 /\ crashes = 0

-------------------------------------------------------------------------------
(* load_image_state and what is asked of it.                                   *)
Owned(name) == {r.bytes : r \in {ledger[i] : i \in {j \in DOMAIN ledger : ledger[j].out = name}}}
Latest == IF ledger = <<>> THEN None ELSE Last(ledger)
OutputExists(r) == Has(r.out) /\ files[r.out] = r.bytes

Manual == {name \in Plain : Has(name) /\ (<<name, files[name]>> \in uploads \/ files[name] \notin Owned(name))}

(* _image_text_basis: a picture made from a text that is still on record keeps *)
(* it as its basis; the machine's own text alone asks for the present one.     *)
TextBasis(r, human) ==
    IF r # None /\ (human \/ r.refine \/ r.selected) /\ r.source = source /\ OutputExists(r)
       /\ r.text \in ToSet(texts)
    THEN r.text ELSE Last(texts)

Matches(r, human) == r # None /\ r.source = source /\ r.text = TextBasis(r, human) /\ OutputExists(r)

(* review_image_pairs: a confirmed original, a person's picture, a generated   *)
(* one that fits, or none yet.                                                 *)
Selection(human) ==
    IF choice = source THEN "original_confirmed"
    ELSE IF Cardinality(Manual) > 1 THEN "conflict"
    ELSE IF Manual # {} THEN "manual"
    ELSE IF texts # <<>> /\ Matches(Latest, human) THEN "generated" ELSE "original"

\* The bytes that would be published.
Shown(human) ==
    CASE Selection(human) = "manual" -> files[CHOOSE name \in Manual : TRUE]
      [] Selection(human) = "generated" -> Latest.bytes
      [] OTHER -> None

-------------------------------------------------------------------------------
(* build_jobs and run_localize.  A plain job is planned for what is not there  *)
(* yet; a refinement forces a version of its own.  What was planned is checked *)
(* again before the request is paid for (its life: PaidRequests).              *)
Plan ==
    /\ job = Idle /\ texts # <<>> /\ NewOutput <= MaxOutputs
    /\ \E refine, human \in BOOLEAN :
          /\ Selection(human) \notin {"conflict", "original_confirmed", "manual"}
          /\ Selection(human) = "generated" => refine
          /\ job' = [step |-> "planned", refine |-> refine, source |-> source, previous |-> Latest,
                     text |-> IF refine THEN Last(texts) ELSE TextBasis(Latest, human),
                     out |-> IF refine THEN NewOutput ELSE Target, bytes |-> Program(NewOutput)]
    /\ UNCHANGED <<disk, post, given, hands, crashes>>

Skipped ==
    /\ job.step = "planned" /\ (choice = source \/ source # job.source \/ Manual # {})
    /\ job' = Idle
    /\ UNCHANGED <<disk, post, given, hands, crashes>>

Request ==
    /\ job.step = "planned" /\ choice # source /\ source = job.source /\ Manual = {}
    /\ \/ job' = [job EXCEPT !.step = "paid"]
       \/ job' = Idle                               \* the request or its output failed
    /\ UNCHANGED <<disk, post, given, hands, crashes>>

(* _write_output: the record first, then the file, each after a look for a     *)
(* person's picture; a failure after the record selects the previous version   *)
(* again when it is still there.                                               *)
Record(j) == [source |-> j.source, text |-> j.text, out |-> j.out, bytes |-> j.bytes,
              refine |-> j.refine, selected |-> FALSE]
Selected(r) == [r EXCEPT !.selected = TRUE]
Blocked == Manual # {} /\ ~job.refine

WriteRecord ==
    /\ job.step = "paid"
    /\ IF Blocked THEN job' = Idle /\ UNCHANGED ledger
       ELSE ledger' = Append(ledger, Record(job)) /\ job' = [job EXCEPT !.step = "recorded"]
    /\ UNCHANGED <<files, uploads, kept, post, given, hands, crashes>>

(* The last look and the replacement are one step here: a file that is copied  *)
(* in between, within microseconds, is lost in the code.                       *)
PlaceFile ==
    /\ job.step = "recorded" /\ ~Blocked
    /\ files' = Put(files, job.out, job.bytes) /\ job' = Idle
    /\ UNCHANGED <<ledger, uploads, kept, post, given, hands, crashes>>

\* Mutant: the record of what was never placed stays the latest.
ReselectedNothing == ledger

Reselected ==
    IF job.previous # None /\ OutputExists(job.previous)
    THEN Append(ledger, Selected(job.previous)) ELSE ledger

PlaceFails ==
    /\ job.step = "recorded"
    /\ ledger' = Reselected /\ job' = Idle
    /\ UNCHANGED <<files, uploads, kept, post, given, hands, crashes>>

-------------------------------------------------------------------------------
(* replace_localized: whatever lies under the number is backed up, the other   *)
(* formats are removed, the choice is recorded and the new file put in place.  *)
(* Its record speaks of the bytes, so it counts once they are there.           *)
Upload ==
    /\ job = Idle /\ hands < MaxGiven /\ hands' = hands + 1
    /\ \E name \in Plain, bytes \in {files[x] : x \in DOMAIN files} \cup {Person(hands + 1)} :
          job' = [step |-> "upload", out |-> name, bytes |-> bytes, moved |-> <<>>]
    /\ UNCHANGED <<disk, post, given, crashes>>

BackUp ==
    /\ job.step = "upload"
    /\ kept' = kept \cup {files[x] : x \in DOMAIN files \cap Plain}
    /\ job' = [job EXCEPT !.step = "kept"]
    /\ UNCHANGED <<files, ledger, uploads, post, given, hands, crashes>>

RemoveOthers ==
    /\ job.step = "kept"
    /\ LET others == {x \in DOMAIN files \cap Plain : x # job.out}
       IN /\ files' = Without(files, others)
          /\ job' = [step |-> "removed", out |-> job.out, bytes |-> job.bytes, moved |-> [x \in others |-> files[x]]]
    /\ UNCHANGED <<ledger, uploads, kept, post, given, hands, crashes>>

LogUpload ==
    /\ job.step = "removed"
    /\ uploads' = uploads \cup {<<job.out, job.bytes>>} /\ job' = [job EXCEPT !.step = "logged"]
    /\ UNCHANGED <<files, ledger, kept, post, given, hands, crashes>>

Replace ==
    /\ job.step = "logged"
    /\ files' = Put(files, job.out, job.bytes) /\ job' = Idle
    /\ given' = given \cup (IF job.bytes.by = "person" THEN {job.bytes} ELSE {})
    /\ choice' = None                    \* image_selected 'automatic', in the same transaction
    /\ UNCHANGED <<ledger, uploads, kept, source, texts, hands, crashes>>

UploadFails ==
    /\ job.step \in {"upload", "kept", "removed", "logged"} /\ job' = Idle
    /\ files' = [x \in DOMAIN files \cup DOMAIN job.moved |-> IF x \in DOMAIN files THEN files[x] ELSE job.moved[x]]
    /\ UNCHANGED <<ledger, uploads, kept, post, given, hands, crashes>>

-------------------------------------------------------------------------------
(* select_image_version: only a version whose file, original and text still    *)
(* fit can be taken up again.                                                  *)
SelectVersion ==
    /\ job = Idle /\ Manual = {} /\ texts # <<>>
    /\ \E i \in DOMAIN ledger : \E human \in BOOLEAN :
          /\ ledger[i] # Latest /\ OutputExists(ledger[i]) /\ ledger[i].source = source
          /\ ledger[i].text = TextBasis(ledger[i], human)
          /\ ledger' = Append(ledger, Selected(ledger[i]))
    /\ Len(ledger) <= MaxOutputs + 1
    /\ choice' = None
    /\ UNCHANGED <<files, uploads, kept, source, texts, job, given, hands, crashes>>

SelectOriginal ==
    /\ job = Idle /\ choice' \in {None, source}
    /\ UNCHANGED <<disk, source, texts, job, given, hands, crashes>>

(* A person copies a picture into media_de.  What it overwrites, and what it   *)
(* puts under the name of a running upload, is the person's own doing.         *)
Drop ==
    /\ hands < MaxGiven /\ hands' = hands + 1
    /\ \E name \in Plain :
          LET bytes == Person(hands + 1)
              mine == IF job.step \in {"kept", "removed", "logged"} THEN {} ELSE {bytes}
          IN /\ files' = Put(files, name, bytes)
             /\ given' = (given \ (IF Has(name) THEN {files[name]} ELSE {})) \cup mine
    /\ UNCHANGED <<ledger, uploads, kept, post, job, crashes>>

(* A capture brings another original or another text; a text is translated     *)
(* again or edited.                                                            *)
Recaptured ==
    /\ source < MaxChanges
    /\ \/ source' = source + 1 /\ UNCHANGED texts
       \/ source' = source + 1 /\ texts' = <<>>
    /\ UNCHANGED <<disk, choice, job, given, hands, crashes>>

Retranslated ==
    /\ Len(texts) < 2 /\ texts' = Append(texts, Len(texts) + 1)
    /\ UNCHANGED <<disk, choice, source, job, given, hands, crashes>>

Crash ==
    /\ job # Idle /\ crashes < MaxCrashes
    /\ job' = Idle /\ crashes' = crashes + 1
    /\ UNCHANGED <<disk, post, given, hands>>

Next ==
    \/ Plan \/ Skipped \/ Request \/ WriteRecord \/ PlaceFile \/ PlaceFails
    \/ Upload \/ BackUp \/ RemoveOthers \/ LogUpload \/ Replace \/ UploadFails
    \/ SelectVersion \/ SelectOriginal \/ Drop \/ Recaptured \/ Retranslated \/ Crash

Spec == Init /\ [][Next]_vars

-------------------------------------------------------------------------------
(* What a person supplied is still in the folder or in its history, whatever   *)
(* generation, upload, failure or crash came across it (images.py:1372, 1891). *)
GivenKept == given \subseteq {files[x] : x \in DOMAIN files} \cup kept

(* What the program made is recognised as its own, or was taken up by an       *)
(* upload: no crash leaves a picture that would pass for a person's and never  *)
(* be made again (:1020, :1412).                                               *)
OwnWorkRecognised ==
    \A name \in DOMAIN files :
        files[name].by = "program" => files[name] \in Owned(name) \/ \E u \in uploads : u[2] = files[name]

PicturesKept == GivenKept /\ OwnWorkRecognised

(* A refinement that fails after its record leaves what was shown before it:   *)
(* the version that still fits is selected again (:1424-1427).                 *)
Fits(r) == r # None /\ r.source = source /\ r.text \in ToSet(texts) /\ OutputExists(r)

FailureKeepsShown ==
    [][job.step = "recorded" /\ job' = Idle /\ UNCHANGED <<files, crashes>>
         /\ choice # source /\ Manual = {} /\ Fits(job.previous)
       => Shown(TRUE)' = job.previous.bytes]_vars
================================================================================
