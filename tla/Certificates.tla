---------------------------- MODULE Certificates ----------------------------
(***************************************************************************)
(* The certificate templates of events, and the certificates drawn from     *)
(* them (EventCertificatesService).                                         *)
(***************************************************************************)
EXTENDS TicketTypes, Storage, Faults

CONSTANTS
    EarlierTemplates,  \* templates stored before the behaviour starts
    TemplateTypes,     \* TemplateTypes[k]: their ticket types
    TemplateEvent      \* TemplateEvent[k]: their event; EarlierFiles holds their files

Templates == Requests \cup EarlierTemplates

TemplateDoc == [event : Events \cup {None}, types : SUBSET Types, active : BOOLEAN,
                file : Requests \cup EarlierFiles \cup {None}]
NoTemplate == [event |-> None, types |-> {}, active |-> TRUE, file |-> None]

ASSUME TemplatesAssumption ==
    /\ TemplateTypes \in [EarlierTemplates -> SUBSET EarlierTypes]
    /\ TemplateEvent \in [EarlierTemplates -> EarlierEvents]
    /\ EarlierTemplates \subseteq EarlierFiles
    /\ EarlierTemplates \cap Requests = {} /\ None \notin EarlierTemplates
    /\ \A j, k \in EarlierTemplates :
        j # k /\ TemplateEvent[j] = TemplateEvent[k]
            => TemplateTypes[j] \cap TemplateTypes[k] = {}

VARIABLES templates  \* templates[k]: CertificateTemplate; event None: not stored

certificateVars == <<templates, types, issued, files, events>>
catalogUnchanged == UNCHANGED <<types, issued, events>>

TemplateIsStored(k) == templates[k].event # None

\* What the requests give for ticketTypeIds: types that were created once.
GivenTypes == SUBSET EarlierTypes

(***************************************************************************)
(* create and update: the checks are the same                               *)
(***************************************************************************)
TemplateRequest(op, k, changes, withFile, old) ==
    [op |-> op, template |-> k, changes |-> changes, withFile |-> withFile, old |-> old,
     new |-> With(old, changes)]

CreateTemplate(r) ==
    /\ \E e \in EarlierEvents, T \in GivenTypes :
        Start(r, CASE ~EventIsStored(e) -> "error"
                   [] EventIsStored(e) /\ T = {} -> "templateUpload"
                   [] OTHER -> "templateTypes",
              TemplateRequest("createTemplate", r, [event |-> e, types |-> T], TRUE, NoTemplate))
    /\ UNCHANGED certificateVars

\* What an UpdateCertificateTemplateDto gives: the event too.
TemplateChanges == [types : GivenTypes] \cup [event : EarlierEvents] \cup {[none |-> None]}

AfterChecks(withFile) == IF withFile THEN "templateDelete" ELSE "templateSave"

UpdateTemplate(r) ==
    /\ \E k \in Templates, changes \in TemplateChanges, withFile \in BOOLEAN :
        Start(r, CASE ~TemplateIsStored(k) \/ ~templates[k].active -> "error"
                   [] TemplateIsStored(k) /\ templates[k].active
                        /\ "types" \in DOMAIN changes -> "templateTypes"
                   [] OTHER -> AfterChecks(withFile),
              TemplateRequest("updateTemplate", k, changes, withFile, templates[k]))
    /\ UNCHANGED certificateVars

\* The types are counted: those of the event that are stored.  An update is
\* checked against the event of the template as read.
EventChecked(l) == IF l.op = "createTemplate" THEN l.new.event ELSE l.old.event

CountTypes(r) ==
    /\ pc[r] = "templateTypes"
    /\ Goto(r, IF local[r].new.types \subseteq TypesOf(EventChecked(local[r]))
               THEN "templateConflict" ELSE "error")
    /\ UNCHANGED certificateVars

\* Mutant: only a template of the very same types conflicts.
SameTypes(k, e, T) ==
    {d \in Templates \ {k} : templates[d].event = e /\ templates[d].active
                                /\ templates[d].types = T}

\* The active templates of the event, other than k, that have a type of T.
Conflicting(k, e, T) ==
    {d \in Templates \ {k} : templates[d].event = e /\ templates[d].active
                                /\ templates[d].types \cap T # {}}

CheckConflict(r) ==
    /\ pc[r] = "templateConflict"
    /\ LET l == local[r]
       IN  Goto(r, CASE Conflicting(l.template, EventChecked(l), l.new.types) # {} -> "error"
                     [] Conflicting(l.template, EventChecked(l), l.new.types) = {}
                            /\ l.op = "createTemplate" -> "templateUpload"
                     [] OTHER -> AfterChecks(l.withFile))
    /\ UNCHANGED certificateVars

\* The old file is deleted before the new one is uploaded.
DeleteOldFile(r) ==
    /\ pc[r] = "templateDelete"
    /\ DeleteFile(local[r].old.file)
    /\ Goto(r, "templateUpload")
    /\ UNCHANGED templates /\ catalogUnchanged

UploadTemplate(r) ==
    /\ pc[r] = "templateUpload"
    /\ Upload(r)
    /\ Continue(r, "templateSave", [local[r] EXCEPT !.new.file = r])
    /\ UNCHANGED templates /\ catalogUnchanged

\* Mutant: an update without a new file forgets the file.
SavedForgetful(stored, old, new) ==
    [stored EXCEPT !.event = new.event, !.types = new.types,
                   !.file = IF new.file = old.file THEN None ELSE new.file]

\* save(): the fields changed since the template was read.
SavedTemplate(stored, old, new) ==
    [f \in DOMAIN stored |-> IF new[f] = old[f] THEN stored[f] ELSE new[f]]

\* A new template is refused without its creator.
SaveTemplate(r) ==
    /\ pc[r] = "templateSave"
    /\ LET l == local[r]
       IN  \/ l.op = "createTemplate" /\ ~CreatorIsGiven /\ Goto(r, "error") /\ UNCHANGED templates
           \/ /\ l.op = "createTemplate" => CreatorIsGiven
              /\ templates' = [templates EXCEPT
                    ![l.template] = SavedTemplate(@, l.old, l.new)]
              /\ Ends(r)
    /\ UNCHANGED files /\ catalogUnchanged

\* remove: read, whether active or not, and save.
RemoveTemplate(r) ==
    /\ \E k \in Templates :
        Start(r, IF TemplateIsStored(k) THEN "templateSave" ELSE "error",
              TemplateRequest("removeTemplate", k, [active |-> FALSE], FALSE, templates[k]))
    /\ UNCHANGED certificateVars

(***************************************************************************)
(* Certificates                                                             *)
(***************************************************************************)
Drawing(op, k) == [op |-> op, template |-> k, file |-> templates[k].file]

\* generateCertificateForUser, of the holder of a ticket of type t.
Download(r) ==
    /\ \E e \in EarlierEvents, t \in issued :
        LET found == {k \in Templates : templates[k].event = e /\ templates[k].active
                                            /\ t \in templates[k].types}
        IN  \/ \E k \in found : Start(r, "certificateDraw", Drawing("download", k))
            \/ found = {} /\ Start(r, "error", [op |-> "download"])
    /\ UNCHANGED certificateVars

\* previewCertificate: a removed template can be seen.
Preview(r) ==
    /\ \E k \in Templates :
        Start(r, IF TemplateIsStored(k) THEN "certificateDraw" ELSE "error",
              Drawing("preview", k))
    /\ UNCHANGED certificateVars

\* generatePdf fetches the file of the template as read.
DrawCertificate(r) ==
    /\ pc[r] = "certificateDraw"
    /\ Goto(r, IF local[r].file \in files THEN "ok" ELSE "error")
    /\ UNCHANGED certificateVars

CertificateArrive(r) ==
    \/ CreateTemplate(r) \/ UpdateTemplate(r) \/ RemoveTemplate(r)
    \/ Download(r) \/ Preview(r)

CertificateStep(r) ==
    \/ CountTypes(r) \/ CheckConflict(r) \/ DeleteOldFile(r) \/ UploadTemplate(r)
    \/ SaveTemplate(r) \/ DrawCertificate(r)

CertificateLabels == {"templateTypes", "templateConflict", "templateDelete",
                      "templateUpload", "templateSave", "certificateDraw"}

CertificateInit ==
    templates = [k \in Templates |->
        IF k \in EarlierTemplates
        THEN [event |-> TemplateEvent[k], types |-> TemplateTypes[k],
              active |-> TRUE, file |-> k]
        ELSE NoTemplate]

(***************************************************************************)
(* Properties                                                               *)
(***************************************************************************)
CertificateTypeOK == templates \in [Templates -> TemplateDoc]

\* A template whose file is gone was given to an update that brought another
\* file, and that has not ended or whose call was rejected.
TemplateFilesExist ==
    \A k \in Templates : TemplateIsStored(k) /\ templates[k].file \notin files =>
        \E r \in Requests : /\ Asked(r, "updateTemplate") /\ local[r].template = k
                            /\ local[r].withFile
                            /\ InFlight(r) \/ pc[r] = "failed"

\* "A ticket type can be in one active template of an event only": so it is
\* when requests do not overlap and no update moves a template to an event.
SerialTemplatesAreExclusive ==
    Serial /\ (\A r \in Requests : Asked(r, "updateTemplate") =>
                    "event" \notin DOMAIN local[r].changes) =>
        \A j, k \in Templates :
            j # k /\ templates[j].event = templates[k].event
                  /\ templates[j].active /\ templates[k].active
                => templates[j].types \cap templates[k].types = {}
=============================================================================
