------------------------------ MODULE Documents ------------------------------
(***************************************************************************)
(* The documents an event requires of its sponsors, their submission and    *)
(* their review (EventDocumentsService).                                    *)
(***************************************************************************)
EXTENDS Storage

CONSTANTS
    EarlierRequirements,
    EventSponsors     \* active sponsors of the event

Requirements == Requests \cup EarlierRequirements

ASSUME RequirementsAssumption ==
    /\ EarlierRequirements \cap Requests = {} /\ None \notin EarlierRequirements
    /\ None \notin EventSponsors

RequirementDoc == [stored : BOOLEAN, active : BOOLEAN, required : BOOLEAN]
NoRequirement == [stored |-> FALSE, active |-> FALSE, required |-> FALSE]

\* A document is named by the request that submits it.
Verdicts == {"pending", "approved", "rejected"}
SubmissionDoc == [requirement : Requirements \cup {None}, sponsor : EventSponsors \cup {None},
                  status : Verdicts, reviewer : Requests \cup {None},
                  nth : Nat]  \* createdAt: the order of the submissions
NoSubmission == [requirement |-> None, sponsor |-> None, status |-> "pending",
                 reviewer |-> None, nth |-> 0]

VARIABLES
    requirements,  \* requirements[q]: EventDocumentRequirement
    submissions    \* submissions[r]: SponsorDocumentSubmission, with the file of key r

documentVars == <<requirements, submissions, files>>

Submitted(s) == submissions[s].requirement # None

CreateRequirement(r) ==
    /\ \E required \in BOOLEAN, label \in {"ok", "failed"} :
        /\ Start(r, label, [op |-> "createRequirement"])
        /\ requirements' = [requirements EXCEPT ![r] =
                                [stored |-> TRUE, active |-> TRUE, required |-> required]]
    /\ UNCHANGED <<submissions, files>>

\* What an UpdateEventDocumentRequirementDto gives: it may activate again.
RequirementChanges == [active : BOOLEAN] \cup [required : BOOLEAN]

\* One findByIdAndUpdate of an existing requirement.
SetRequirement(r, op, changes) ==
    /\ \E q \in Requirements :
        \/ /\ ~requirements[q].stored
           /\ Start(r, "error", [op |-> op, requirement |-> q]) /\ UNCHANGED requirements
        \/ /\ requirements[q].stored
           /\ \E label \in {"ok", "failed"} :
                    Start(r, label, [op |-> op, requirement |-> q])
           /\ requirements' = [requirements EXCEPT ![q] =
                [f \in DOMAIN @ |-> IF f \in DOMAIN changes THEN changes[f] ELSE @[f]]]
    /\ UNCHANGED <<submissions, files>>

UpdateRequirement(r) ==
    \E changes \in RequirementChanges : SetRequirement(r, "updateRequirement", changes)

DeleteRequirement(r) == SetRequirement(r, "deleteRequirement", [active |-> FALSE])

\* submitDocument: the requirement, the sponsor of one of the user's companies,
\* the upload, the save.
SubmitDocument(r) ==
    /\ \E q \in Requirements, p \in EventSponsors \cup {None} :
        Start(r, IF requirements[q].active THEN "sponsorLookup" ELSE "error",
              [op |-> "submitDocument", requirement |-> q, sponsor |-> p])
    /\ UNCHANGED documentVars

ResolveSponsor(r) ==
    /\ pc[r] = "sponsorLookup"
    /\ Goto(r, IF local[r].sponsor # None THEN "documentUpload" ELSE "error")
    /\ UNCHANGED documentVars

UploadDocument(r) ==
    /\ pc[r] = "documentUpload"
    /\ Upload(r)
    /\ Goto(r, "submissionSave")
    /\ UNCHANGED <<requirements, submissions>>

InsertSubmission(r) ==
    /\ pc[r] = "submissionSave"
    /\ submissions' = [submissions EXCEPT ![r] =
            [NoSubmission EXCEPT !.requirement = local[r].requirement,
                                 !.sponsor = local[r].sponsor,
                                 !.nth = Cardinality({s \in Requests : Submitted(s)}) + 1]]
    /\ Ends(r)
    /\ UNCHANGED <<requirements, files>>

\* reviewDocument: read, and save.
ReviewDocument(r) ==
    /\ \E s \in Requests, v \in Verdicts :
        Start(r, IF Submitted(s) THEN "reviewSave" ELSE "error",
              [op |-> "review", document |-> s, verdict |-> v, old |-> submissions[s],
               new |-> [submissions[s] EXCEPT !.status = v, !.reviewer = r]])
    /\ UNCHANGED documentVars

\* Mutant: the reviewer is saved and the status is not.
SavedReviewer(stored, old, new) == [stored EXCEPT !.reviewer = new.reviewer]

\* save() writes what the review changed: a verdict equal to the status read is
\* not written.
SavedReview(stored, old, new) ==
    [f \in DOMAIN stored |-> IF new[f] = old[f] THEN stored[f] ELSE new[f]]

SaveReview(r) ==
    /\ pc[r] = "reviewSave"
    /\ LET l == local[r]
       IN  submissions' = [submissions EXCEPT ![l.document] = SavedReview(@, l.old, l.new)]
    /\ Ends(r)
    /\ UNCHANGED <<requirements, files>>

\* The last submission of p for q, if there is one.
LastSubmission(p, q) ==
    LET all == {s \in Requests : submissions[s].requirement = q /\ submissions[s].sponsor = p}
    IN  {s \in all : \A other \in all : submissions[other].nth <= submissions[s].nth}

\* getSponsorDocumentsSummary: the required documents sponsor p lacks.
Missing(p) ==
    {q \in Requirements :
        /\ requirements[q].active /\ requirements[q].required
        /\ \A s \in LastSubmission(p, q) : submissions[s].status = "rejected"}

\* A summary reads, and answers; listRequirements as well.
SummaryRead(r) ==
    /\ \E p \in EventSponsors :
        Start(r, "ok", [op |-> "summary", sponsor |-> p, missing |-> Missing(p)])
    /\ UNCHANGED documentVars

DocumentArrive(r) ==
    \/ CreateRequirement(r) \/ UpdateRequirement(r) \/ DeleteRequirement(r)
    \/ SubmitDocument(r) \/ ReviewDocument(r) \/ SummaryRead(r)

DocumentStep(r) ==
    ResolveSponsor(r) \/ UploadDocument(r) \/ InsertSubmission(r) \/ SaveReview(r)

DocumentLabels == {"sponsorLookup", "documentUpload", "submissionSave", "reviewSave"}

DocumentInit ==
    /\ requirements = [q \in Requirements |->
            IF q \in EarlierRequirements
            THEN [stored |-> TRUE, active |-> TRUE, required |-> TRUE] ELSE NoRequirement]
    /\ submissions = [r \in Requests |-> NoSubmission]

(***************************************************************************)
(* Properties                                                               *)
(***************************************************************************)
DocumentTypeOK ==
    /\ requirements \in [Requirements -> RequirementDoc]
    /\ submissions \in [Requests -> SubmissionDoc]

\* A submission's file is stored.
SubmissionFilesExist == \A s \in Requests : Submitted(s) => s \in files

\* The status of a document is what one of its reviews gave; with reviews that
\* do not overlap, the last one.
VerdictsStand ==
    \A s \in Requests :
        LET reviews == {r \in Requests : /\ Asked(r, "review") /\ local[r].document = s
                                         /\ pc[r] # "error"}
        IN  /\ submissions[s].status # "pending" =>
                    \E r \in reviews : local[r].verdict = submissions[s].status
            /\ Serial => \A r \in LastOf(reviews) :
                    submissions[s].status = local[r].verdict /\ submissions[s].reviewer = r
=============================================================================
