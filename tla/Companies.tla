------------------------------ MODULE Companies ------------------------------
(***************************************************************************)
(* The records of companies and their logos (CompaniesService).             *)
(***************************************************************************)
EXTENDS Storage

CONSTANTS
    Emails,
    CompanyBodies,     \* what requests give of a company: the fields they give
    EarlierCompanies,  \* companies stored before the behaviour starts
    CompanyEmail       \* CompanyEmail[c]: their contact e-mail, or None

\* A company is named by the request that creates it; so is an account.
CompanyNames == Requests \cup EarlierCompanies

EntityStatus == {"active", "inactive", "pending", "deleted"}

CompanyDoc == [stored : BOOLEAN, email : Emails \cup {None}, status : EntityStatus,
               logo : Requests \cup EarlierFiles \cup {None}]
NoCompany == [stored |-> FALSE, email |-> None, status |-> "active", logo |-> None]

\* The fields of a CreateCompanyDto, or an UpdateCompanyDto, that matter.
IsCompanyBody(b) ==
    /\ DOMAIN b \subseteq {"email", "logo"}
    /\ "email" \in DOMAIN b => b.email \in Emails \cup {None}
    /\ "logo" \in DOMAIN b => b.logo \in Requests \cup EarlierFiles \cup {None}

ASSUME CompaniesAssumption ==
    /\ None \notin Emails
    /\ \A b \in CompanyBodies : IsCompanyBody(b)
    /\ CompanyEmail \in [EarlierCompanies -> Emails \cup {None}]

VARIABLES companies  \* companies[c]: Company

companyVars == <<companies, files>>

CompanyIsHere(c) == companies[c].stored /\ companies[c].status # "deleted"

\* ensureEmailIsAvailable.  The unique index beside it is never built: its
\* filter is one that MongoDB refuses.
EmailHeld(c, m) ==
    m # None /\ \E d \in CompanyNames \ {c} : CompanyIsHere(d) /\ companies[d].email = m

\* The e-mail a body gives, or None.
GivenEmail(b) == IF "email" \in DOMAIN b THEN b.email ELSE None

CompanyRequest(op, c, changes) == [op |-> op, company |-> c, changes |-> changes]

CreateCompany(r) ==
    /\ \E b \in CompanyBodies :
        Start(r, "companyLookup", CompanyRequest("createCompany", r, b))
    /\ UNCHANGED companyVars

\* Mutant: e-mails are not compared.
LookupSkipped(c, m) == TRUE

EmailIsFree(c, m) == ~EmailHeld(c, m)

\* create(), also called by a registration, with the body of its company.
CompanyGiven(r) == IF Asked(r, "register") THEN local[r].firm ELSE local[r].changes

LookUpCompany(r) ==
    /\ pc[r] = "companyLookup"
    /\ Goto(r, IF EmailIsFree(r, GivenEmail(CompanyGiven(r))) THEN "companyInsert" ELSE "error")
    /\ UNCHANGED companyVars

\* What follows the insertion: the answer, or the user of the registration.
InsertCompany(r) ==
    /\ pc[r] = "companyInsert"
    /\ companies' = [companies EXCEPT ![r] =
            With([NoCompany EXCEPT !.stored = TRUE], CompanyGiven(r))]
    /\ IF Asked(r, "register")
       THEN \E label \in {"emailLookup", "failed"} : Goto(r, label) ELSE Ends(r)
    /\ UNCHANGED files

\* What a request gave is not kept when it is refused as it arrives.
UpdateCompany(r) ==
    /\ \E c \in CompanyNames :
        \/ /\ ~CompanyIsHere(c)
           /\ Start(r, "error", CompanyRequest("updateCompany", c, NoChanges))
        \/ /\ CompanyIsHere(c)
           /\ \E b \in CompanyBodies :
                Start(r, IF GivenEmail(b) \in {None, companies[c].email} THEN "companySet"
                         ELSE "companyCheck",
                      CompanyRequest("updateCompany", c, b))
    /\ UNCHANGED companyVars

CheckCompany(r) ==
    /\ pc[r] = "companyCheck"
    /\ Goto(r, IF EmailIsFree(local[r].company, GivenEmail(local[r].changes))
               THEN "companySet" ELSE "error")
    /\ UNCHANGED companyVars

\* $set of the fields given.
SetCompany(r) ==
    /\ pc[r] = "companySet"
    /\ LET c == local[r].company
       IN  \/ /\ CompanyIsHere(c)
              /\ companies' = [companies EXCEPT ![c] = With(@, local[r].changes)]
              /\ Ends(r)
           \/ ~CompanyIsHere(c) /\ Goto(r, "error") /\ UNCHANGED companies
    /\ UNCHANGED files

\* changeStatus: only a deletion asks that the company be not deleted.
ChangeCompanyStatus(r) ==
    /\ \E c \in CompanyNames, s \in EntityStatus :
        LET found == companies[c].stored /\ (s = "deleted" => companies[c].status # "deleted")
            request == CompanyRequest("companyStatus", c, [status |-> s])
        IN  \/ ~found /\ Start(r, "error", request) /\ UNCHANGED companies
            \/ /\ found
               /\ \E label \in {"ok", "failed"} : Start(r, label, request)
               /\ companies' = [companies EXCEPT ![c].status = s]
    /\ UNCHANGED files

(***************************************************************************)
(* The logo                                                                 *)
(***************************************************************************)
LogoRequest(op, c) == [op |-> op, company |-> c, old |-> companies[c].logo]

UpdateLogo(r) ==
    /\ \E c \in CompanyNames : Start(r, IF CompanyIsHere(c) THEN "logoUpload" ELSE "error",
                                     LogoRequest("updateLogo", c))
    /\ UNCHANGED companyVars

UploadLogo(r) ==
    /\ pc[r] = "logoUpload"
    /\ Upload(r)
    /\ Goto(r, "logoSet")
    /\ UNCHANGED companies

\* Nothing looks whether the company was still there.
SetLogo(r) ==
    /\ pc[r] = "logoSet"
    /\ LET c == local[r].company
       IN  companies' = IF CompanyIsHere(c) THEN [companies EXCEPT ![c].logo = r] ELSE companies
    /\ Goto(r, IF local[r].old # None THEN "logoDelete" ELSE "logoAnswer")
    /\ UNCHANGED files

DeleteLogo(r) ==
    /\ \E c \in CompanyNames :
        Start(r, IF CompanyIsHere(c) /\ companies[c].logo # None THEN "logoDelete" ELSE "error",
              LogoRequest("deleteLogo", c))
    /\ UNCHANGED companyVars

\* Mutant: the file stored last is deleted.
NewLogo(r) == companies[local[r].company].logo

\* The logo as read when the request arrived.
OldLogo(r) == local[r].old

DeleteLogoFile(r) ==
    /\ pc[r] = "logoDelete"
    /\ DeleteFile(OldLogo(r))
    /\ Goto(r, IF Asked(r, "updateLogo") THEN "logoAnswer" ELSE "logoUnset")
    /\ UNCHANGED companies

UnsetLogo(r) ==
    /\ pc[r] = "logoUnset"
    /\ LET c == local[r].company
       IN  companies' = IF CompanyIsHere(c) THEN [companies EXCEPT ![c].logo = None] ELSE companies
    /\ Goto(r, "logoAnswer")
    /\ UNCHANGED files

\* Both answer the company as it is now: an error when it was deleted.
AnswerLogo(r) ==
    /\ pc[r] = "logoAnswer"
    /\ Goto(r, IF CompanyIsHere(local[r].company) THEN "ok" ELSE "error")
    /\ UNCHANGED companyVars

CompanyArrive(r) ==
    CreateCompany(r) \/ UpdateCompany(r) \/ ChangeCompanyStatus(r) \/ UpdateLogo(r) \/ DeleteLogo(r)

CompanyStep(r) ==
    \/ LookUpCompany(r) \/ InsertCompany(r) \/ CheckCompany(r) \/ SetCompany(r)
    \/ UploadLogo(r) \/ SetLogo(r) \/ DeleteLogoFile(r) \/ UnsetLogo(r) \/ AnswerLogo(r)

CompanyLabels == {"companyLookup", "companyInsert", "companyCheck", "companySet",
                  "logoUpload", "logoSet", "logoDelete", "logoUnset", "logoAnswer"}

CompanyInit ==
    companies = [c \in CompanyNames |->
        IF c \in EarlierCompanies
        THEN [stored |-> TRUE, email |-> CompanyEmail[c], status |-> "active",
              logo |-> IF c \in EarlierFiles THEN c ELSE None]
        ELSE NoCompany]

(***************************************************************************)
(* Properties                                                               *)
(***************************************************************************)
CompanyTypeOK == companies \in [CompanyNames -> CompanyDoc]

\* Requests that do not overlap, and reactivate nothing, leave no two
\* companies of one contact e-mail.
SerialCompaniesAreExact ==
    Serial /\ (\A r \in Requests : Asked(r, "companyStatus") =>
                    local[r].changes.status = "deleted") =>
        \A c \in CompanyNames : CompanyIsHere(c) => ~EmailHeld(c, companies[c].email)

\* A logo whose file is gone was given by its URL, to this company or another
\* owner, or is left by a request on the logo that is not answered ok, or that
\* overlapped a change of the company's status.
LogoFilesExist ==
    \A c \in CompanyNames : companies[c].logo \notin files \cup {None} =>
        Named(companies[c].logo) \/ \E r \in Requests :
            /\ local[r].op \in {"updateLogo", "deleteLogo"} /\ local[r].company = c
            /\ \/ pc[r] # "ok"
               \/ \E q \in Requests : /\ Asked(q, "companyStatus") /\ local[q].company = c
                                      /\ q \notin before[r] /\ r \notin before[q]
=============================================================================
