------------------------------ MODULE Directory ------------------------------
(***************************************************************************)
(* Who uses the platform and how they are paid: companies, users, their     *)
(* tokens, speakers and payment methods.  The requests of one behaviour are *)
(* about one of these scopes.                                               *)
(***************************************************************************)
EXTENDS SpeakerRecords, PaymentMethods

CONSTANTS ArrivalBound  \* ArrivalBound[s]: how many requests arrive in scope s

VARIABLES scope  \* what the requests of this behaviour are about

peopleVars == <<accountVars, speakers>>
directoryVars == <<peopleVars, methods, handlerVars, scope>>

Scopes == {"accounts", "tokens", "companies", "speakers", "methods"}

Open(s) == scope = s /\ Cardinality({q \in Requests : pc[q] # "idle"}) < ArrivalBound[s]

InCompanies(r) ==
    /\ \/ Open("companies") /\ CompanyArrive(r)
       \/ CompanyStep(r)
    /\ UNCHANGED <<accounts, speakers, methods, scope>>

InAccounts(r) ==
    /\ \/ Open("accounts") /\ (UserArrive(r) \/ AuthArrive(r))
       \/ /\ Open("tokens")
          /\ ForgotPassword(r) \/ ResetPassword(r) \/ ChangePassword(r) \/ UpdateUser(r)
       \/ Open("speakers") /\ UserArrive(r)
       \/ AccountStep(r)
    /\ UNCHANGED <<speakers, methods, scope>>

InSpeakers(r) ==
    /\ \/ Open("speakers") /\ SpeakerArrive(r)
       \/ SpeakerStep(r)
    /\ UNCHANGED <<methods, scope>>

InMethods(r) ==
    /\ \/ Open("methods") /\ MethodArrive(r)
       \/ SaveMethod(r)
    /\ UNCHANGED <<peopleVars, scope>>

DirectoryCallFails(r) == Fails(r) /\ UNCHANGED <<peopleVars, methods, scope>>

DirectoryInit ==
    /\ HandlersInit /\ StorageInit /\ CompanyInit /\ AccountInit /\ SpeakerInit /\ MethodInit
    /\ scope \in Scopes

DirectoryQuiet ==
    /\ \A r \in Requests : ~InFlight(r)
    /\ UNCHANGED directoryVars

DirectoryNext ==
    \/ \E r \in Requests : \/ InCompanies(r) \/ InAccounts(r) \/ InSpeakers(r) \/ InMethods(r)
                           \/ DirectoryCallFails(r)
    \/ \E u \in AccountNames : TokenExpires(u) /\ UNCHANGED <<speakers, methods, scope>>
    \/ DirectoryQuiet

DirectorySpec == DirectoryInit /\ [][DirectoryNext]_directoryVars

(***************************************************************************)
(* Properties                                                               *)
(***************************************************************************)
\* The types of the collections and of the requests' program counters.
DirectoryTypeOK ==
    /\ HandlersTypeOK(CompanyLabels \cup AccountLabels \cup SpeakerLabels \cup {"methodSave"})
    /\ StorageTypeOK /\ CompanyTypeOK /\ AccountTypeOK /\ SpeakerTypeOK /\ MethodTypeOK
    /\ scope \in Scopes

\* Requests that do not overlap leave what they asked for: one holder of an
\* e-mail, the last password, the payment methods switched as asked; and,
\* overlapping or not, answered registrations are whole, speakers have users
\* and a deleted method stays deleted.
SerialDirectoryIsExact ==
    /\ SerialCompaniesAreExact /\ SerialAccountsAreExact /\ MethodsObey
    /\ RegistrationIsWhole /\ SpeakersHaveUsers

\* A stored logo or avatar whose file is gone was given by its URL, or comes of
\* a deletion of it, or of requests on it that were not answered ok.
PicturesExist == LogoFilesExist /\ AvatarFilesExist
=============================================================================
