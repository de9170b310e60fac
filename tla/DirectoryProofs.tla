--------------------------- MODULE DirectoryProofs ---------------------------
(***************************************************************************)
(* Theorems about who uses the platform, for any requests, companies,       *)
(* users, speakers and payment methods: the types, the registrations, the   *)
(* reset tokens, the pictures, and what requests that do not overlap leave. *)
(***************************************************************************)
EXTENDS Directory, HandlerProofs

\* The calls the requests make.
DirLabels == CompanyLabels \cup AccountLabels \cup SpeakerLabels \cup {"methodSave"}

\* What requests ask, by what they keep of it.
LogoOps == {"updateLogo", "deleteLogo"}
PhotoOps == {"updatePhoto", "deletePhoto"}
PasswordOps == {"reset", "changePassword"}
CompanyOps == {"createCompany", "updateCompany", "companyStatus"} \cup LogoOps
TokenOps == {"forgot", "verify"} \cup PasswordOps
UserOps == {"createUser", "updateUser", "userStatus", "login", "refresh", "createSpeaker",
            "updateSpeaker", "speakerStatus"} \cup TokenOps \cup PhotoOps
MethodOps == {"updateMethod", "deleteMethod", "toggleMethod"}
DirOps == CompanyOps \cup UserOps \cup MethodOps \cup {"register", "createMethod", "listMethods"}

\* The requests that insert a user, and those that give a body of one.
InsertOps == {"createUser", "createSpeaker", "register"}
BodyOps == InsertOps \cup {"updateUser", "updateSpeaker"}
FirmOps == {"createCompany", "updateCompany"}

\* What the body of a new user may give.
FirstFields == {"email", "companyIds", "avatar"}

(***************************************************************************)
(* What a request is, whatever it has done.                                 *)
(***************************************************************************)
\* The calls a request that asks op makes.
Calls(op) ==
    CASE op = "createCompany"  -> {"companyLookup", "companyInsert"}
      [] op = "updateCompany"  -> {"companyCheck", "companySet"}
      [] op = "updateLogo"     -> {"logoUpload", "logoSet", "logoDelete", "logoAnswer"}
      [] op = "deleteLogo"     -> {"logoDelete", "logoUnset", "logoAnswer"}
      [] op = "createUser"     -> {"emailLookup", "userInsert"}
      [] op = "updateUser"     -> {"userCheck", "userSet"}
      [] op = "register"       -> {"companyLookup", "companyInsert", "emailLookup", "userInsert",
                                   "verificationSet", "login", "lastLogin"}
      [] op = "login"          -> {"lastLogin"}
      [] op = "changePassword" -> {"passwordSet"}
      [] op = "forgot"         -> {"tokenSet"}
      [] op = "reset"          -> {"resetRead", "passwordSet", "tokenUnset"}
      [] op = "verify"         -> {"verifySet"}
      [] op = "createSpeaker"  -> {"emailLookup", "userInsert", "speakerInsert"}
      [] op = "updateSpeaker"  -> {"speakerUser", "userCheck", "userSet"}
      [] op = "updatePhoto"    -> {"photoUpload", "photoSet", "photoDelete", "photoAnswer"}
      [] op = "deletePhoto"    -> {"photoDelete", "photoUnset", "photoAnswer"}
      [] op \in MethodOps      -> {"methodSave"}
      [] OTHER                 -> {}

\* What a change of a method was read as and writes.
MethodFits(l) ==
    /\ l.old \in MethodDoc /\ l.new \in MethodDoc /\ l.old.status = "active"
    /\ l.op = "deleteMethod" => l.new.status = "deleted" /\ l.new.enabled = l.old.enabled
    /\ l.op # "deleteMethod" => l.new.status = "active"
    /\ l.op = "toggleMethod" => l.new.enabled = ~l.old.enabled

\* A request at `label` keeps l.
Fits(label, l) ==
    /\ "op" \in DOMAIN l /\ l.op \in DirOps
    /\ l.op \in CompanyOps => "company" \in DOMAIN l /\ l.company \in CompanyNames
    /\ l.op \in UserOps => "user" \in DOMAIN l
    /\ l.op \in TokenOps => "token" \in DOMAIN l
    /\ l.op = "register" => "company" \in DOMAIN l
    /\ l.op \in {"updateUser", "updateSpeaker"} \cup FirmOps => "changes" \in DOMAIN l
    /\ l.op \in MethodOps => "method" \in DOMAIN l /\ l.method \in Methods
    /\ label \notin Final =>
        /\ label \in Calls(l.op)
        /\ l.op \in UserOps \ {"createSpeaker"} => l.user \in AccountNames
        /\ l.op \in BodyOps => "changes" \in DOMAIN l /\ IsUserBody(l.changes)
        /\ l.op \in InsertOps =>
                GivenEmail(l.changes) \in Emails /\ DOMAIN l.changes \subseteq FirstFields
        /\ l.op = "updateSpeaker" => DOMAIN l.changes \subseteq {"email"}
        /\ l.op \in FirmOps => IsCompanyBody(l.changes)
        /\ l.op = "register" /\ label \in {"companyLookup", "companyInsert"} =>
                "firm" \in DOMAIN l /\ IsCompanyBody(l.firm)
        /\ l.op \in MethodOps => MethodFits(l)

\* The requests and the collections.
DirHere ==
    /\ Here(DirLabels)
    /\ \A r \in Requests : pc[r] # "idle" => Fits(pc[r], local[r])
    /\ StorageTypeOK /\ CompanyTypeOK /\ AccountTypeOK /\ SpeakerTypeOK /\ MethodTypeOK
    /\ scope \in Scopes

(***************************************************************************)
(* Registrations                                                            *)
(***************************************************************************)
\* A user named by a request was inserted by it.
InsertedInv ==
    \A r \in Requests : accounts[r].email # None =>
        pc[r] \notin {"idle", "companyLookup", "companyInsert", "emailLookup", "userInsert"}

\* The companies a body gives.
Linked(b) == IF "companyIds" \in DOMAIN b THEN b.companyIds ELSE {}

\* How far a registration, or a speaker's creation, is.
RegisterInv ==
    \A r \in Requests :
        /\ InFlight(r) /\ Asked(r, "register") /\ local[r].company =>
                /\ r \in Linked(local[r].changes)
                /\ pc[r] \in {"emailLookup", "userInsert"} => companies[r].stored
        /\ Asked(r, "register") /\ pc[r] \in {"verificationSet", "login", "lastLogin", "ok"} =>
                /\ accounts[r].email # None
                /\ local[r].company => companies[r].stored /\ (r \in accounts[r].companyIds \/ Relinked(r))
        /\ pc[r] = "speakerInsert" => accounts[r].email # None

(***************************************************************************)
(* Tokens                                                                   *)
(***************************************************************************)
\* One of S gave u the token t, and none of S another after it.
LatestIn(S, u, t) ==
    \E w \in S : /\ GivesToken(w, u) /\ TokenGiven(w) = t
                 /\ ~\E q \in S : pc[q] = "ok" /\ GivesToken(q, u) /\ w \in before[q]

\* The tokens that are stored, and the one a reset came with.
TokenInv ==
    /\ \A u \in AccountNames : accounts[u].reset # None => LatestIn(Requests, u, accounts[u].reset)
    /\ \A r \in Requests : Asked(r, "reset") /\ pc[r] # "error" =>
            LatestIn(before[r], local[r].user, local[r].token)

(***************************************************************************)
(* Pictures                                                                 *)
(***************************************************************************)
\* f is a logo of c, put there by nobody any more.
LogoOf(f, c) ==
    \/ f = c /\ c \in EarlierCompanies \cap EarlierFiles
    \/ /\ f \in Requests /\ Asked(f, "updateLogo") /\ local[f].company = c
       /\ pc[f] \notin {"logoUpload", "logoSet"}

\* The logos of the companies, and those read, are theirs, or were given.
LogosOwned ==
    /\ \A c \in CompanyNames :
        companies[c].logo # None => LogoOf(companies[c].logo, c) \/ Named(companies[c].logo)
    /\ \A r \in Requests : InFlight(r) /\ local[r].op \in LogoOps /\ local[r].old # None =>
            LogoOf(local[r].old, local[r].company) \/ Named(local[r].old)

\* The status of c changed while r ran.
Overlapped(r, c) ==
    \E q \in Requests : /\ Asked(q, "companyStatus") /\ local[q].company = c
                        /\ q \notin before[r] /\ r \notin before[q]

\* Why the file f of c may be gone.
Excuses(r, c, f) ==
    /\ local[r].op \in LogoOps /\ local[r].company = c
    /\ \/ pc[r] \in {"error", "failed"} \/ Overlapped(r, c)
       \/ pc[r] = "logoUnset" /\ local[r].old = f

\* What a request on a logo knows.
LogoAsked(r) ==
    /\ pc[r] = "logoSet" => r \in files \/ Named(r)
    /\ InFlight(r) /\ local[r].op \in LogoOps =>
            CompanyIsHere(local[r].company) \/ Overlapped(r, local[r].company)
    /\ pc[r] = "logoDelete" => local[r].old # None
    /\ pc[r] = "logoDelete" /\ Asked(r, "updateLogo") =>
            \/ companies[local[r].company].logo # local[r].old
            \/ Overlapped(r, local[r].company) \/ Named(local[r].old)

\* A logo whose file is gone has an excuse.
LogosBacked ==
    \A c \in CompanyNames : companies[c].logo \notin files \cup {None} =>
        Named(companies[c].logo) \/ \E r \in Requests : Excuses(r, c, companies[c].logo)

LogoInv == LogosOwned /\ LogosBacked /\ \A r \in Requests : LogoAsked(r)

\* f is a photo of u, put there by nobody any more.
PhotoOf(f, u) ==
    \/ f = u /\ u \in EarlierAccounts \cap EarlierFiles
    \/ /\ f \in Requests /\ Asked(f, "updatePhoto") /\ local[f].user = u
       /\ pc[f] \notin {"photoUpload", "photoSet"}

\* The photos of the users, and those read, are theirs, or were given.
PhotosOwned ==
    /\ \A u \in AccountNames :
        accounts[u].avatar # None => PhotoOf(accounts[u].avatar, u) \/ Named(accounts[u].avatar)
    /\ \A r \in Requests : InFlight(r) /\ local[r].op \in PhotoOps /\ local[r].old # None =>
            PhotoOf(local[r].old, local[r].user) \/ Named(local[r].old)

\* What a request on a photo knows.
PhotoAsked(r) ==
    /\ pc[r] = "photoSet" => r \in files \/ Named(r)
    /\ pc[r] = "photoDelete" => local[r].old # None
    /\ pc[r] = "photoDelete" /\ Asked(r, "updatePhoto") =>
            accounts[local[r].user].avatar # local[r].old \/ Named(local[r].old)

PhotoInv == PhotosOwned /\ AvatarFilesExist /\ \A r \in Requests : PhotoAsked(r)

(***************************************************************************)
(* Methods                                                                  *)
(***************************************************************************)
\* A method named by a request is created by it; what was deleted stays so;
\* what is about to be saved is there.
MethodInv ==
    /\ \A r \in Requests : pc[r] = "idle" => methods[r].status = "none"
    /\ \A k \in Methods, q \in Requests :
        Asked(q, "deleteMethod") /\ local[q].method = k /\ pc[q] = "ok" =>
            methods[k].status = "deleted"
    /\ \A r \in Requests : pc[r] = "methodSave" => methods[local[r].method].status # "none"

(***************************************************************************)
(* Requests that have not overlapped                                        *)
(***************************************************************************)
\* No company was, or user, brought back.
CompaniesOnlyDeleted ==
    \A r \in Requests : Asked(r, "companyStatus") => local[r].changes.status = "deleted"
UsersOnlyDeleted ==
    \A r \in Requests : Asked(r, "userStatus") => local[r].status = "deleted"

\* Companies have e-mails of their own, the one about to be stored included.
CompaniesExact ==
    /\ \A c \in CompanyNames : CompanyIsHere(c) => ~EmailHeld(c, companies[c].email)
    /\ \A r \in Requests :
        /\ pc[r] = "companyInsert" => ~EmailHeld(r, GivenEmail(CompanyGiven(r)))
        /\ pc[r] = "companySet" => ~EmailHeld(local[r].company, GivenEmail(local[r].changes))

\* So have users.
EmailsExact ==
    /\ \A m \in Emails : \A u, v \in Holders(m) : u = v
    /\ \A r \in Requests :
        /\ pc[r] = "userInsert" => Holders(GivenEmail(local[r].changes)) \subseteq {r}
        /\ pc[r] = "userSet" => Holders(GivenEmail(local[r].changes)) \subseteq {local[r].user}

\* Who gave u a password.
Givers(u) ==
    {q \in Requests : /\ local[q].op \in PasswordOps /\ local[q].user = u
                      /\ pc[q] \in {"ok", "tokenUnset"}}

\* The password is the one given last, to a user who is there.
PasswordsExact ==
    /\ \A u \in AccountNames : \A r \in LastOf(Givers(u)) :
            accounts[u].password = r /\ accounts[u].email # None
    /\ \A r \in Requests : pc[r] = "tokenUnset" => AccountIsHere(local[r].user)

\* Who turned k over, and who updated it.
Switches(op, k) == {r \in Requests : Asked(r, op) /\ local[r].method = k /\ pc[r] = "ok"}

\* Methods are as often turned over as asked, and read as they are.
MethodsExact ==
    /\ \A k \in EarlierMethods : Switches("updateMethod", k) = {} =>
            methods[k].enabled = (Cardinality(Switches("toggleMethod", k)) % 2 = 0)
    /\ \A r \in Requests : pc[r] = "methodSave" => local[r].old = methods[local[r].method]

\* What holds as long as no two requests have overlapped.
DirSerialInv ==
    SerialSoFar =>
        /\ CompaniesOnlyDeleted => CompaniesExact
        /\ UsersOnlyDeleted => EmailsExact
        /\ PasswordsExact /\ MethodsExact

\* The invariant, but for what holds of requests that have not overlapped.
DirInv == DirHere /\ InsertedInv /\ RegisterInv /\ SpeakersHaveUsers /\ TokenInv
            /\ LogoInv /\ PhotoInv /\ MethodInv

(***************************************************************************)
(* A step is the move of one request: it arrives, knowing what it read, or  *)
(* goes on to another call.                                                 *)
(***************************************************************************)
\* What a request that arrives with l, and goes on to `label`, has read.
Known(r, label, l) ==
    /\ label \in Final \cup {"companyLookup", "companyCheck", "companySet", "logoUpload",
                             "logoDelete", "emailLookup", "userCheck", "userSet", "lastLogin",
                             "passwordSet", "tokenSet", "resetRead", "verifySet", "speakerUser",
                             "photoUpload", "photoDelete", "methodSave"}
    /\ l.op \in {"createCompany", "updateCompany", "createUser", "updateUser", "login",
                 "changePassword", "verify", "createSpeaker", "register", "reset"}
            \cup LogoOps \cup PhotoOps \cup MethodOps => label \notin {"ok", "failed"}
    /\ l.op = "register" =>
            /\ label # "lastLogin" /\ (label = "emailLookup" => ~l.company)
            /\ label # "error" /\ l.company => r \in Linked(l.changes)
    /\ l.op \in LogoOps /\ label \notin Final =>
            /\ CompanyIsHere(l.company) /\ l.old = companies[l.company].logo
            /\ label = "logoDelete" => l.op = "deleteLogo" /\ l.old # None
    /\ l.op \in PhotoOps /\ label \notin Final =>
            /\ l.old = accounts[l.user].avatar
            /\ label = "photoDelete" => l.op = "deletePhoto" /\ l.old # None
    /\ l.op = "reset" /\ label # "error" => l.token \in Requests /\ l.user \in TokenHolders(l.token)
    /\ l.op = "forgot" /\ label = "ok" => l.user = None
    /\ label = "companySet" =>
            CompanyIsHere(l.company) /\ GivenEmail(l.changes) \in {None, companies[l.company].email}
    /\ label = "userSet" =>
            AccountIsHere(l.user) /\ GivenEmail(l.changes) \in {None, accounts[l.user].email}
    /\ label = "methodSave" => l.old = methods[l.method]

\* Where a request goes on to, and what it has looked up to go there.
Edge(r, label) ==
    \/ label = "failed"
    \/ pc[r] = "companyLookup" /\ label = "error"
    \/ pc[r] = "companyLookup" /\ label = "companyInsert"
            /\ EmailIsFree(r, GivenEmail(CompanyGiven(r)))
    \/ pc[r] = "companyInsert" /\ label = IF Asked(r, "register") THEN "emailLookup" ELSE "ok"
    \/ pc[r] = "companyCheck" /\ label = "error"
    \/ pc[r] = "companyCheck" /\ label = "companySet"
            /\ EmailIsFree(local[r].company, GivenEmail(local[r].changes))
    \/ pc[r] = "companySet" /\ label \in {"ok", "error"}
    \/ pc[r] = "logoUpload" /\ label = "logoSet"
    \/ pc[r] = "logoSet" /\ label = IF local[r].old # None THEN "logoDelete" ELSE "logoAnswer"
    \/ pc[r] = "logoDelete" /\ label = IF Asked(r, "updateLogo") THEN "logoAnswer" ELSE "logoUnset"
    \/ pc[r] = "logoUnset" /\ label = "logoAnswer"
    \/ pc[r] = "logoAnswer" /\ label \in {"ok", "error"}
    \/ pc[r] = "emailLookup" /\ label = "error"
    \/ pc[r] = "emailLookup" /\ label = "userInsert"
            /\ EmailIsAvailable(r, GivenEmail(local[r].changes))
    \/ pc[r] = "userInsert" /\ label = AfterInsert(local[r].op)
    \/ pc[r] = "userCheck" /\ label = "error"
    \/ pc[r] = "userCheck" /\ label = "userSet"
            /\ EmailIsAvailable(local[r].user, GivenEmail(local[r].changes))
    \/ pc[r] = "userSet" /\ label \in {"ok", "error"}
    \/ pc[r] = "verificationSet" /\ label \in {"login", "error"}
    \/ pc[r] = "login" /\ label \in {"lastLogin", "error"}
    \/ pc[r] = "lastLogin" /\ label = "ok"
    \/ pc[r] \in {"tokenSet", "verifySet"} /\ label \in {"ok", "error"}
    \/ pc[r] = "tokenUnset" /\ label = "ok"
    \/ pc[r] = "tokenUnset" /\ label = "error" /\ ~AccountIsHere(local[r].user)
    \/ pc[r] = "resetRead" /\ label \in {"passwordSet", "error"}
    \/ pc[r] = "passwordSet" /\ label \in {"error", IF Asked(r, "reset") THEN "tokenUnset" ELSE "ok"}
    \/ pc[r] = "speakerInsert" /\ label = "ok"
    \/ pc[r] = "speakerUser" /\ label \in {"userCheck", "error"}
    \/ /\ pc[r] = "speakerUser" /\ label = "userSet" /\ AccountIsHere(local[r].user)
       /\ GivenEmail(local[r].changes) \in {None, accounts[local[r].user].email}
    \/ pc[r] = "photoUpload" /\ label = "photoSet"
    \/ pc[r] = "photoSet" /\ label \in {"error", IF local[r].old # None THEN "photoDelete" ELSE "photoAnswer"}
    \/ pc[r] = "photoDelete" /\ label = IF Asked(r, "updatePhoto") THEN "photoAnswer" ELSE "photoUnset"
    \/ pc[r] = "photoUnset" /\ label \in {"photoAnswer", "error"}
    \/ pc[r] = "photoAnswer" /\ label \in {"ok", "error"}
    \/ pc[r] = "methodSave" /\ label = "ok"

\* The moves of r.
Arrives(r) ==
    \E label \in DirLabels \cup Final : \E l :
        Start(r, label, l) /\ Fits(label, l) /\ Known(r, label, l)
GoesOn(r) ==
    \E label \in DirLabels \cup Final :
        InFlight(r) /\ Goto(r, label) /\ Fits(label, local[r]) /\ Edge(r, label)

\* No call is named as an end is.
LEMMA LabelsApart == DirLabels \cap (Final \cup {"idle"}) = {}
BY DEF DirLabels, CompanyLabels, AccountLabels, SpeakerLabels, Final

\* A request in flight has a call of its own to make.
LEMMA InFlightFits ==
  ASSUME DirHere, NEW r \in Requests, InFlight(r)
  PROVE  /\ Fits(pc[r], local[r]) /\ pc[r] \notin Final /\ pc[r] \in DirLabels
         /\ pc[r] \in Calls(local[r].op)
BY DEF DirHere, InFlight, Fits, Here, Final

\* One that goes on to a call of its own fits.
LEMMA GoesToFit ==
  ASSUME DirHere, NEW r \in Requests, InFlight(r), NEW label \in DirLabels \cup Final,
         label \in Final \/ label \in Calls(local[r].op),
         label \in {"companyLookup", "companyInsert"} => pc[r] \in {"companyLookup", "companyInsert"}
  PROVE  Fits(label, local[r])
BY InFlightFits DEF Fits


(***************************************************************************)
(* The arrivals.                                                            *)
(***************************************************************************)
\* What the bodies are.
LEMMA Bodies ==
  /\ IsUserBody(NoChanges) /\ GivenEmail(NoChanges) = None /\ DOMAIN NoChanges = {}
  /\ \A b \in UserBodies : IsUserBody(b)
  /\ \A b \in CreateBodies :
        IsUserBody(b) /\ GivenEmail(b) \in Emails /\ DOMAIN b \subseteq FirstFields
  /\ \A b \in CompanyBodies : IsCompanyBody(b)
  /\ \A m \in Emails :
        LET b == [email |-> m]
        IN  IsUserBody(b) /\ GivenEmail(b) = m /\ DOMAIN b \subseteq {"email"}
  /\ \A m \in Emails, q \in Requests :
        LET b == [email |-> m, companyIds |-> {q}]
        IN  /\ IsUserBody(b) /\ GivenEmail(b) = m /\ q \in Linked(b)
            /\ DOMAIN b \subseteq FirstFields
<1>1. IsUserBody(NoChanges) /\ GivenEmail(NoChanges) = None /\ DOMAIN NoChanges = {}
  BY DEF IsUserBody, NoChanges, GivenEmail
<1>2. \A b \in UserBodies : IsUserBody(b)
  BY AccountsAssumption
<1>3. ASSUME NEW b \in CreateBodies
      PROVE  IsUserBody(b) /\ GivenEmail(b) \in Emails /\ DOMAIN b \subseteq FirstFields
  BY <1>2 DEF CreateBodies, IsUserBody, GivenEmail, FirstFields
<1>4. \A b \in CompanyBodies : IsCompanyBody(b)
  BY CompaniesAssumption
<1>5. ASSUME NEW m \in Emails
      PROVE  LET b == [email |-> m]
             IN  IsUserBody(b) /\ GivenEmail(b) = m /\ DOMAIN b \subseteq {"email"}
  BY DEF IsUserBody, GivenEmail
<1>6. ASSUME NEW m \in Emails, NEW q \in Requests
      PROVE  LET b == [email |-> m, companyIds |-> {q}]
             IN  /\ IsUserBody(b) /\ GivenEmail(b) = m /\ q \in Linked(b)
                 /\ DOMAIN b \subseteq FirstFields
  BY DEF IsUserBody, GivenEmail, Linked, CompanyNames, FirstFields
<1> QED
  BY <1>1, <1>2, <1>3, <1>4, <1>5, <1>6

\* A request on a company arrives knowing what it read.
LEMMA CompaniesArrive ==
  ASSUME DirHere, NEW r \in Requests, CompanyArrive(r)
  PROVE  Arrives(r)
<1> USE DEF Fits, Known, Calls, DirOps, CompanyOps, LogoOps, UserOps, TokenOps, PhotoOps,
             PasswordOps, MethodOps, InsertOps, BodyOps, FirmOps, Final, DirLabels, CompanyLabels, AccountLabels,
             SpeakerLabels
<1>1. CASE CreateCompany(r)
  <2>1. PICK b \in CompanyBodies :
            Start(r, "companyLookup", CompanyRequest("createCompany", r, b))
    BY <1>1 DEF CreateCompany
  <2> DEFINE l == CompanyRequest("createCompany", r, b)
  <2>2. Fits("companyLookup", l) /\ Known(r, "companyLookup", l)
    BY Bodies DEF CompanyRequest, CompanyNames
  <2> QED
    BY <2>1, <2>2 DEF Arrives
<1>2. CASE UpdateCompany(r)
  <2>1. PICK c \in CompanyNames :
            \/ Start(r, "error", CompanyRequest("updateCompany", c, NoChanges))
            \/ /\ CompanyIsHere(c)
               /\ \E b \in CompanyBodies :
                    Start(r, IF GivenEmail(b) \in {None, companies[c].email} THEN "companySet"
                             ELSE "companyCheck",
                          CompanyRequest("updateCompany", c, b))
    BY <1>2 DEF UpdateCompany
  <2>2. CASE Start(r, "error", CompanyRequest("updateCompany", c, NoChanges))
    <3> DEFINE l == CompanyRequest("updateCompany", c, NoChanges)
    <3>1. Fits("error", l) /\ Known(r, "error", l)
      BY DEF CompanyRequest
    <3> QED
      BY <2>2, <3>1 DEF Arrives
  <2>3. ASSUME CompanyIsHere(c), NEW b \in CompanyBodies,
               Start(r, IF GivenEmail(b) \in {None, companies[c].email} THEN "companySet"
                        ELSE "companyCheck",
                     CompanyRequest("updateCompany", c, b))
        PROVE  Arrives(r)
    <3> DEFINE l == CompanyRequest("updateCompany", c, b)
    <3>1. PICK label \in {"companyCheck", "companySet"} :
              /\ label = IF GivenEmail(b) \in {None, companies[c].email} THEN "companySet"
                         ELSE "companyCheck"
              /\ label = "companySet" => GivenEmail(b) \in {None, companies[c].email}
      OBVIOUS
    <3>2. Fits(label, l) /\ Known(r, label, l)
      BY <2>3, <3>1, Bodies DEF CompanyRequest
    <3> QED
      BY <2>3, <3>1, <3>2 DEF Arrives
  <2> QED
    BY <2>1, <2>2, <2>3
<1>3. CASE ChangeCompanyStatus(r)
  <2>1. PICK c \in CompanyNames, s \in EntityStatus :
            \E label \in Final : Start(r, label, CompanyRequest("companyStatus", c, [status |-> s]))
    BY <1>3 DEF ChangeCompanyStatus
  <2>2. PICK label \in Final : Start(r, label, CompanyRequest("companyStatus", c, [status |-> s]))
    BY <2>1
  <2> DEFINE l == CompanyRequest("companyStatus", c, [status |-> s])
  <2>3. Fits(label, l) /\ Known(r, label, l)
    BY DEF CompanyRequest
  <2> QED
    BY <2>2, <2>3 DEF Arrives
<1>4. CASE UpdateLogo(r)
  <2>1. PICK c \in CompanyNames :
            Start(r, IF CompanyIsHere(c) THEN "logoUpload" ELSE "error", LogoRequest("updateLogo", c))
    BY <1>4 DEF UpdateLogo
  <2> DEFINE l == LogoRequest("updateLogo", c)
  <2>2. PICK label \in {"error", "logoUpload"} :
            /\ label = IF CompanyIsHere(c) THEN "logoUpload" ELSE "error"
            /\ label = "logoUpload" => CompanyIsHere(c)
    OBVIOUS
  <2>3. Fits(label, l) /\ Known(r, label, l)
    BY <2>2 DEF LogoRequest
  <2> QED
    BY <2>1, <2>2, <2>3 DEF Arrives
<1>5. CASE DeleteLogo(r)
  <2>1. PICK c \in CompanyNames :
            Start(r, IF CompanyIsHere(c) /\ companies[c].logo # None THEN "logoDelete" ELSE "error",
                  LogoRequest("deleteLogo", c))
    BY <1>5 DEF DeleteLogo
  <2> DEFINE l == LogoRequest("deleteLogo", c)
  <2>2. PICK label \in {"error", "logoDelete"} :
            /\ label = IF CompanyIsHere(c) /\ companies[c].logo # None THEN "logoDelete" ELSE "error"
            /\ label = "logoDelete" => CompanyIsHere(c) /\ companies[c].logo # None
    OBVIOUS
  <2>3. Fits(label, l) /\ Known(r, label, l)
    BY <2>2 DEF LogoRequest
  <2> QED
    BY <2>1, <2>2, <2>3 DEF Arrives
<1> QED
  BY <1>1, <1>2, <1>3, <1>4, <1>5 DEF CompanyArrive

\* So do the requests of the users' administration.
LEMMA UsersArrive ==
  ASSUME DirHere, NEW r \in Requests, UserArrive(r)
  PROVE  Arrives(r)
<1> USE DEF Fits, Known, Calls, DirOps, CompanyOps, LogoOps, UserOps, TokenOps, PhotoOps,
             PasswordOps, MethodOps, InsertOps, BodyOps, FirmOps, Final, DirLabels, CompanyLabels, AccountLabels,
             SpeakerLabels
<1>1. CASE CreateUser(r)
  <2>1. \/ Start(r, "error", UserRequest("createUser", r, NoChanges))
        \/ \E b \in CreateBodies : Start(r, "emailLookup", UserRequest("createUser", r, b))
    BY <1>1 DEF CreateUser
  <2>2. CASE Start(r, "error", UserRequest("createUser", r, NoChanges))
    <3> DEFINE l == UserRequest("createUser", r, NoChanges)
    <3>1. Fits("error", l) /\ Known(r, "error", l)
      BY DEF UserRequest
    <3> QED
      BY <2>2, <3>1 DEF Arrives
  <2>3. ASSUME NEW b \in CreateBodies, Start(r, "emailLookup", UserRequest("createUser", r, b))
        PROVE  Arrives(r)
    <3> DEFINE l == UserRequest("createUser", r, b)
    <3>1. Fits("emailLookup", l) /\ Known(r, "emailLookup", l)
      BY Bodies DEF UserRequest, AccountNames
    <3> QED
      BY <2>3, <3>1 DEF Arrives
  <2> QED
    BY <2>1, <2>2, <2>3
<1>2. CASE UpdateUser(r)
  <2>1. PICK u \in AccountNames :
            \/ Start(r, "error", UserRequest("updateUser", u, NoChanges))
            \/ /\ AccountIsHere(u)
               /\ \E b \in UserBodies : Start(r, AfterRead(u, b), UserRequest("updateUser", u, b))
    BY <1>2 DEF UpdateUser
  <2>2. CASE Start(r, "error", UserRequest("updateUser", u, NoChanges))
    <3> DEFINE l == UserRequest("updateUser", u, NoChanges)
    <3>1. Fits("error", l) /\ Known(r, "error", l)
      BY DEF UserRequest
    <3> QED
      BY <2>2, <3>1 DEF Arrives
  <2>3. ASSUME AccountIsHere(u), NEW b \in UserBodies,
               Start(r, AfterRead(u, b), UserRequest("updateUser", u, b))
        PROVE  Arrives(r)
    <3> DEFINE l == UserRequest("updateUser", u, b)
    <3>1. PICK label \in {"userCheck", "userSet"} :
              /\ label = AfterRead(u, b)
              /\ label = "userSet" => GivenEmail(b) \in {None, accounts[u].email}
      BY DEF AfterRead
    <3>2. Fits(label, l) /\ Known(r, label, l)
      BY <2>3, <3>1, Bodies DEF UserRequest
    <3> QED
      BY <2>3, <3>1, <3>2 DEF Arrives
  <2> QED
    BY <2>1, <2>2, <2>3
<1>3. CASE ChangeUserStatus(r)
  <2>1. PICK u \in AccountNames, s \in EntityStatus :
            \E label \in Final : Start(r, label, [op |-> "userStatus", user |-> u, status |-> s])
    BY <1>3 DEF ChangeUserStatus
  <2>2. PICK label \in Final : Start(r, label, [op |-> "userStatus", user |-> u, status |-> s])
    BY <2>1
  <2> DEFINE l == [op |-> "userStatus", user |-> u, status |-> s]
  <2>3. Fits(label, l) /\ Known(r, label, l)
    OBVIOUS
  <2> QED
    BY <2>2, <2>3 DEF Arrives
<1> QED
  BY <1>1, <1>2, <1>3 DEF UserArrive

\* Whoever holds an e-mail has a name, and is not no one.
LEMMA HoldersNamed ==
  ASSUME NEW u, (\E m : u \in Holders(m)) \/ (\E t : u \in TokenHolders(t))
  PROVE  u \in AccountNames
BY DEF Holders, TokenHolders

\* So do the requests of AuthService.
LEMMA AuthsArrive ==
  ASSUME DirHere, NEW r \in Requests, AuthArrive(r)
  PROVE  Arrives(r)
<1> USE DEF Fits, Known, Calls, DirOps, CompanyOps, LogoOps, UserOps, TokenOps, PhotoOps,
             PasswordOps, MethodOps, InsertOps, BodyOps, FirmOps, Final, DirLabels, CompanyLabels, AccountLabels,
             SpeakerLabels
<1>1. CASE Register(r)
  <2>1. PICK m \in Emails :
            \/ Start(r, "error", [op |-> "register", company |-> FALSE])
            \/ Start(r, "emailLookup", [op |-> "register", company |-> FALSE,
                                       changes |-> [email |-> m]])
            \/ \E b \in CompanyBodies :
                 Start(r, "companyLookup", [op |-> "register", company |-> TRUE, firm |-> b,
                                            changes |-> [email |-> m, companyIds |-> {r}]])
    BY <1>1 DEF Register
  <2>2. CASE Start(r, "error", [op |-> "register", company |-> FALSE])
    <3> DEFINE l == [op |-> "register", company |-> FALSE]
    <3>1. Fits("error", l) /\ Known(r, "error", l)
      OBVIOUS
    <3> QED
      BY <2>2, <3>1 DEF Arrives
  <2>3. CASE Start(r, "emailLookup", [op |-> "register", company |-> FALSE,
                                      changes |-> [email |-> m]])
    <3> DEFINE l == [op |-> "register", company |-> FALSE, changes |-> [email |-> m]]
    <3>1. Fits("emailLookup", l) /\ Known(r, "emailLookup", l)
      BY Bodies
    <3> QED
      BY <2>3, <3>1 DEF Arrives
  <2>4. ASSUME NEW b \in CompanyBodies,
               Start(r, "companyLookup", [op |-> "register", company |-> TRUE, firm |-> b,
                                          changes |-> [email |-> m, companyIds |-> {r}]])
        PROVE  Arrives(r)
    <3> DEFINE l == [op |-> "register", company |-> TRUE, firm |-> b,
                     changes |-> [email |-> m, companyIds |-> {r}]]
    <3>1. Fits("companyLookup", l) /\ Known(r, "companyLookup", l)
      BY Bodies
    <3> QED
      BY <2>4, <3>1 DEF Arrives
  <2> QED
    BY <2>1, <2>2, <2>3, <2>4
<1>2. CASE Login(r)
  <2>1. PICK m \in Emails, p \in Requests \cup {None} :
            \/ \E u \in Holders(m) : Start(r, LoginAnswer(u, p), UserRequest("login", u, NoChanges))
            \/ Start(r, "error", UserRequest("login", None, NoChanges))
    BY <1>2 DEF Login
  <2>2. ASSUME NEW u \in Holders(m), Start(r, LoginAnswer(u, p), UserRequest("login", u, NoChanges))
        PROVE  Arrives(r)
    <3>1. LoginAnswer(u, p) \in {"lastLogin", "error"} /\ u \in AccountNames
      BY <2>2 DEF LoginAnswer, Holders
    <3>2. PICK label \in {"lastLogin", "error"} : label = LoginAnswer(u, p)
      BY <3>1
    <3> DEFINE l == UserRequest("login", u, NoChanges)
    <3>3. Fits(label, l) /\ Known(r, label, l)
      BY <3>1 DEF UserRequest
    <3> QED
      BY <2>2, <3>2, <3>3 DEF Arrives
  <2>3. CASE Start(r, "error", UserRequest("login", None, NoChanges))
    <3> DEFINE l == UserRequest("login", None, NoChanges)
    <3>1. Fits("error", l) /\ Known(r, "error", l)
      BY DEF UserRequest
    <3> QED
      BY <2>3, <3>1 DEF Arrives
  <2> QED
    BY <2>1, <2>2, <2>3
<1>3. CASE Refresh(r)
  <2>1. PICK u \in AccountNames :
            Start(r, IF AccountIsHere(u) /\ accounts[u].status = "active" THEN "ok" ELSE "error",
                  [op |-> "refresh", user |-> u])
    BY <1>3 DEF Refresh
  <2> DEFINE l == [op |-> "refresh", user |-> u]
  <2>2. PICK label \in Final :
            label = IF AccountIsHere(u) /\ accounts[u].status = "active" THEN "ok" ELSE "error"
    OBVIOUS
  <2>3. Fits(label, l) /\ Known(r, label, l)
    OBVIOUS
  <2> QED
    BY <2>1, <2>2, <2>3 DEF Arrives
<1>4. CASE ChangePassword(r)
  <2>1. PICK u \in AccountNames, known \in Requests \cup {None} :
            Start(r, IF AccountIsHere(u) /\ accounts[u].password = known
                     THEN "passwordSet" ELSE "error", TokenRequest("changePassword", u, None))
    BY <1>4 DEF ChangePassword
  <2> DEFINE l == TokenRequest("changePassword", u, None)
  <2>2. PICK label \in {"passwordSet", "error"} :
            label = IF AccountIsHere(u) /\ accounts[u].password = known THEN "passwordSet" ELSE "error"
    OBVIOUS
  <2>3. Fits(label, l) /\ Known(r, label, l)
    BY DEF TokenRequest
  <2> QED
    BY <2>1, <2>2, <2>3 DEF Arrives
<1>5. CASE ForgotPassword(r)
  <2>1. PICK m \in Emails :
            \/ \E u \in Holders(m) : Start(r, "tokenSet", TokenRequest("forgot", u, r))
            \/ Start(r, "ok", TokenRequest("forgot", None, r))
    BY <1>5 DEF ForgotPassword
  <2>2. ASSUME NEW u \in Holders(m), Start(r, "tokenSet", TokenRequest("forgot", u, r))
        PROVE  Arrives(r)
    <3> DEFINE l == TokenRequest("forgot", u, r)
    <3>1. Fits("tokenSet", l) /\ Known(r, "tokenSet", l)
      BY HoldersNamed DEF TokenRequest
    <3> QED
      BY <2>2, <3>1 DEF Arrives
  <2>3. CASE Start(r, "ok", TokenRequest("forgot", None, r))
    <3> DEFINE l == TokenRequest("forgot", None, r)
    <3>1. Fits("ok", l) /\ Known(r, "ok", l)
      BY DEF TokenRequest
    <3> QED
      BY <2>3, <3>1 DEF Arrives
  <2> QED
    BY <2>1, <2>2, <2>3
<1>6. CASE ResetPassword(r)
  <2>1. PICK t \in Requests :
            \/ \E u \in TokenHolders(t) : Start(r, "resetRead", TokenRequest("reset", u, t))
            \/ Start(r, "error", TokenRequest("reset", None, None))
    BY <1>6 DEF ResetPassword
  <2>2. ASSUME NEW u \in TokenHolders(t), Start(r, "resetRead", TokenRequest("reset", u, t))
        PROVE  Arrives(r)
    <3> DEFINE l == TokenRequest("reset", u, t)
    <3>1. Fits("resetRead", l) /\ Known(r, "resetRead", l)
      BY HoldersNamed DEF TokenRequest
    <3> QED
      BY <2>2, <3>1 DEF Arrives
  <2>3. CASE Start(r, "error", TokenRequest("reset", None, None))
    <3> DEFINE l == TokenRequest("reset", None, None)
    <3>1. Fits("error", l) /\ Known(r, "error", l)
      BY DEF TokenRequest
    <3> QED
      BY <2>3, <3>1 DEF Arrives
  <2> QED
    BY <2>1, <2>2, <2>3
<1>7. CASE VerifyEmail(r)
  <2>1. \/ \E u \in AccountNames, t \in Requests \cup {None} :
                Start(r, "verifySet", TokenRequest("verify", u, t))
        \/ Start(r, "error", TokenRequest("verify", None, None))
    BY <1>7 DEF VerifyEmail
  <2>2. ASSUME NEW u \in AccountNames, NEW t, Start(r, "verifySet", TokenRequest("verify", u, t))
        PROVE  Arrives(r)
    <3> DEFINE l == TokenRequest("verify", u, t)
    <3>1. Fits("verifySet", l) /\ Known(r, "verifySet", l)
      BY DEF TokenRequest
    <3> QED
      BY <2>2, <3>1 DEF Arrives
  <2>3. CASE Start(r, "error", TokenRequest("verify", None, None))
    <3> DEFINE l == TokenRequest("verify", None, None)
    <3>1. Fits("error", l) /\ Known(r, "error", l)
      BY DEF TokenRequest
    <3> QED
      BY <2>3, <3>1 DEF Arrives
  <2> QED
    BY <2>1, <2>2, <2>3
<1> QED
  BY <1>1, <1>2, <1>3, <1>4, <1>5, <1>6, <1>7 DEF AuthArrive

\* A speaker that is there is a user.
LEMMA SpeakersAreUsers ==
  ASSUME DirHere, NEW s \in SpeakerNames, SpeakerIsHere(s)
  PROVE  speakers[s].user \in AccountNames
BY DEF DirHere, SpeakerTypeOK, SpeakerDoc, SpeakerIsHere

\* So do the requests on speakers and their photos.
LEMMA SpeakersArrive ==
  ASSUME DirHere, NEW r \in Requests, SpeakerArrive(r)
  PROVE  Arrives(r)
<1> USE DEF Fits, Known, Calls, DirOps, CompanyOps, LogoOps, UserOps, TokenOps, PhotoOps,
             PasswordOps, MethodOps, InsertOps, BodyOps, FirmOps, Final, DirLabels, CompanyLabels, AccountLabels,
             SpeakerLabels
<1>1. CASE CreateSpeakerWithUser(r)
  <2>1. \/ Start(r, "error", SpeakerRequest("createSpeaker", r, NoChanges))
        \/ \E b \in CreateBodies : Start(r, "emailLookup", SpeakerRequest("createSpeaker", r, b))
    BY <1>1 DEF CreateSpeakerWithUser
  <2>2. CASE Start(r, "error", SpeakerRequest("createSpeaker", r, NoChanges))
    <3> DEFINE l == SpeakerRequest("createSpeaker", r, NoChanges)
    <3>1. Fits("error", l) /\ Known(r, "error", l)
      BY DEF SpeakerRequest
    <3> QED
      BY <2>2, <3>1 DEF Arrives
  <2>3. ASSUME NEW b \in CreateBodies, Start(r, "emailLookup", SpeakerRequest("createSpeaker", r, b))
        PROVE  Arrives(r)
    <3> DEFINE l == SpeakerRequest("createSpeaker", r, b)
    <3>1. Fits("emailLookup", l) /\ Known(r, "emailLookup", l)
      BY Bodies DEF SpeakerRequest
    <3> QED
      BY <2>3, <3>1 DEF Arrives
  <2> QED
    BY <2>1, <2>2, <2>3
<1>2. CASE UpdateSpeaker(r)
  <2>1. PICK s \in SpeakerNames, b \in {NoChanges} \cup {[email |-> m] : m \in Emails} :
            \/ Start(r, "error", SpeakerRequest("updateSpeaker", s, NoChanges))
            \/ /\ SpeakerIsHere(s)
               /\ \E label \in {"ok", "speakerUser", "failed"} :
                        Start(r, label, SpeakerRequest("updateSpeaker", s, b))
    BY <1>2 DEF UpdateSpeaker
  <2>2. CASE Start(r, "error", SpeakerRequest("updateSpeaker", s, NoChanges))
    <3> DEFINE l == SpeakerRequest("updateSpeaker", s, NoChanges)
    <3>1. Fits("error", l) /\ Known(r, "error", l)
      BY DEF SpeakerRequest
    <3> QED
      BY <2>2, <3>1 DEF Arrives
  <2>3. ASSUME SpeakerIsHere(s), NEW label \in {"ok", "speakerUser", "failed"},
               Start(r, label, SpeakerRequest("updateSpeaker", s, b))
        PROVE  Arrives(r)
    <3> DEFINE l == SpeakerRequest("updateSpeaker", s, b)
    <3>1. IsUserBody(b) /\ DOMAIN b \subseteq {"email"}
      BY Bodies
    <3>2. Fits(label, l) /\ Known(r, label, l)
      BY <2>3, <3>1, SpeakersAreUsers DEF SpeakerRequest
    <3> QED
      BY <2>3, <3>2 DEF Arrives
  <2> QED
    BY <2>1, <2>2, <2>3
<1>3. CASE ChangeSpeakerStatus(r)
  <2>1. PICK s \in SpeakerNames :
            \E label \in Final : Start(r, label, SpeakerRequest("speakerStatus", s, NoChanges))
    BY <1>3 DEF ChangeSpeakerStatus
  <2>2. PICK label \in Final : Start(r, label, SpeakerRequest("speakerStatus", s, NoChanges))
    BY <2>1
  <2> DEFINE l == SpeakerRequest("speakerStatus", s, NoChanges)
  <2>3. Fits(label, l) /\ Known(r, label, l)
    BY DEF SpeakerRequest
  <2> QED
    BY <2>2, <2>3 DEF Arrives
<1>4. CASE UpdatePhoto(r)
  <2>1. PICK s \in SpeakerNames :
            Start(r, IF SpeakerIsHere(s) THEN "photoUpload" ELSE "error",
                  SpeakerRequest("updatePhoto", s, NoChanges))
    BY <1>4 DEF UpdatePhoto
  <2> DEFINE l == SpeakerRequest("updatePhoto", s, NoChanges)
  <2>2. PICK label \in {"error", "photoUpload"} :
            /\ label = IF SpeakerIsHere(s) THEN "photoUpload" ELSE "error"
            /\ label = "photoUpload" => SpeakerIsHere(s)
    OBVIOUS
  <2>3. Fits(label, l) /\ Known(r, label, l)
    BY <2>2, SpeakersAreUsers DEF SpeakerRequest
  <2> QED
    BY <2>1, <2>2, <2>3 DEF Arrives
<1>5. CASE DeletePhoto(r)
  <2>1. PICK s \in SpeakerNames :
            Start(r, IF SpeakerIsHere(s) /\ SpeakerRequest("deletePhoto", s, NoChanges).old # None
                     THEN "photoDelete" ELSE "error",
                  SpeakerRequest("deletePhoto", s, NoChanges))
    BY <1>5 DEF DeletePhoto
  <2> DEFINE l == SpeakerRequest("deletePhoto", s, NoChanges)
  <2>2. PICK label \in {"error", "photoDelete"} :
            /\ label = IF SpeakerIsHere(s) /\ SpeakerRequest("deletePhoto", s, NoChanges).old # None
                       THEN "photoDelete" ELSE "error"
            /\ label = "photoDelete" => SpeakerIsHere(s) /\ l.old # None
    OBVIOUS
  <2>3. Fits(label, l) /\ Known(r, label, l)
    BY <2>2, SpeakersAreUsers DEF SpeakerRequest
  <2> QED
    BY <2>1, <2>2, <2>3 DEF Arrives
<1> QED
  BY <1>1, <1>2, <1>3, <1>4, <1>5 DEF SpeakerArrive

\* So do the requests on payment methods.
LEMMA MethodsArrive ==
  ASSUME DirHere, NEW r \in Requests, MethodArrive(r)
  PROVE  Arrives(r)
<1> USE DEF Fits, Known, Calls, DirOps, CompanyOps, LogoOps, UserOps, TokenOps, PhotoOps,
             PasswordOps, MethodOps, InsertOps, BodyOps, FirmOps, Final, DirLabels, CompanyLabels, AccountLabels,
             SpeakerLabels
<1>1. CASE CreateMethod(r)
  <2>1. PICK label \in {"ok", "failed"} : Start(r, label, [op |-> "createMethod"])
    BY <1>1 DEF CreateMethod
  <2> DEFINE l == [op |-> "createMethod"]
  <2>2. Fits(label, l) /\ Known(r, label, l)
    OBVIOUS
  <2> QED
    BY <2>1, <2>2 DEF Arrives
<1>2. CASE ListMethods(r)
  <2>1. PICK found : Start(r, "ok", [op |-> "listMethods", found |-> found])
    BY <1>2 DEF ListMethods
  <2> DEFINE l == [op |-> "listMethods", found |-> found]
  <2>2. Fits("ok", l) /\ Known(r, "ok", l)
    OBVIOUS
  <2> QED
    BY <2>1, <2>2 DEF Arrives
<1>3. ASSUME NEW op \in MethodOps, NEW k \in Methods, NEW new \in MethodDoc, ReadMethod(r, op, k, new),
             op = "deleteMethod" => new = [methods[k] EXCEPT !.status = "deleted"],
             op # "deleteMethod" => new.status = methods[k].status,
             op = "toggleMethod" => new.enabled = ~methods[k].enabled
      PROVE  Arrives(r)
  <2> DEFINE l == [op |-> op, method |-> k, old |-> methods[k], new |-> new]
  <2>1. Start(r, IF methods[k].status = "active" THEN "methodSave" ELSE "error", l)
    BY <1>3 DEF ReadMethod
  <2>2. PICK label \in {"error", "methodSave"} :
            /\ label = IF methods[k].status = "active" THEN "methodSave" ELSE "error"
            /\ label = "methodSave" => methods[k].status = "active"
    OBVIOUS
  <2>3. methods[k] \in MethodDoc
    BY DEF DirHere, MethodTypeOK
  <2>4. label = "methodSave" => MethodFits(l)
    BY <1>3, <2>2, <2>3 DEF MethodFits, MethodDoc
  <2>5. Fits(label, l) /\ Known(r, label, l)
    BY <1>3, <2>2, <2>4
  <2> QED
    BY <2>1, <2>2, <2>5 DEF Arrives
<1>4. CASE UpdateMethod(r) \/ DeleteMethod(r) \/ ToggleMethod(r)
  <2>0. \A k \in Methods : methods[k] \in MethodDoc
    BY DEF DirHere, MethodTypeOK
  <2>1. CASE UpdateMethod(r)
    <3>1. PICK k \in Methods, owner \in MethodOwners, enabled \in BOOLEAN :
            \/ ReadMethod(r, "updateMethod", k, [methods[k] EXCEPT !.owner = owner])
            \/ ReadMethod(r, "updateMethod", k, [methods[k] EXCEPT !.enabled = enabled])
      BY <2>1 DEF UpdateMethod
    <3>2. /\ [methods[k] EXCEPT !.owner = owner] \in MethodDoc
          /\ [methods[k] EXCEPT !.owner = owner].status = methods[k].status
          /\ [methods[k] EXCEPT !.enabled = enabled] \in MethodDoc
          /\ [methods[k] EXCEPT !.enabled = enabled].status = methods[k].status
      BY <2>0 DEF MethodDoc
    <3> QED
      BY <1>3, <3>1, <3>2
  <2>2. CASE DeleteMethod(r)
    <3>1. PICK k \in Methods :
            ReadMethod(r, "deleteMethod", k, [methods[k] EXCEPT !.status = "deleted"])
      BY <2>2 DEF DeleteMethod
    <3>2. [methods[k] EXCEPT !.status = "deleted"] \in MethodDoc
      BY <2>0 DEF MethodDoc
    <3> QED
      BY <1>3, <3>1, <3>2
  <2>3. CASE ToggleMethod(r)
    <3>1. PICK k \in Methods : ReadMethod(r, "toggleMethod", k, [methods[k] EXCEPT !.enabled = ~@])
      BY <2>3 DEF ToggleMethod
    <3>2. /\ [methods[k] EXCEPT !.enabled = ~@] \in MethodDoc
          /\ [methods[k] EXCEPT !.enabled = ~@].status = methods[k].status
          /\ [methods[k] EXCEPT !.enabled = ~@].enabled = ~methods[k].enabled
      BY <2>0 DEF MethodDoc
    <3> QED
      BY <1>3, <3>1, <3>2
  <2> QED
    BY <1>4, <2>1, <2>2, <2>3
<1> QED
  BY <1>1, <1>2, <1>4 DEF MethodArrive

(***************************************************************************)
(* The calls.                                                               *)
(***************************************************************************)
LEMMA GoesBy ==
  ASSUME DirHere, NEW r \in Requests, InFlight(r), NEW label, Goto(r, label), Edge(r, label),
         label \in Final \cup Calls(local[r].op)
  PROVE  GoesOn(r)
<1>1. Fits(pc[r], local[r])
  BY InFlightFits
<1>2. label \in DirLabels \cup Final
  BY <1>1 DEF Fits, Calls, DirOps, DirLabels, CompanyLabels, AccountLabels, SpeakerLabels,
              CompanyOps, UserOps, MethodOps, TokenOps, PhotoOps, PasswordOps, LogoOps
<1>3. label \in {"companyLookup", "companyInsert"} => pc[r] \in {"companyLookup", "companyInsert"}
  <2>1. pc[r] = "userInsert" => local[r].op \in InsertOps
    BY InFlightFits DEF Fits, Calls, DirOps, CompanyOps, UserOps, MethodOps, TokenOps, PhotoOps,
                        PasswordOps, LogoOps, InsertOps
  <2> QED
    BY <2>1 DEF Edge, AfterInsert, InsertOps
<1>4. Fits(label, local[r])
  BY <1>2, <1>3, GoesToFit
<1> QED
  BY <1>2, <1>4 DEF GoesOn

\* Which call follows another one is among the op's.
LEMMA EdgesAreCalls ==
  ASSUME DirHere, NEW r \in Requests, InFlight(r), NEW label, Edge(r, label)
  PROVE  label \in Final \cup Calls(local[r].op)
<1>1. /\ local[r].op \in DirOps /\ pc[r] \in Calls(local[r].op)
  BY InFlightFits DEF Fits
<1> QED
  BY <1>1 DEF Edge, Calls, DirOps, CompanyOps, UserOps, MethodOps, TokenOps, PhotoOps, PasswordOps,
              LogoOps, Final, AfterInsert, Asked

\* The calls of the requests on companies.
LEMMA CompaniesGoOn ==
  ASSUME DirHere, NEW r \in Requests, CompanyStep(r)
  PROVE  GoesOn(r)
<1> SUFFICES \E label : InFlight(r) /\ Goto(r, label) /\ Edge(r, label)
  BY GoesBy, EdgesAreCalls
<1>1. CASE LookUpCompany(r)
  BY <1>1 DEF LookUpCompany, Edge, InFlight, Final
<1>2. CASE InsertCompany(r)
  BY <1>2 DEF InsertCompany, Ends, Edge, InFlight, Final
<1>3. CASE CheckCompany(r)
  BY <1>3 DEF CheckCompany, Edge, InFlight, Final
<1>4. CASE SetCompany(r)
  BY <1>4 DEF SetCompany, Ends, Edge, InFlight, Final
<1>5. CASE UploadLogo(r)
  BY <1>5 DEF UploadLogo, Edge, InFlight, Final
<1>6. CASE SetLogo(r)
  BY <1>6 DEF SetLogo, Edge, InFlight, Final
<1>7. CASE DeleteLogoFile(r)
  BY <1>7 DEF DeleteLogoFile, Edge, InFlight, Final
<1>8. CASE UnsetLogo(r)
  BY <1>8 DEF UnsetLogo, Edge, InFlight, Final
<1>9. CASE AnswerLogo(r)
  BY <1>9 DEF AnswerLogo, Edge, InFlight, Final
<1> QED
  BY <1>1, <1>2, <1>3, <1>4, <1>5, <1>6, <1>7, <1>8, <1>9 DEF CompanyStep

\* The calls of the requests on users and their passwords.
LEMMA AccountsGoOn ==
  ASSUME DirHere, NEW r \in Requests, AccountStep(r)
  PROVE  GoesOn(r)
<1> SUFFICES \E label : InFlight(r) /\ Goto(r, label) /\ Edge(r, label)
  BY GoesBy, EdgesAreCalls
<1>1. CASE LookUpEmail(r)
  <2>1. InFlight(r) /\ pc[r] = "emailLookup"
    BY <1>1 DEF LookUpEmail, InFlight, Final
  <2>2. GivenEmail(local[r].changes) \in Emails
    <3>1. local[r].op \in InsertOps
      BY <2>1, InFlightFits DEF Fits, Calls, DirOps, CompanyOps, UserOps, MethodOps, TokenOps,
                                PhotoOps, PasswordOps, LogoOps, InsertOps
    <3> QED
      BY <2>1, <3>1, InFlightFits DEF Fits
  <2>3. local[r].changes.email = GivenEmail(local[r].changes)
    BY <2>2, CompaniesAssumption DEF GivenEmail
  <2> QED
    BY <1>1, <2>1, <2>3 DEF LookUpEmail, Edge
<1>2. CASE InsertUser(r)
  BY <1>2 DEF InsertUser, AfterInsert, Edge, InFlight, Final
<1>3. CASE CheckUser(r)
  BY <1>3 DEF CheckUser, Edge, InFlight, Final
<1>4. CASE SetUser(r)
  BY <1>4 DEF SetUser, SetAccount, Edge, InFlight, Final
<1>5. CASE SetVerification(r)
  BY <1>5 DEF SetVerification, SetAccount, Edge, InFlight, Final
<1>6. CASE LoginRegistered(r)
  BY <1>6 DEF LoginRegistered, LoginAnswer, Edge, InFlight, Final
<1>7. CASE NoteLogin(r)
  BY <1>7 DEF NoteLogin, Ends, Edge, InFlight, Final
<1>8. CASE SetToken(r)
  BY <1>8 DEF SetToken, SetAccount, Edge, InFlight, Final
<1>9. CASE ReadReset(r)
  BY <1>9 DEF ReadReset, Edge, InFlight, Final
<1>10. CASE SetPassword(r)
  BY <1>10 DEF SetPassword, SetAccount, Edge, InFlight, Final
<1>11. CASE UnsetToken(r)
  BY <1>11 DEF UnsetToken, SetAccount, Edge, InFlight, Final
<1>12. CASE SetVerified(r)
  BY <1>12 DEF SetVerified, SetAccount, Edge, InFlight, Final
<1> QED
  BY <1>1, <1>2, <1>3, <1>4, <1>5, <1>6, <1>7, <1>8, <1>9, <1>10, <1>11, <1>12 DEF AccountStep

\* The calls of the requests on speakers.
LEMMA SpeakersGoOn ==
  ASSUME DirHere, NEW r \in Requests, SpeakerStep(r)
  PROVE  GoesOn(r)
<1> SUFFICES \E label : InFlight(r) /\ Goto(r, label) /\ Edge(r, label)
  BY GoesBy, EdgesAreCalls
<1>1. CASE InsertSpeaker(r)
  BY <1>1 DEF InsertSpeaker, Ends, Edge, InFlight, Final
<1>2. CASE UpdateSpeakerUser(r)
  BY <1>2 DEF UpdateSpeakerUser, AfterRead, Edge, InFlight, Final
<1>3. CASE UploadPhoto(r)
  BY <1>3 DEF UploadPhoto, Edge, InFlight, Final
<1>4. CASE SetPhoto(r)
  BY <1>4 DEF SetPhoto, SetAccount, Edge, InFlight, Final
<1>5. CASE DeletePhotoFile(r)
  BY <1>5 DEF DeletePhotoFile, Edge, InFlight, Final
<1>6. CASE UnsetPhoto(r)
  BY <1>6 DEF UnsetPhoto, SetAccount, Edge, InFlight, Final
<1>7. CASE AnswerPhoto(r)
  BY <1>7 DEF AnswerPhoto, Edge, InFlight, Final
<1> QED
  BY <1>1, <1>2, <1>3, <1>4, <1>5, <1>6, <1>7 DEF SpeakerStep

\* The save of a method, and the call that is rejected.
LEMMA MethodsGoOn ==
  ASSUME DirHere, NEW r \in Requests, SaveMethod(r) \/ DirectoryCallFails(r)
  PROVE  GoesOn(r)
<1> SUFFICES \E label : InFlight(r) /\ Goto(r, label) /\ Edge(r, label)
  BY GoesBy, EdgesAreCalls
<1>1. CASE SaveMethod(r)
  BY <1>1 DEF SaveMethod, Ends, Edge, InFlight, Final
<1>2. CASE DirectoryCallFails(r)
  BY <1>2 DEF DirectoryCallFails, Fails, Edge
<1> QED
  BY <1>1, <1>2

(***************************************************************************)
(* What a step of a request does to the requests,                           *)
(***************************************************************************)
\* r has moved, as l, knowing what it read or looked up.
Moved(r) ==
    \E label \in DirLabels \cup Final : \E l :
        /\ Went(r, label, l) /\ Fits(label, l)
        /\ \/ pc[r] = "idle" /\ local[r] = NoLocal /\ Known(r, label, l)
           \/ InFlight(r) /\ l = local[r] /\ Edge(r, label)

\* Every request is at a call of its own.
RequestsFit == \A r \in Requests : pc[r] # "idle" => Fits(pc[r], local[r])

\* Who moves still fits, and so do the others.
LEMMA MovesFit ==
  ASSUME DirHere, NEW r \in Requests, Arrives(r) \/ GoesOn(r)
  PROVE  Here(DirLabels)' /\ RequestsFit' /\ Moved(r)
<1>0. Here(DirLabels) /\ RequestsFit
  BY DEF DirHere, RequestsFit
<1>1. ASSUME NEW label \in DirLabels \cup Final, NEW l, Fits(label, l), Went(r, label, l)
      PROVE  RequestsFit'
  <2>1. pc'[r] = label
    BY <1>1 DEF Went
  <2>2. Fits(label, local'[r])
    <3>1. CASE label \notin Final
      BY <1>1, <3>1 DEF Went
    <3>2. CASE label \in Final
      <4>1. /\ DOMAIN local'[r] = DOMAIN l \ {"old", "new"}
            /\ \A f \in DOMAIN l \ {"old", "new"} : local'[r][f] = l[f]
        BY <1>1, <3>2 DEF Went
      <4>2. local'[r].op = l.op
        BY <1>1, <4>1 DEF Fits
      <4>3. l.op \in CompanyOps => local'[r].company = l.company
        BY <1>1, <4>1 DEF Fits
      <4>4. l.op \in MethodOps => local'[r].method = l.method
        BY <1>1, <4>1 DEF Fits
      <4> QED
        BY <1>1, <3>2, <4>1, <4>2, <4>3, <4>4 DEF Fits
    <3> QED
      BY <3>1, <3>2
  <2>3. \A q \in Requests \ {r} : pc'[q] = pc[q] /\ local'[q] = local[q]
    BY <1>1 DEF Went
  <2> QED
    BY <1>0, <2>1, <2>2, <2>3 DEF RequestsFit
<1>2. CASE Arrives(r)
  <2>1. PICK label \in DirLabels \cup Final : \E l :
            Start(r, label, l) /\ Fits(label, l) /\ Known(r, label, l)
    BY <1>2 DEF Arrives
  <2>2. PICK l : Start(r, label, l) /\ Fits(label, l) /\ Known(r, label, l)
    BY <2>1
  <2>3. "op" \in DOMAIN l /\ l.op # "none"
    BY <2>2 DEF Fits, DirOps, CompanyOps, UserOps, MethodOps, TokenOps, PhotoOps, PasswordOps, LogoOps
  <2>4. Here(DirLabels)' /\ Went(r, label, l) /\ pc[r] = "idle" /\ local[r] = NoLocal
    BY <1>0, <2>2, <2>3, LabelsApart, Starts
  <2> QED
    BY <1>1, <2>2, <2>4 DEF Moved
<1>3. CASE GoesOn(r)
  <2>1. PICK label \in DirLabels \cup Final :
            InFlight(r) /\ Goto(r, label) /\ Fits(label, local[r]) /\ Edge(r, label)
    BY <1>3 DEF GoesOn
  <2>2. "op" \in DOMAIN local[r] /\ local[r].op # "none"
    BY <2>1 DEF Fits, DirOps, CompanyOps, UserOps, MethodOps, TokenOps, PhotoOps, PasswordOps, LogoOps
  <2>3. Here(DirLabels)' /\ Went(r, label, local[r])
    BY <1>0, <2>1, <2>2, LabelsApart, Continues DEF Goto
  <2> QED
    BY <1>1, <2>1, <2>3 DEF Moved
<1> QED
  BY <1>2, <1>3

\* What r keeps from one call to the next.
LEMMA GoneOn ==
  ASSUME NEW r \in Requests, Moved(r), InFlight(r)
  PROVE  /\ Edge(r, pc'[r]) /\ local'[r].op = local[r].op
         /\ pc'[r] \notin Final => local'[r] = local[r]
         /\ local[r].op \in CompanyOps \cup {"register"} => local'[r].company = local[r].company
         /\ local[r].op \in UserOps => local'[r].user = local[r].user
         /\ local[r].op \in TokenOps => local'[r].token = local[r].token
         /\ local[r].op \in MethodOps => local'[r].method = local[r].method
         /\ \A f \in DOMAIN local[r] \ {"old", "new"} :
                f \in DOMAIN local'[r] /\ local'[r][f] = local[r][f]
<1>1. PICK label \in DirLabels \cup Final : \E l :
        /\ Went(r, label, l) /\ Fits(label, l)
        /\ InFlight(r) /\ l = local[r] /\ Edge(r, label)
  BY DEF Moved, InFlight
<1>2. Went(r, label, local[r]) /\ Fits(label, local[r]) /\ Edge(r, label)
  BY <1>1
<1> QED
  BY <1>2 DEF Went, Fits

\* What r asks when it arrives.
LEMMA Arrived ==
  ASSUME NEW r \in Requests, Moved(r), ~InFlight(r)
  PROVE  /\ pc[r] = "idle" /\ local[r] = NoLocal
         /\ \E l : /\ Known(r, pc'[r], l) /\ Fits(pc'[r], l) /\ l.op = local'[r].op
                   /\ pc'[r] \notin Final => local'[r] = l
                   /\ l.op \in CompanyOps \cup {"register"} => local'[r].company = l.company
                   /\ l.op \in UserOps => local'[r].user = l.user
                   /\ l.op \in TokenOps => local'[r].token = l.token
                   /\ l.op \in MethodOps => local'[r].method = l.method
<1>1. PICK label \in DirLabels \cup Final : \E l :
        /\ Went(r, label, l) /\ Fits(label, l)
        /\ pc[r] = "idle" /\ local[r] = NoLocal /\ Known(r, label, l)
  BY DEF Moved
<1>2. PICK l : /\ Went(r, label, l) /\ Fits(label, l)
               /\ pc[r] = "idle" /\ local[r] = NoLocal /\ Known(r, label, l)
  BY <1>1
<1> QED
  BY <1>2 DEF Went, Fits

\* The others stay, and who had ended stays so.
LEMMA OthersStay ==
  ASSUME NEW r \in Requests, Moved(r)
  PROVE  /\ \A q \in Requests \ {r} : pc'[q] = pc[q] /\ local'[q] = local[q] /\ before'[q] = before[q]
         /\ pc[r] \notin Final /\ pc'[r] # "idle" /\ MoveOf(r)
         /\ before'[r] = IF pc[r] = "idle" THEN {q \in Requests : pc[q] \in Final} ELSE before[r]
<1>1. PICK label \in DirLabels \cup Final : \E l : Went(r, label, l)
  BY DEF Moved
<1>2. label # "idle"
  BY LabelsApart DEF Final
<1> QED
  BY <1>1, <1>2, WentMoved DEF Went

(***************************************************************************)
(* and to the collections.                                                  *)
(***************************************************************************)
ActsOnCompanies(r) ==
    /\ InsertCompany(r) \/ SetCompany(r) \/ ChangeCompanyStatus(r) \/ SetLogo(r) \/ UnsetLogo(r)
    /\ UNCHANGED <<files, accounts, speakers, methods>>

ActsOnFiles(r) ==
    /\ UploadLogo(r) \/ DeleteLogoFile(r) \/ UploadPhoto(r) \/ DeletePhotoFile(r)
    /\ UNCHANGED <<companies, accounts, speakers, methods>>

ActsOnAccounts(r) ==
    /\ \/ InsertUser(r) \/ SetUser(r) \/ ChangeUserStatus(r) \/ SetVerification(r) \/ SetToken(r)
       \/ SetPassword(r) \/ SetVerified(r) \/ SetPhoto(r)
    /\ UNCHANGED <<companies, files, speakers, methods>>

ActsOnSpeakers(r) ==
    /\ InsertSpeaker(r) \/ UpdateSpeaker(r) \/ ChangeSpeakerStatus(r)
    /\ UNCHANGED <<companies, files, accounts, methods>>

ActsOnMethods(r) ==
    /\ CreateMethod(r) \/ SaveMethod(r)
    /\ UNCHANGED <<companies, files, accounts, speakers>>

\* The calls that write; the others, and those that are rejected, change nothing.
Writes == {"companyInsert", "companySet", "logoUpload", "logoSet", "logoDelete", "logoUnset",
           "userInsert", "userSet", "verificationSet", "tokenSet", "passwordSet", "verifySet",
           "photoUpload", "photoSet", "photoDelete", "speakerInsert", "methodSave"}

\* A step that changes no collection.
Reads(r) ==
    /\ UNCHANGED <<companies, files, accounts, speakers, methods>>
    /\ pc[r] \in Writes => pc'[r] = "failed"

Acts(r) ==
    \/ ActsOnCompanies(r) \/ ActsOnFiles(r) \/ ActsOnAccounts(r) \/ ActsOnSpeakers(r)
    \/ ActsOnMethods(r) \/ Reads(r)

\* The handlers of one request.
Runs(r) ==
    InCompanies(r) \/ InAccounts(r) \/ InSpeakers(r) \/ InMethods(r) \/ DirectoryCallFails(r)

\* Whatever handler runs, its request arrives or goes on.
LEMMA RunsMove ==
  ASSUME NEW r \in Requests, Runs(r), DirHere
  PROVE  (Arrives(r) \/ GoesOn(r)) /\ scope' = scope
<1>1. CASE InCompanies(r)
  BY <1>1, CompaniesArrive, CompaniesGoOn DEF InCompanies
<1>2. CASE InAccounts(r)
  BY <1>2, UsersArrive, AuthsArrive, AccountsGoOn DEF InAccounts, UserArrive, AuthArrive
<1>3. CASE InSpeakers(r)
  BY <1>3, SpeakersArrive, SpeakersGoOn DEF InSpeakers
<1>4. CASE InMethods(r)
  BY <1>4, MethodsArrive, MethodsGoOn DEF InMethods
<1>5. CASE DirectoryCallFails(r)
  BY <1>5, MethodsGoOn DEF DirectoryCallFails
<1> QED
  BY <1>1, <1>2, <1>3, <1>4, <1>5 DEF Runs

\* The handlers of companies write them, or a file, or nothing.
LEMMA CompaniesAct ==
  ASSUME NEW r \in Requests, InCompanies(r)
  PROVE  Acts(r)
<1>0. (CompanyArrive(r) \/ CompanyStep(r)) /\ UNCHANGED <<accounts, speakers, methods>>
  BY DEF InCompanies
<1>1. CASE CreateCompany(r) \/ UpdateCompany(r) \/ UpdateLogo(r) \/ DeleteLogo(r)
  <2>1. pc[r] = "idle" /\ UNCHANGED companyVars
    BY <1>1 DEF CreateCompany, UpdateCompany, UpdateLogo, DeleteLogo, Start
  <2> QED
    BY <1>0, <2>1 DEF Acts, Reads, Writes, companyVars
<1>2. CASE LookUpCompany(r) \/ CheckCompany(r) \/ AnswerLogo(r)
  <2>1. pc[r] \in {"companyLookup", "companyCheck", "logoAnswer"} /\ UNCHANGED companyVars
    BY <1>2 DEF LookUpCompany, CheckCompany, AnswerLogo
  <2> QED
    BY <1>0, <2>1 DEF Acts, Reads, Writes, companyVars
<1>3. CASE InsertCompany(r) \/ SetCompany(r) \/ ChangeCompanyStatus(r) \/ SetLogo(r) \/ UnsetLogo(r)
  <2>1. UNCHANGED files
    BY <1>3 DEF InsertCompany, SetCompany, ChangeCompanyStatus, SetLogo, UnsetLogo
  <2> QED
    BY <1>0, <1>3, <2>1 DEF Acts, ActsOnCompanies
<1>4. CASE UploadLogo(r) \/ DeleteLogoFile(r)
  <2>1. UNCHANGED companies
    BY <1>4 DEF UploadLogo, DeleteLogoFile
  <2> QED
    BY <1>0, <1>4, <2>1 DEF Acts, ActsOnFiles
<1> QED
  BY <1>0, <1>1, <1>2, <1>3, <1>4 DEF CompanyArrive, CompanyStep

\* Writing an account as it is changes nothing.
LEMMA SameAccount ==
  ASSUME AccountTypeOK, NEW r, NEW u, NEW label, SetAccount(r, u, accounts[u], label)
  PROVE  UNCHANGED accounts
BY DEF SetAccount, AccountTypeOK

\* The handlers of users write them, or nothing.
LEMMA AccountsAct ==
  ASSUME NEW r \in Requests, InAccounts(r), AccountTypeOK
  PROVE  Acts(r)
<1>0. UNCHANGED <<speakers, methods>>
  BY DEF InAccounts
<1>1. CASE \/ CreateUser(r) \/ UpdateUser(r) \/ Register(r) \/ Login(r) \/ Refresh(r)
           \/ ChangePassword(r) \/ ForgotPassword(r) \/ ResetPassword(r) \/ VerifyEmail(r)
  <2>1. pc[r] = "idle" /\ UNCHANGED accountVars
    BY <1>1 DEF CreateUser, UpdateUser, Register, Login, Refresh, ChangePassword, ForgotPassword,
                ResetPassword, VerifyEmail, Start
  <2> QED
    BY <1>0, <2>1 DEF Acts, Reads, Writes, accountVars
<1>2. CASE \/ LookUpEmail(r) \/ CheckUser(r) \/ LoginRegistered(r) \/ NoteLogin(r)
           \/ ReadReset(r)
  <2>1. /\ pc[r] \in {"emailLookup", "userCheck", "login", "lastLogin", "resetRead"}
        /\ UNCHANGED accountVars
    BY <1>2 DEF LookUpEmail, CheckUser, LoginRegistered, NoteLogin, ReadReset
  <2> QED
    BY <1>0, <2>1 DEF Acts, Reads, Writes, accountVars
<1>3. CASE UnsetToken(r)
  <2>1. pc[r] = "tokenUnset" /\ UNCHANGED companyVars /\ UNCHANGED accounts
    BY <1>3, SameAccount DEF UnsetToken
  <2> QED
    BY <1>0, <2>1 DEF Acts, Reads, Writes, companyVars
<1>4. CASE \/ InsertUser(r) \/ SetUser(r) \/ ChangeUserStatus(r) \/ SetVerification(r) \/ SetToken(r)
           \/ SetPassword(r) \/ SetVerified(r)
  <2>1. UNCHANGED companyVars
    BY <1>4 DEF InsertUser, SetUser, ChangeUserStatus, SetVerification, SetToken, SetPassword,
                SetVerified
  <2> QED
    BY <1>0, <1>4, <2>1 DEF Acts, ActsOnAccounts, companyVars
<1> QED
  BY <1>1, <1>2, <1>3, <1>4 DEF InAccounts, UserArrive, AuthArrive, AccountStep

\* The handlers of speakers write them, their users, a file, or nothing.
LEMMA SpeakersAct ==
  ASSUME NEW r \in Requests, InSpeakers(r), AccountTypeOK
  PROVE  Acts(r)
<1>0. UNCHANGED methods /\ (SpeakerArrive(r) \/ SpeakerStep(r))
  BY DEF InSpeakers
<1>1. CASE CreateSpeakerWithUser(r) \/ UpdatePhoto(r) \/ DeletePhoto(r)
  <2>1. pc[r] = "idle" /\ UNCHANGED <<accountVars, speakers>>
    BY <1>1 DEF CreateSpeakerWithUser, UpdatePhoto, DeletePhoto, Start
  <2> QED
    BY <1>0, <2>1 DEF Acts, Reads, Writes, accountVars
<1>2. CASE UpdateSpeakerUser(r) \/ AnswerPhoto(r)
  <2>1. pc[r] \in {"speakerUser", "photoAnswer"} /\ UNCHANGED <<accountVars, speakers>>
    BY <1>2 DEF UpdateSpeakerUser, AnswerPhoto
  <2> QED
    BY <1>0, <2>1 DEF Acts, Reads, Writes, accountVars
<1>3. CASE UnsetPhoto(r)
  <2>1. pc[r] = "photoUnset" /\ UNCHANGED <<companyVars, speakers>> /\ UNCHANGED accounts
    BY <1>3, SameAccount DEF UnsetPhoto
  <2> QED
    BY <1>0, <2>1 DEF Acts, Reads, Writes, companyVars
<1>4. CASE InsertSpeaker(r) \/ UpdateSpeaker(r) \/ ChangeSpeakerStatus(r)
  <2>1. UNCHANGED accountVars
    BY <1>4 DEF InsertSpeaker, UpdateSpeaker, ChangeSpeakerStatus
  <2> QED
    BY <1>0, <1>4, <2>1 DEF Acts, ActsOnSpeakers, accountVars
<1>5. CASE UploadPhoto(r) \/ DeletePhotoFile(r)
  <2>1. UNCHANGED <<accounts, companies, speakers>>
    BY <1>5 DEF UploadPhoto, DeletePhotoFile
  <2> QED
    BY <1>0, <1>5, <2>1 DEF Acts, ActsOnFiles
<1>6. CASE SetPhoto(r)
  <2>1. UNCHANGED <<companyVars, speakers>>
    BY <1>6 DEF SetPhoto
  <2> QED
    BY <1>0, <1>6, <2>1 DEF Acts, ActsOnAccounts, companyVars
<1> QED
  BY <1>0, <1>1, <1>2, <1>3, <1>4, <1>5, <1>6 DEF SpeakerArrive, SpeakerStep

\* Whatever handler runs, it writes one collection, or nothing.
LEMMA RunsAct ==
  ASSUME NEW r \in Requests, Runs(r), DirHere
  PROVE  Acts(r)
<1>0. AccountTypeOK
  BY DEF DirHere
<1>1. CASE InCompanies(r)
  BY <1>1, CompaniesAct
<1>2. CASE InAccounts(r)
  BY <1>0, <1>2, AccountsAct
<1>3. CASE InSpeakers(r)
  BY <1>0, <1>3, SpeakersAct
<1>4. CASE InMethods(r)
  <2>1. UNCHANGED <<accounts, companies, files, speakers>>
    BY <1>4 DEF InMethods, peopleVars, accountVars
  <2>2. CASE UpdateMethod(r) \/ DeleteMethod(r) \/ ToggleMethod(r) \/ ListMethods(r)
    <3>1. pc[r] = "idle" /\ UNCHANGED methods
      BY <2>2 DEF UpdateMethod, DeleteMethod, ToggleMethod, ListMethods, ReadMethod, Start
    <3> QED
      BY <2>1, <3>1 DEF Acts, Reads, Writes
  <2>3. CASE CreateMethod(r) \/ SaveMethod(r)
    BY <2>1, <2>3 DEF Acts, ActsOnMethods
  <2> QED
    BY <1>4, <2>2, <2>3 DEF InMethods, MethodArrive
<1>5. CASE DirectoryCallFails(r)
  <2>1. UNCHANGED <<accounts, companies, files, speakers, methods>>
    BY <1>5 DEF DirectoryCallFails, peopleVars, accountVars
  <2>2. pc'[r] = "failed"
    <3>1. pc \in [Requests -> DirLabels \cup Final \cup {"idle"}]
      BY DEF DirHere, Here
    <3> QED
      BY <1>5, <3>1 DEF DirectoryCallFails, Fails, Goto, Continue
  <2> QED
    BY <2>1, <2>2 DEF Acts, Reads
<1> QED
  BY <1>1, <1>2, <1>3, <1>4, <1>5 DEF Runs

\* Any step is one request's, or a token expires, or nothing happens.
Expires(u) == TokenExpires(u) /\ UNCHANGED <<speakers, methods, scope>>

\* A step is of one of those.
LEMMA NextRuns ==
  ASSUME [DirectoryNext]_directoryVars
  PROVE  (\E r \in Requests : Runs(r)) \/ (\E u \in AccountNames : Expires(u))
         \/ UNCHANGED directoryVars
BY DEF DirectoryNext, Runs, Expires, DirectoryQuiet

\* Which requests make a call.
CallersAre(r) ==
    /\ pc[r] \in {"companyLookup", "companyInsert"} => local[r].op \in {"createCompany", "register"}
    /\ pc[r] \in {"companyCheck", "companySet"} => Asked(r, "updateCompany")
    /\ pc[r] \in {"logoUpload", "logoSet"} => Asked(r, "updateLogo")
    /\ pc[r] \in {"logoDelete", "logoAnswer"} => local[r].op \in LogoOps
    /\ pc[r] = "logoUnset" => Asked(r, "deleteLogo")
    /\ pc[r] \in {"emailLookup", "userInsert"} =>
            local[r].op \in {"createUser", "register", "createSpeaker"}
    /\ pc[r] \in {"userCheck", "userSet"} => local[r].op \in {"updateUser", "updateSpeaker"}
    /\ pc[r] \in {"verificationSet", "login"} => Asked(r, "register")
    /\ pc[r] = "lastLogin" => local[r].op \in {"register", "login"}
    /\ pc[r] = "tokenSet" => Asked(r, "forgot")
    /\ pc[r] \in {"resetRead", "tokenUnset"} => Asked(r, "reset")
    /\ pc[r] = "passwordSet" => local[r].op \in PasswordOps
    /\ pc[r] = "verifySet" => Asked(r, "verify")
    /\ pc[r] = "speakerInsert" => Asked(r, "createSpeaker")
    /\ pc[r] = "speakerUser" => Asked(r, "updateSpeaker")
    /\ pc[r] \in {"photoUpload", "photoSet"} => Asked(r, "updatePhoto")
    /\ pc[r] \in {"photoDelete", "photoAnswer"} => local[r].op \in PhotoOps
    /\ pc[r] = "photoUnset" => Asked(r, "deletePhoto")
    /\ pc[r] = "methodSave" => local[r].op \in MethodOps

\* The calls tell what was asked.
LEMMA Callers ==
  ASSUME RequestsFit, NEW r \in Requests
  PROVE  CallersAre(r)
<1>1. CASE pc[r] \in Final \cup {"idle"}
  BY <1>1 DEF CallersAre, Final
<1>2. CASE pc[r] \notin Final \cup {"idle"}
  <2>1. pc[r] \in Calls(local[r].op) /\ local[r].op \in DirOps
    BY <1>2 DEF RequestsFit, Fits
  <2> QED
    BY <2>1 DEF CallersAre, Calls, DirOps, CompanyOps, UserOps, MethodOps, TokenOps, PhotoOps,
                PasswordOps, LogoOps, Asked
<1> QED
  BY <1>1, <1>2

(***************************************************************************)
(* The types.                                                               *)
(***************************************************************************)
\* What a body leaves of a company.
LEMMA CompanyWith ==
  ASSUME NEW doc \in CompanyDoc, NEW b, IsCompanyBody(b)
  PROVE  LET new == With(doc, b)
         IN  /\ new \in CompanyDoc /\ new.stored = doc.stored /\ new.status = doc.status
             /\ new.email = IF "email" \in DOMAIN b THEN GivenEmail(b) ELSE doc.email
             /\ new.logo = IF "logo" \in DOMAIN b THEN b.logo ELSE doc.logo
<1>1. DOMAIN doc = {"stored", "email", "status", "logo"} /\ DOMAIN b \subseteq {"email", "logo"}
  BY DEF CompanyDoc, IsCompanyBody
<1>2. With(doc, b) =
        [stored |-> doc.stored, email |-> IF "email" \in DOMAIN b THEN b.email ELSE doc.email,
         status |-> doc.status, logo |-> IF "logo" \in DOMAIN b THEN b.logo ELSE doc.logo]
  BY <1>1 DEF With
<1>3. With(doc, b) \in CompanyDoc
  BY <1>2 DEF CompanyDoc, IsCompanyBody
<1> QED
  BY <1>2, <1>3 DEF GivenEmail

\* What a body leaves of an account.
LEMMA AccountWith ==
  ASSUME NEW doc \in AccountDoc, NEW b, IsUserBody(b)
  PROVE  LET new == With(doc, b)
         IN  /\ new \in AccountDoc /\ new.status = doc.status /\ new.password = doc.password
             /\ new.email = IF "email" \in DOMAIN b THEN GivenEmail(b) ELSE doc.email
             /\ new.companyIds = IF "companyIds" \in DOMAIN b THEN b.companyIds ELSE doc.companyIds
             /\ new.reset = IF "reset" \in DOMAIN b THEN b.reset ELSE doc.reset
             /\ new.avatar = IF "avatar" \in DOMAIN b THEN b.avatar ELSE doc.avatar
<1> DEFINE Given(f, old) == IF f \in DOMAIN b THEN b[f] ELSE old
<1>1. /\ DOMAIN doc = {"email", "status", "companyIds", "password", "reset", "expired",
                       "verification", "verified", "avatar"}
      /\ DOMAIN b \subseteq {"email", "companyIds", "avatar", "reset", "expired", "verification"}
  BY DEF AccountDoc, IsUserBody
<1>2. With(doc, b) =
        [email |-> Given("email", doc.email), status |-> doc.status,
         companyIds |-> Given("companyIds", doc.companyIds), password |-> doc.password,
         reset |-> Given("reset", doc.reset), expired |-> Given("expired", doc.expired),
         verification |-> Given("verification", doc.verification), verified |-> doc.verified,
         avatar |-> Given("avatar", doc.avatar)]
  BY <1>1 DEF With
<1>3. /\ Given("email", doc.email) \in Emails \cup {None}
      /\ Given("companyIds", doc.companyIds) \in SUBSET CompanyNames
      /\ Given("reset", doc.reset) \in Requests \cup {None}
      /\ Given("expired", doc.expired) \in BOOLEAN
      /\ Given("verification", doc.verification) \in Requests \cup {None}
      /\ Given("avatar", doc.avatar) \in Requests \cup EarlierFiles \cup {None}
  BY DEF IsUserBody, AccountDoc
<1>4. With(doc, b) \in AccountDoc
  BY <1>2, <1>3 DEF AccountDoc
<1> QED
  BY <1>2, <1>4 DEF GivenEmail

\* What InsertCompany and SetCompany write is given by the request.
LEMMA CompanyBodiesFit ==
  ASSUME DirHere, NEW r \in Requests, pc[r] \in {"companyInsert", "companySet"}
  PROVE  /\ InFlight(r)
         /\ pc[r] = "companyInsert" =>
                /\ IsCompanyBody(CompanyGiven(r))
                /\ (IF Asked(r, "register") THEN "firm" ELSE "changes") \in DOMAIN local[r]
         /\ pc[r] = "companySet" =>
                /\ Asked(r, "updateCompany") /\ IsCompanyBody(local[r].changes)
                /\ local[r].company \in CompanyNames /\ "changes" \in DOMAIN local[r]
<1>1. InFlight(r) /\ CallersAre(r)
  BY Callers DEF InFlight, Final, DirHere, RequestsFit
<1> QED
  BY <1>1, InFlightFits DEF CallersAre, Fits, FirmOps, CompanyGiven, Asked, CompanyOps

\* So is what InsertUser and SetUser write.
LEMMA UserBodiesFit ==
  ASSUME DirHere, NEW r \in Requests, pc[r] \in {"userInsert", "userSet"}
  PROVE  /\ InFlight(r) /\ IsUserBody(local[r].changes) /\ "changes" \in DOMAIN local[r]
         /\ pc[r] = "userInsert" => /\ GivenEmail(local[r].changes) \in Emails
                                    /\ DOMAIN local[r].changes \subseteq FirstFields
         /\ pc[r] = "userSet" =>
                /\ local[r].user \in AccountNames
                /\ \/ Asked(r, "updateUser")
                   \/ Asked(r, "updateSpeaker") /\ DOMAIN local[r].changes \subseteq {"email"}
<1>1. InFlight(r) /\ CallersAre(r)
  BY Callers DEF InFlight, Final, DirHere, RequestsFit
<1> QED
  BY <1>1, InFlightFits DEF CallersAre, Fits, BodyOps, InsertOps, Asked, UserOps

\* What is written of a company is one.
LEMMA CompaniesTyped ==
  ASSUME DirHere, NEW r \in Requests, Acts(r)
  PROVE  CompanyTypeOK'
<1>0. CompanyTypeOK /\ RequestsFit /\ CallersAre(r)
  BY Callers DEF DirHere, RequestsFit
<1>1. CASE InsertCompany(r)
  <2>1. IsCompanyBody(CompanyGiven(r))
    BY <1>1, CompanyBodiesFit DEF InsertCompany
  <2>2. [NoCompany EXCEPT !.stored = TRUE] \in CompanyDoc
    BY DEF CompanyDoc, NoCompany, EntityStatus
  <2>3. With([NoCompany EXCEPT !.stored = TRUE], CompanyGiven(r)) \in CompanyDoc
    BY <2>1, <2>2, CompanyWith
  <2> QED
    BY <1>0, <1>1, <2>3 DEF InsertCompany, CompanyTypeOK
<1>2. CASE SetCompany(r)
  <2>1. PICK c \in CompanyNames : c = local[r].company /\ IsCompanyBody(local[r].changes)
    BY <1>2, CompanyBodiesFit DEF SetCompany
  <2>2. companies[c] \in CompanyDoc
    BY <1>0 DEF CompanyTypeOK
  <2>3. With(companies[c], local[r].changes) \in CompanyDoc
    BY <2>1, <2>2, CompanyWith
  <2>4. companies' = companies \/
            companies' = [companies EXCEPT ![c] = With(companies[c], local[r].changes)]
    BY <1>0, <1>2, <2>1 DEF SetCompany, CompanyTypeOK
  <2> QED
    BY <1>0, <2>3, <2>4 DEF CompanyTypeOK
<1>3. CASE ChangeCompanyStatus(r)
  <2>1. PICK c \in CompanyNames, s \in EntityStatus :
            companies' \in {companies, [companies EXCEPT ![c].status = s]}
    BY <1>3 DEF ChangeCompanyStatus
  <2> QED
    BY <1>0, <2>1 DEF CompanyTypeOK, CompanyDoc
<1>4. CASE SetLogo(r)
  <2>1. companies' \in {companies, [companies EXCEPT ![local[r].company].logo = r]}
    BY <1>4 DEF SetLogo
  <2> QED
    BY <1>0, <2>1 DEF CompanyTypeOK, CompanyDoc
<1>5. CASE UnsetLogo(r)
  <2>1. companies' \in {companies, [companies EXCEPT ![local[r].company].logo = None]}
    BY <1>5 DEF UnsetLogo
  <2> QED
    BY <1>0, <2>1 DEF CompanyTypeOK, CompanyDoc
<1>6. CASE UNCHANGED companies
  BY <1>0, <1>6 DEF CompanyTypeOK
<1> QED
  BY <1>1, <1>2, <1>3, <1>4, <1>5, <1>6
     DEF Acts, ActsOnCompanies, ActsOnFiles, ActsOnAccounts, ActsOnSpeakers, ActsOnMethods, Reads

\* The account of u becomes doc, or stays.
Becomes(u, doc) == accounts' \in {accounts, [accounts EXCEPT ![u] = doc]}

\* What is written of a user is one.
LEMMA AccountsTyped ==
  ASSUME DirHere, NEW r \in Requests, Acts(r)
  PROVE  AccountTypeOK'
<1>0. AccountTypeOK /\ RequestsFit /\ CallersAre(r)
  BY Callers DEF DirHere, RequestsFit
<1>1. ASSUME NEW u, NEW doc, Becomes(u, doc), u \in AccountNames => doc \in AccountDoc
      PROVE  AccountTypeOK'
  BY <1>0, <1>1 DEF Becomes, AccountTypeOK
<1>2. \A u \in AccountNames : accounts[u] \in AccountDoc
  BY <1>0 DEF AccountTypeOK
<1> DEFINE u == local[r].user
<1>3. CASE InsertUser(r)
  <2>1. IsUserBody(local[r].changes)
    BY <1>3, UserBodiesFit DEF InsertUser
  <2> DEFINE doc == With([NoAccount EXCEPT !.password = r], local[r].changes)
  <2>2. Becomes(r, doc)
    BY <1>3 DEF InsertUser, Becomes
  <2>3. [NoAccount EXCEPT !.password = r] \in AccountDoc
    BY DEF AccountDoc, NoAccount, EntityStatus
  <2>4. doc \in AccountDoc
    BY <2>1, <2>3, AccountWith
  <2> QED
    BY <1>1, <2>2, <2>4
<1>4. CASE SetUser(r)
  <2>1. IsUserBody(local[r].changes)
    BY <1>4, UserBodiesFit DEF SetUser
  <2> DEFINE doc == With(accounts[u], local[r].changes)
  <2>2. Becomes(u, doc)
    BY <1>4 DEF SetUser, SetAccount, Becomes
  <2>3. u \in AccountNames => doc \in AccountDoc
    BY <1>2, <2>1, AccountWith
  <2> QED
    BY <1>1, <2>2, <2>3
<1>5. CASE ChangeUserStatus(r)
  <2>1. PICK v \in AccountNames, s \in EntityStatus :
            Becomes(v, [accounts[v] EXCEPT !.status = s])
    BY <1>5 DEF ChangeUserStatus, StatusSet, Becomes
  <2>2. [accounts[v] EXCEPT !.status = s] \in AccountDoc
    BY <1>2 DEF AccountDoc
  <2> QED
    BY <1>1, <2>1, <2>2
<1>6. CASE SetVerification(r)
  <2>1. Becomes(r, [accounts[r] EXCEPT !.verification = r])
    BY <1>6 DEF SetVerification, SetAccount, Becomes
  <2>2. r \in AccountNames => [accounts[r] EXCEPT !.verification = r] \in AccountDoc
    BY <1>2 DEF AccountDoc
  <2> QED
    BY <1>1, <2>1, <2>2
<1>7. CASE SetToken(r)
  <2> DEFINE doc == [accounts[u] EXCEPT !.reset = r, !.expired = FALSE]
  <2>1. Becomes(u, doc)
    BY <1>7 DEF SetToken, SetAccount, Becomes
  <2>2. u \in AccountNames => doc \in AccountDoc
    BY <1>2 DEF AccountDoc
  <2> QED
    BY <1>1, <2>1, <2>2
<1>8. CASE SetPassword(r)
  <2> DEFINE doc == [accounts[u] EXCEPT !.password = r]
  <2>1. Becomes(u, doc)
    BY <1>8 DEF SetPassword, SetAccount, PasswordGiven, Becomes
  <2>2. u \in AccountNames => doc \in AccountDoc
    BY <1>2 DEF AccountDoc
  <2> QED
    BY <1>1, <2>1, <2>2
<1>9. CASE SetVerified(r)
  <2> DEFINE doc == [accounts[u] EXCEPT !.verified = TRUE, !.verification = None]
  <2>1. Becomes(u, doc)
    BY <1>9 DEF SetVerified, SetAccount, Becomes
  <2>2. u \in AccountNames => doc \in AccountDoc
    BY <1>2 DEF AccountDoc
  <2> QED
    BY <1>1, <2>1, <2>2
<1>10. CASE SetPhoto(r)
  <2> DEFINE doc == [accounts[u] EXCEPT !.avatar = r]
  <2>1. Becomes(u, doc)
    BY <1>10 DEF SetPhoto, SetAccount, Becomes
  <2>2. u \in AccountNames => doc \in AccountDoc
    BY <1>2 DEF AccountDoc
  <2> QED
    BY <1>1, <2>1, <2>2
<1>11. CASE UNCHANGED accounts
  BY <1>0, <1>11 DEF AccountTypeOK
<1> QED
  BY <1>3, <1>4, <1>5, <1>6, <1>7, <1>8, <1>9, <1>10, <1>11
     DEF Acts, ActsOnCompanies, ActsOnFiles, ActsOnAccounts, ActsOnSpeakers, ActsOnMethods, Reads

\* So are the files, the speakers and the methods.
LEMMA OthersTyped ==
  ASSUME DirHere, NEW r \in Requests, Acts(r)
  PROVE  StorageTypeOK' /\ SpeakerTypeOK' /\ MethodTypeOK'
<1>0. StorageTypeOK /\ SpeakerTypeOK /\ MethodTypeOK /\ RequestsFit /\ CallersAre(r)
  BY Callers DEF DirHere, RequestsFit
<1>1. StorageTypeOK'
  <2>1. CASE ActsOnFiles(r)
    BY <1>0, <2>1 DEF ActsOnFiles, UploadLogo, UploadPhoto, Upload, DeleteLogoFile, DeletePhotoFile,
                      DeleteFile, StorageTypeOK
  <2>2. CASE UNCHANGED files
    BY <1>0, <2>2 DEF StorageTypeOK
  <2> QED
    BY <2>1, <2>2 DEF Acts, ActsOnCompanies, ActsOnAccounts, ActsOnSpeakers, ActsOnMethods, Reads
<1>2. SpeakerTypeOK'
  <2>1. CASE InsertSpeaker(r)
    BY <1>0, <2>1 DEF InsertSpeaker, SpeakerTypeOK, SpeakerDoc, NoSpeaker, EntityStatus, AccountNames
  <2>2. CASE UpdateSpeaker(r)
    <3>1. PICK s \in SpeakerNames : speakers' \in {speakers, [speakers EXCEPT ![s].edited = TRUE]}
      BY <2>2 DEF UpdateSpeaker
    <3> QED
      BY <1>0, <3>1 DEF SpeakerTypeOK, SpeakerDoc
  <2>3. CASE ChangeSpeakerStatus(r)
    <3>1. PICK s \in SpeakerNames, status \in EntityStatus :
            speakers' \in {speakers, [speakers EXCEPT ![s].status = status]}
      BY <2>3 DEF ChangeSpeakerStatus
    <3> QED
      BY <1>0, <3>1 DEF SpeakerTypeOK, SpeakerDoc
  <2>4. CASE UNCHANGED speakers
    BY <1>0, <2>4 DEF SpeakerTypeOK
  <2> QED
    BY <2>1, <2>2, <2>3, <2>4
       DEF Acts, ActsOnCompanies, ActsOnFiles, ActsOnAccounts, ActsOnSpeakers, ActsOnMethods, Reads
<1>3. MethodTypeOK'
  <2>1. CASE CreateMethod(r)
    <3>1. PICK owner \in MethodOwners \cup {None}, enabled \in BOOLEAN :
            methods' = [methods EXCEPT ![r] = [status |-> "active", enabled |-> enabled, owner |-> owner]]
      BY <2>1 DEF CreateMethod
    <3> QED
      BY <1>0, <3>1 DEF MethodTypeOK, MethodDoc
  <2>2. CASE SaveMethod(r)
    <3> DEFINE l == local[r]
    <3>1. l.method \in Methods /\ MethodFits(l)
      BY <1>0, <2>2, InFlightFits DEF SaveMethod, CallersAre, InFlight, Final, Fits
    <3>2. methods[l.method] \in MethodDoc /\ l.old \in MethodDoc /\ l.new \in MethodDoc
      BY <1>0, <3>1 DEF MethodTypeOK, MethodFits
    <3>3. MethodSaved(methods[l.method], l.old, l.new) \in MethodDoc
      BY <3>2 DEF MethodSaved, MethodDoc
    <3>4. methods' = [methods EXCEPT ![l.method] = MethodSaved(methods[l.method], l.old, l.new)]
      BY <1>0, <2>2, <3>1 DEF SaveMethod, MethodTypeOK
    <3> QED
      BY <1>0, <3>3, <3>4 DEF MethodTypeOK
  <2>3. CASE UNCHANGED methods
    BY <1>0, <2>3 DEF MethodTypeOK
  <2> QED
    BY <2>1, <2>2, <2>3
       DEF Acts, ActsOnCompanies, ActsOnFiles, ActsOnAccounts, ActsOnSpeakers, ActsOnMethods, Reads
<1> QED
  BY <1>1, <1>2, <1>3

\* Whoever runs, moves, acts, and leaves what is here.
LEMMA RunsKeepHere ==
  ASSUME NEW r \in Requests, Runs(r), DirHere
  PROVE  DirHere' /\ Moved(r) /\ Acts(r)
<1>1. Here(DirLabels)' /\ RequestsFit' /\ Moved(r) /\ Acts(r) /\ scope' = scope
  BY RunsMove, MovesFit, RunsAct
<1>2. CompanyTypeOK' /\ AccountTypeOK' /\ StorageTypeOK' /\ SpeakerTypeOK' /\ MethodTypeOK'
  BY <1>1, CompaniesTyped, AccountsTyped, OthersTyped
<1> QED
  BY <1>1, <1>2 DEF DirHere, RequestsFit

(***************************************************************************)
(* What a step of r does to one account, and to one company.                *)
(***************************************************************************)
\* A body that r has names a picture.
LEMMA NamedHere ==
  ASSUME NEW r, NEW body \in {"changes", "firm"}, body \in DOMAIN local[r],
         NEW field \in {"logo", "avatar"}, field \in DOMAIN local[r][body]
  PROVE  NamedBy(r, local[r][body][field])
BY DEF NamedBy

\* r updates u, and gives the field f of it.
Gives(r, u, f) ==
    /\ SetUser(r) /\ u = local[r].user
    /\ Asked(r, "updateUser") /\ "changes" \in DOMAIN local[r] /\ f \in DOMAIN local[r].changes

AccountInserted(r, u) ==
    /\ InsertUser(r) /\ u = r
    /\ accounts'[u].email = GivenEmail(local[r].changes) /\ accounts'[u].email # None
    /\ accounts'[u].companyIds = Linked(local[r].changes)
    /\ accounts'[u].reset = None /\ accounts'[u].password = r /\ accounts'[u].status = "active"
    /\ accounts'[u].avatar = None \/ NamedBy(r, accounts'[u].avatar)

AccountEdited(r, u) ==
    /\ accounts[u].email # None /\ accounts'[u].email # None
    /\ accounts'[u].companyIds = accounts[u].companyIds \/ Gives(r, u, "companyIds")
    /\ \/ accounts'[u].email = accounts[u].email
       \/ SetUser(r) /\ u = local[r].user /\ accounts'[u].email = GivenEmail(local[r].changes)
    /\ \/ accounts'[u].status = accounts[u].status
       \/ ChangeUserStatus(r) /\ local'[r].op = "userStatus" /\ accounts'[u].status = local'[r].status
    /\ \/ accounts'[u].reset = accounts[u].reset
       \/ SetToken(r) /\ u = local[r].user /\ accounts'[u].reset = r
       \/ Gives(r, u, "reset") /\ accounts'[u].reset = local[r].changes.reset
    /\ \/ accounts'[u].password = accounts[u].password
       \/ SetPassword(r) /\ u = local[r].user /\ accounts'[u].password = r
    /\ \/ accounts'[u].avatar = accounts[u].avatar
       \/ SetPhoto(r) /\ u = local[r].user /\ accounts'[u].avatar = r
       \/ Gives(r, u, "avatar") /\ NamedBy(r, accounts'[u].avatar)

AccountsDo(r) ==
    \A u \in AccountNames :
        accounts'[u] = accounts[u] \/ AccountInserted(r, u) \/ AccountEdited(r, u)

\* A step of r inserts an account, edits some, or leaves them.
LEMMA AccountsChange ==
  ASSUME DirHere, NEW r \in Requests, Acts(r)
  PROVE  AccountsDo(r)
<1>0. AccountTypeOK /\ RequestsFit /\ CallersAre(r)
  BY Callers DEF DirHere, RequestsFit
<1>1. ASSUME NEW v, NEW doc, AccountIsHere(v), accounts' = [accounts EXCEPT ![v] = doc],
             doc.email # None, doc.status = accounts[v].status,
             doc.companyIds = accounts[v].companyIds \/ Gives(r, v, "companyIds"),
             \/ doc.email = accounts[v].email
             \/ SetUser(r) /\ v = local[r].user /\ doc.email = GivenEmail(local[r].changes),
             \/ doc.reset = accounts[v].reset
             \/ SetToken(r) /\ v = local[r].user /\ doc.reset = r
             \/ Gives(r, v, "reset") /\ doc.reset = local[r].changes.reset,
             \/ doc.password = accounts[v].password
             \/ SetPassword(r) /\ v = local[r].user /\ doc.password = r,
             \/ doc.avatar = accounts[v].avatar
             \/ SetPhoto(r) /\ v = local[r].user /\ doc.avatar = r
             \/ Gives(r, v, "avatar") /\ NamedBy(r, doc.avatar)
      PROVE  AccountsDo(r)
  <2> SUFFICES ASSUME NEW u \in AccountNames
               PROVE  accounts'[u] = accounts[u] \/ AccountEdited(r, u)
    BY DEF AccountsDo
  <2>1. CASE u # v
    BY <1>0, <1>1, <2>1 DEF AccountTypeOK
  <2>2. CASE u = v
    <3>1. accounts'[u] = doc
      BY <1>0, <1>1, <2>2 DEF AccountTypeOK
    <3> QED
      BY <1>1, <2>2, <3>1 DEF AccountEdited, AccountIsHere
  <2> QED
    BY <2>1, <2>2
<1>2. \A u \in AccountNames : accounts[u] \in AccountDoc
  BY <1>0 DEF AccountTypeOK
<1>3. UNCHANGED accounts => AccountsDo(r)
  BY DEF AccountsDo
<1> DEFINE v == local[r].user
<1>4. CASE InsertUser(r)
  <2> DEFINE b == local[r].changes
             old == [NoAccount EXCEPT !.password = r]
             doc == With(old, b)
  <2>1. /\ IsUserBody(b) /\ "changes" \in DOMAIN local[r]
        /\ GivenEmail(b) \in Emails /\ DOMAIN b \subseteq FirstFields
    BY <1>4, UserBodiesFit DEF InsertUser
  <2>2. accounts' = [accounts EXCEPT ![r] = doc]
    BY <1>4 DEF InsertUser
  <2>3. AccountInserted(r, r)
    <3>1. old \in AccountDoc /\ old.reset = None /\ old.avatar = None /\ old.companyIds = {}
          /\ old.password = r /\ old.status = "active"
      BY DEF AccountDoc, NoAccount, EntityStatus
    <3>2. /\ doc.status = "active" /\ doc.password = r /\ doc.email = GivenEmail(b)
          /\ doc.companyIds = Linked(b) /\ doc.reset = None
          /\ doc.avatar = IF "avatar" \in DOMAIN b THEN b.avatar ELSE None
      <4>1. "reset" \notin DOMAIN b /\ "email" \in DOMAIN b
        BY <2>1, CompaniesAssumption DEF FirstFields, GivenEmail
      <4> HIDE DEF old, b
      <4>2. /\ doc.status = old.status /\ doc.password = old.password
            /\ doc.email = IF "email" \in DOMAIN b THEN GivenEmail(b) ELSE old.email
            /\ doc.companyIds = IF "companyIds" \in DOMAIN b THEN b.companyIds ELSE old.companyIds
            /\ doc.reset = IF "reset" \in DOMAIN b THEN b.reset ELSE old.reset
            /\ doc.avatar = IF "avatar" \in DOMAIN b THEN b.avatar ELSE old.avatar
        BY <2>1, <3>1, AccountWith
      <4> QED
        BY <3>1, <4>1, <4>2 DEF Linked
    <3>3. "avatar" \in DOMAIN b => NamedBy(r, b.avatar)
      BY <2>1, NamedHere
    <3>4. accounts'[r] = doc
      BY <1>0, <2>2 DEF AccountTypeOK, AccountNames
    <3> QED
      BY <1>4, <2>1, <3>2, <3>3, <3>4, CompaniesAssumption DEF AccountInserted
  <2>4. \A u \in AccountNames \ {r} : accounts'[u] = accounts[u]
    BY <1>0, <2>2 DEF AccountTypeOK
  <2> QED
    BY <2>3, <2>4 DEF AccountsDo
<1>5. CASE SetUser(r)
  <2> DEFINE b == local[r].changes
             doc == With(accounts[v], b)
  <2>1. /\ IsUserBody(b) /\ v \in AccountNames /\ "changes" \in DOMAIN local[r]
        /\ Asked(r, "updateUser") \/ DOMAIN b \subseteq {"email"}
    BY <1>5, UserBodiesFit DEF SetUser
  <2>2. UNCHANGED accounts \/ (AccountIsHere(v) /\ accounts' = [accounts EXCEPT ![v] = doc])
    BY <1>5 DEF SetUser, SetAccount
  <2>3. /\ doc.status = accounts[v].status /\ doc.password = accounts[v].password
        /\ doc.email = IF "email" \in DOMAIN b THEN GivenEmail(b) ELSE accounts[v].email
        /\ doc.companyIds = IF "companyIds" \in DOMAIN b THEN b.companyIds ELSE accounts[v].companyIds
        /\ doc.reset = IF "reset" \in DOMAIN b THEN b.reset ELSE accounts[v].reset
        /\ doc.avatar = IF "avatar" \in DOMAIN b THEN b.avatar ELSE accounts[v].avatar
    BY <1>2, <2>1, AccountWith
  <2>4. "email" \in DOMAIN b => GivenEmail(b) # None
    BY <2>1, CompaniesAssumption DEF IsUserBody, GivenEmail
  <2>5. \A f \in {"companyIds", "reset", "avatar"} : f \in DOMAIN b => Gives(r, v, f)
    BY <1>5, <2>1 DEF Gives
  <2>6. "avatar" \in DOMAIN b => NamedBy(r, b.avatar)
    BY <2>1, NamedHere
  <2>7. CASE UNCHANGED accounts
    BY <1>3, <2>7
  <2>8. CASE AccountIsHere(v) /\ accounts' = [accounts EXCEPT ![v] = doc]
    <3>1. accounts[v].email # None
      BY <2>8 DEF AccountIsHere
    <3>2. /\ doc.email # None
          /\ doc.email = accounts[v].email \/ (SetUser(r) /\ v = local[r].user /\ doc.email = GivenEmail(b))
      BY <1>5, <2>3, <2>4, <3>1
    <3>3. doc.companyIds = accounts[v].companyIds \/ Gives(r, v, "companyIds")
      BY <2>3, <2>5
    <3>4. doc.reset = accounts[v].reset \/ (Gives(r, v, "reset") /\ doc.reset = b.reset)
      BY <2>3, <2>5
    <3>5. doc.avatar = accounts[v].avatar \/ (Gives(r, v, "avatar") /\ NamedBy(r, doc.avatar))
      BY <2>3, <2>5, <2>6
    <3> HIDE DEF doc
    <3> QED
      BY <1>1, <2>3, <2>8, <3>2, <3>3, <3>4, <3>5
  <2> QED
    BY <2>2, <2>7, <2>8
<1>6. CASE ChangeUserStatus(r)
  <2>1. PICK w \in AccountNames, s \in EntityStatus :
            \/ UNCHANGED accounts
            \/ /\ accounts[w].email # None
               /\ \E label \in {"ok", "failed"} :
                        Start(r, label, [op |-> "userStatus", user |-> w, status |-> s])
               /\ accounts' = [accounts EXCEPT ![w] = [accounts[w] EXCEPT !.status = s]]
    BY <1>0, <1>6 DEF ChangeUserStatus, StatusSet, AccountTypeOK
  <2>2. CASE \E label \in {"ok", "failed"} :
                Start(r, label, [op |-> "userStatus", user |-> w, status |-> s])
    <3> DEFINE l == [op |-> "userStatus", user |-> w, status |-> s]
    <3>1. local'[r] = Forget(l)
      BY <2>2 DEF Start, Final, DirHere, Here
    <3>2. local'[r].op = "userStatus" /\ local'[r].status = s
      BY <3>1 DEF Forget
    <3>3. ASSUME accounts[w].email # None, NEW u \in AccountNames,
                 accounts' = [accounts EXCEPT ![w] = [accounts[w] EXCEPT !.status = s]]
          PROVE  accounts'[u] = accounts[u] \/ AccountEdited(r, u)
      <4>1. CASE u # w
        BY <1>0, <3>3, <4>1 DEF AccountTypeOK
      <4>2. CASE u = w
        <5>1. accounts'[u] = [accounts[u] EXCEPT !.status = s]
          BY <1>0, <3>3, <4>2 DEF AccountTypeOK
        <5>2. accounts[u] \in AccountDoc
          BY <1>2
        <5>3. /\ accounts'[u].email = accounts[u].email /\ accounts'[u].companyIds = accounts[u].companyIds
              /\ accounts'[u].reset = accounts[u].reset
              /\ accounts'[u].password = accounts[u].password
              /\ accounts'[u].avatar = accounts[u].avatar /\ accounts'[u].status = s
          BY <5>1, <5>2 DEF AccountDoc
        <5> QED
          BY <1>6, <3>2, <3>3, <4>2, <5>3 DEF AccountEdited
      <4> QED
        BY <4>1, <4>2
    <3> QED
      BY <1>3, <2>1, <3>3 DEF AccountsDo
  <2> QED
    BY <1>3, <2>1, <2>2
<1>7. CASE SetVerification(r)
  <2> DEFINE doc == [accounts[r] EXCEPT !.verification = r]
  <2>1. UNCHANGED accounts \/ (AccountIsHere(r) /\ accounts' = [accounts EXCEPT ![r] = doc])
    BY <1>7 DEF SetVerification, SetAccount
  <2>2. /\ doc.email = accounts[r].email /\ doc.companyIds = accounts[r].companyIds
        /\ doc.status = accounts[r].status /\ doc.reset = accounts[r].reset
        /\ doc.password = accounts[r].password /\ doc.avatar = accounts[r].avatar
    BY <1>2 DEF AccountDoc, AccountNames
  <2> QED
    BY <1>1, <1>3, <2>1, <2>2 DEF AccountIsHere
<1>8. CASE SetToken(r)
  <2>0. v \in AccountNames
    BY <1>0, <1>8, InFlightFits
       DEF SetToken, CallersAre, InFlight, Final, Fits, UserOps, TokenOps, Asked
  <2> DEFINE doc == [accounts[v] EXCEPT !.reset = r, !.expired = FALSE]
  <2>1. UNCHANGED accounts \/ (AccountIsHere(v) /\ accounts' = [accounts EXCEPT ![v] = doc])
    BY <1>8 DEF SetToken, SetAccount
  <2>2. /\ doc.email = accounts[v].email /\ doc.companyIds = accounts[v].companyIds
        /\ doc.status = accounts[v].status /\ doc.reset = r
        /\ doc.password = accounts[v].password /\ doc.avatar = accounts[v].avatar
    BY <1>2, <2>0 DEF AccountDoc
  <2> QED
    BY <1>1, <1>3, <1>8, <2>1, <2>2 DEF AccountIsHere
<1>9. CASE SetPassword(r)
  <2>0. v \in AccountNames
    BY <1>0, <1>9, InFlightFits
       DEF SetPassword, CallersAre, InFlight, Final, Fits, UserOps, TokenOps, PasswordOps
  <2> DEFINE doc == [accounts[v] EXCEPT !.password = r]
  <2>1. UNCHANGED accounts \/ (AccountIsHere(v) /\ accounts' = [accounts EXCEPT ![v] = doc])
    BY <1>9 DEF SetPassword, SetAccount, PasswordGiven
  <2>2. /\ doc.email = accounts[v].email /\ doc.companyIds = accounts[v].companyIds
        /\ doc.status = accounts[v].status /\ doc.reset = accounts[v].reset
        /\ doc.password = r /\ doc.avatar = accounts[v].avatar
    BY <1>2, <2>0 DEF AccountDoc
  <2> QED
    BY <1>1, <1>3, <1>9, <2>1, <2>2 DEF AccountIsHere
<1>10. CASE SetVerified(r)
  <2>0. v \in AccountNames
    BY <1>0, <1>10, InFlightFits
       DEF SetVerified, CallersAre, InFlight, Final, Fits, UserOps, TokenOps, Asked
  <2> DEFINE doc == [accounts[v] EXCEPT !.verified = TRUE, !.verification = None]
  <2>1. UNCHANGED accounts \/ (AccountIsHere(v) /\ accounts' = [accounts EXCEPT ![v] = doc])
    BY <1>10 DEF SetVerified, SetAccount
  <2>2. /\ doc.email = accounts[v].email /\ doc.companyIds = accounts[v].companyIds
        /\ doc.status = accounts[v].status /\ doc.reset = accounts[v].reset
        /\ doc.password = accounts[v].password /\ doc.avatar = accounts[v].avatar
    BY <1>2, <2>0 DEF AccountDoc
  <2> QED
    BY <1>1, <1>3, <2>1, <2>2 DEF AccountIsHere
<1>11. CASE SetPhoto(r)
  <2>0. v \in AccountNames
    BY <1>0, <1>11, InFlightFits
       DEF SetPhoto, CallersAre, InFlight, Final, Fits, UserOps, PhotoOps, Asked
  <2> DEFINE doc == [accounts[v] EXCEPT !.avatar = r]
  <2>1. UNCHANGED accounts \/ (AccountIsHere(v) /\ accounts' = [accounts EXCEPT ![v] = doc])
    BY <1>11 DEF SetPhoto, SetAccount
  <2>2. /\ doc.email = accounts[v].email /\ doc.companyIds = accounts[v].companyIds
        /\ doc.status = accounts[v].status /\ doc.reset = accounts[v].reset
        /\ doc.password = accounts[v].password /\ doc.avatar = r
    BY <1>2, <2>0 DEF AccountDoc
  <2> QED
    BY <1>1, <1>3, <1>11, <2>1, <2>2 DEF AccountIsHere
<1> QED
  BY <1>3, <1>4, <1>5, <1>6, <1>7, <1>8, <1>9, <1>10, <1>11
     DEF Acts, ActsOnCompanies, ActsOnFiles, ActsOnAccounts, ActsOnSpeakers, ActsOnMethods, Reads

CompanyInserted(r, c) ==
    /\ InsertCompany(r) /\ c = r
    /\ companies'[c].stored /\ companies'[c].status = "active"
    /\ companies'[c].email = GivenEmail(CompanyGiven(r))
    /\ companies'[c].logo = None \/ NamedBy(r, companies'[c].logo)

CompanyEdited(r, c) ==
    /\ companies[c].stored /\ companies'[c].stored
    /\ \/ companies'[c].email = companies[c].email
       \/ SetCompany(r) /\ c = local[r].company /\ companies'[c].email = GivenEmail(local[r].changes)
    /\ \/ companies'[c].status = companies[c].status
       \/ /\ ChangeCompanyStatus(r) /\ local'[r].op = "companyStatus" /\ c = local'[r].company
          /\ companies'[c].status = local'[r].changes.status
    /\ \/ companies'[c].logo = companies[c].logo
       \/ SetLogo(r) /\ c = local[r].company /\ companies'[c].logo = r
       \/ UnsetLogo(r) /\ c = local[r].company /\ companies'[c].logo = None
       \/ SetCompany(r) /\ c = local[r].company /\ NamedBy(r, companies'[c].logo)

CompaniesDo(r) ==
    \A c \in CompanyNames :
        companies'[c] = companies[c] \/ CompanyInserted(r, c) \/ CompanyEdited(r, c)

\* A step of r inserts a company, edits some, or leaves them.
LEMMA CompaniesChange ==
  ASSUME DirHere, NEW r \in Requests, Acts(r)
  PROVE  CompaniesDo(r)
<1>0. CompanyTypeOK /\ RequestsFit /\ CallersAre(r)
  BY Callers DEF DirHere, RequestsFit
<1>1. ASSUME NEW d \in CompanyNames, NEW doc, CompanyIsHere(d), companies' = [companies EXCEPT ![d] = doc],
             doc.stored, doc.status = companies[d].status,
             \/ doc.email = companies[d].email
             \/ SetCompany(r) /\ d = local[r].company /\ doc.email = GivenEmail(local[r].changes),
             \/ doc.logo = companies[d].logo
             \/ SetLogo(r) /\ d = local[r].company /\ doc.logo = r
             \/ UnsetLogo(r) /\ d = local[r].company /\ doc.logo = None
             \/ SetCompany(r) /\ d = local[r].company /\ NamedBy(r, doc.logo)
      PROVE  CompaniesDo(r)
  <2> SUFFICES ASSUME NEW c \in CompanyNames
               PROVE  companies'[c] = companies[c] \/ CompanyEdited(r, c)
    BY DEF CompaniesDo
  <2>1. CASE c # d
    BY <1>0, <1>1, <2>1 DEF CompanyTypeOK
  <2>2. CASE c = d
    <3>1. companies'[c] = doc
      BY <1>0, <1>1, <2>2 DEF CompanyTypeOK
    <3> QED
      BY <1>1, <2>2, <3>1 DEF CompanyEdited, CompanyIsHere
  <2> QED
    BY <2>1, <2>2
<1>2. \A c \in CompanyNames : companies[c] \in CompanyDoc
  BY <1>0 DEF CompanyTypeOK
<1>3. UNCHANGED companies => CompaniesDo(r)
  BY DEF CompaniesDo
<1> DEFINE d == local[r].company
<1>4. CASE InsertCompany(r)
  <2> DEFINE b == CompanyGiven(r)
             old == [NoCompany EXCEPT !.stored = TRUE]
             doc == With(old, b)
  <2>1. companies' = [companies EXCEPT ![r] = doc]
    BY <1>4 DEF InsertCompany
  <2>2. CompanyInserted(r, r)
    <3>1. IsCompanyBody(b) /\ ("logo" \in DOMAIN b => NamedBy(r, b.logo))
      BY <1>4, CompanyBodiesFit, NamedHere DEF InsertCompany, CompanyGiven
    <3>2. /\ old \in CompanyDoc /\ old.stored = TRUE /\ old.status = "active"
          /\ old.email = None /\ old.logo = None
      BY DEF CompanyDoc, NoCompany, EntityStatus
    <3>3. /\ doc.stored = TRUE /\ doc.status = "active" /\ doc.email = GivenEmail(b)
          /\ doc.logo = IF "logo" \in DOMAIN b THEN b.logo ELSE None
      <4> HIDE DEF old, b
      <4>1. /\ doc.stored = old.stored /\ doc.status = old.status
            /\ doc.email = IF "email" \in DOMAIN b THEN GivenEmail(b) ELSE old.email
            /\ doc.logo = IF "logo" \in DOMAIN b THEN b.logo ELSE old.logo
        BY <3>1, <3>2, CompanyWith
      <4> QED
        BY <3>2, <4>1 DEF GivenEmail
    <3>4. companies'[r] = doc
      BY <1>0, <2>1 DEF CompanyTypeOK, CompanyNames
    <3> QED
      BY <1>4, <3>1, <3>3, <3>4 DEF CompanyInserted
  <2>3. \A c \in CompanyNames \ {r} : companies'[c] = companies[c]
    BY <1>0, <2>1 DEF CompanyTypeOK
  <2> QED
    BY <2>2, <2>3 DEF CompaniesDo
<1>5. CASE SetCompany(r)
  <2> DEFINE b == local[r].changes
             doc == With(companies[d], b)
  <2>0. d \in CompanyNames /\ IsCompanyBody(b) /\ "changes" \in DOMAIN local[r]
    BY <1>5, CompanyBodiesFit DEF SetCompany
  <2>1. UNCHANGED companies \/ (CompanyIsHere(d) /\ companies' = [companies EXCEPT ![d] = doc])
    BY <1>0, <1>5, <2>0 DEF SetCompany, CompanyTypeOK
  <2>2. /\ doc.stored = companies[d].stored /\ doc.status = companies[d].status
        /\ doc.email = IF "email" \in DOMAIN b THEN GivenEmail(b) ELSE companies[d].email
        /\ doc.logo = IF "logo" \in DOMAIN b THEN b.logo ELSE companies[d].logo
    BY <1>2, <2>0, CompanyWith
  <2>3. "logo" \in DOMAIN b => NamedBy(r, b.logo)
    BY <2>0, NamedHere
  <2>4. CASE UNCHANGED companies
    BY <1>3, <2>4
  <2>5. CASE CompanyIsHere(d) /\ companies' = [companies EXCEPT ![d] = doc]
    <3>1. doc.email = companies[d].email \/ doc.email = GivenEmail(b)
      BY <2>2
    <3>2. doc.logo = companies[d].logo \/ NamedBy(r, doc.logo)
      BY <2>2, <2>3
    <3>3. doc.stored
      BY <2>2, <2>5 DEF CompanyIsHere
    <3> HIDE DEF doc
    <3> QED
      BY <1>1, <1>5, <2>0, <2>2, <2>5, <3>1, <3>2, <3>3
  <2> QED
    BY <2>1, <2>4, <2>5
<1>6. CASE SetLogo(r)
  <2>0. d \in CompanyNames
    BY <1>0, <1>6, InFlightFits
       DEF SetLogo, CallersAre, InFlight, Final, Fits, CompanyOps, LogoOps, Asked
  <2> DEFINE doc == [companies[d] EXCEPT !.logo = r]
  <2>1. UNCHANGED companies \/ (CompanyIsHere(d) /\ companies' = [companies EXCEPT ![d] = doc])
    BY <1>0, <1>6, <2>0 DEF SetLogo, CompanyTypeOK
  <2>2. /\ doc.stored = companies[d].stored /\ doc.email = companies[d].email
        /\ doc.status = companies[d].status /\ doc.logo = r
    BY <1>2, <2>0 DEF CompanyDoc
  <2> QED
    BY <1>1, <1>3, <1>6, <2>0, <2>1, <2>2 DEF CompanyIsHere
<1>7. CASE UnsetLogo(r)
  <2>0. d \in CompanyNames
    BY <1>0, <1>7, InFlightFits
       DEF UnsetLogo, CallersAre, InFlight, Final, Fits, CompanyOps, LogoOps, Asked
  <2> DEFINE doc == [companies[d] EXCEPT !.logo = None]
  <2>1. UNCHANGED companies \/ (CompanyIsHere(d) /\ companies' = [companies EXCEPT ![d] = doc])
    BY <1>0, <1>7, <2>0 DEF UnsetLogo, CompanyTypeOK
  <2>2. /\ doc.stored = companies[d].stored /\ doc.email = companies[d].email
        /\ doc.status = companies[d].status /\ doc.logo = None
    BY <1>2, <2>0 DEF CompanyDoc
  <2> QED
    BY <1>1, <1>3, <1>7, <2>0, <2>1, <2>2 DEF CompanyIsHere
<1>8. CASE ChangeCompanyStatus(r)
  <2>1. PICK w \in CompanyNames, s \in EntityStatus :
            \/ UNCHANGED companies
            \/ /\ companies[w].stored
               /\ \E label \in {"ok", "failed"} :
                        Start(r, label, CompanyRequest("companyStatus", w, [status |-> s]))
               /\ companies' = [companies EXCEPT ![w].status = s]
    BY <1>8 DEF ChangeCompanyStatus
  <2>2. CASE \E label \in {"ok", "failed"} :
                Start(r, label, CompanyRequest("companyStatus", w, [status |-> s]))
    <3> DEFINE l == CompanyRequest("companyStatus", w, [status |-> s])
    <3>1. local'[r] = Forget(l)
      BY <2>2 DEF Start, Final, DirHere, Here
    <3>2. /\ local'[r].op = "companyStatus" /\ local'[r].company = w
          /\ local'[r].changes = [status |-> s]
      BY <3>1 DEF Forget, CompanyRequest
    <3>3. ASSUME companies[w].stored, NEW c \in CompanyNames,
                 companies' = [companies EXCEPT ![w].status = s]
          PROVE  companies'[c] = companies[c] \/ CompanyEdited(r, c)
      <4>1. CASE c # w
        BY <1>0, <3>3, <4>1 DEF CompanyTypeOK
      <4>2. CASE c = w
        <5>1. companies'[c] = [companies[c] EXCEPT !.status = s]
          BY <1>0, <3>3, <4>2 DEF CompanyTypeOK
        <5>2. companies[c] \in CompanyDoc
          BY <1>2
        <5>3. /\ companies'[c].email = companies[c].email /\ companies'[c].stored = companies[c].stored
              /\ companies'[c].logo = companies[c].logo /\ companies'[c].status = s
          BY <5>1, <5>2 DEF CompanyDoc
        <5> QED
          BY <1>8, <3>2, <3>3, <4>2, <5>3 DEF CompanyEdited
      <4> QED
        BY <4>1, <4>2
    <3> QED
      BY <1>3, <2>1, <3>3 DEF CompaniesDo
  <2> QED
    BY <1>3, <2>1, <2>2
<1> QED
  BY <1>3, <1>4, <1>5, <1>6, <1>7, <1>8
     DEF Acts, ActsOnCompanies, ActsOnFiles, ActsOnAccounts, ActsOnSpeakers, ActsOnMethods, Reads

\* A call that writes, and is not rejected, is made by its handler.
Written(r) ==
    /\ pc[r] = "companyInsert" => InsertCompany(r)
    /\ pc[r] = "companySet" => SetCompany(r)
    /\ pc[r] = "logoUpload" => UploadLogo(r)
    /\ pc[r] = "logoSet" => SetLogo(r)
    /\ pc[r] = "logoDelete" => DeleteLogoFile(r)
    /\ pc[r] = "logoUnset" => UnsetLogo(r)
    /\ pc[r] = "userInsert" => InsertUser(r)
    /\ pc[r] = "userSet" => SetUser(r)
    /\ pc[r] = "tokenSet" => SetToken(r)
    /\ pc[r] = "passwordSet" => SetPassword(r)
    /\ pc[r] = "photoUpload" => UploadPhoto(r)
    /\ pc[r] = "photoSet" => SetPhoto(r)
    /\ pc[r] = "photoDelete" => DeletePhotoFile(r)
    /\ pc[r] = "speakerInsert" => InsertSpeaker(r)
    /\ pc[r] = "methodSave" => SaveMethod(r)

\* Only the handler makes the call, unless it is rejected.
LEMMA Writers ==
  ASSUME NEW r \in Requests, Acts(r), pc'[r] # "failed"
  PROVE  Written(r)
<1>1. CASE ActsOnCompanies(r)
  BY <1>1 DEF ActsOnCompanies, Written, InsertCompany, SetCompany, ChangeCompanyStatus, SetLogo,
              UnsetLogo, Start
<1>2. CASE ActsOnFiles(r)
  BY <1>2 DEF ActsOnFiles, Written, UploadLogo, DeleteLogoFile, UploadPhoto, DeletePhotoFile
<1>3. CASE ActsOnAccounts(r)
  <2>1. \/ pc[r] = "userInsert" /\ InsertUser(r)
        \/ pc[r] = "userSet" /\ SetUser(r)
        \/ pc[r] \in {"idle", "verificationSet", "verifySet"}
        \/ pc[r] = "tokenSet" /\ SetToken(r)
        \/ pc[r] = "passwordSet" /\ SetPassword(r)
        \/ pc[r] = "photoSet" /\ SetPhoto(r)
    BY <1>3 DEF ActsOnAccounts, InsertUser, SetUser, ChangeUserStatus, SetVerification, SetToken,
                SetPassword, SetVerified, SetPhoto, Start
  <2> QED
    BY <2>1 DEF Written
<1>4. CASE ActsOnSpeakers(r)
  <2>1. (pc[r] = "speakerInsert" /\ InsertSpeaker(r)) \/ pc[r] = "idle"
    BY <1>4 DEF ActsOnSpeakers, InsertSpeaker, UpdateSpeaker, ChangeSpeakerStatus, Start
  <2> QED
    BY <2>1 DEF Written
<1>5. CASE ActsOnMethods(r)
  <2>1. (pc[r] = "methodSave" /\ SaveMethod(r)) \/ pc[r] = "idle"
    BY <1>5 DEF ActsOnMethods, CreateMethod, SaveMethod, Start
  <2> QED
    BY <2>1 DEF Written
<1>6. CASE Reads(r)
  BY <1>6 DEF Reads, Writes, Written
<1> QED
  BY <1>1, <1>2, <1>3, <1>4, <1>5, <1>6 DEF Acts

(***************************************************************************)
(* What was given stays given.                                              *)
(***************************************************************************)
\* Who has arrived keeps what it was asked.
LEMMA KeptStays ==
  ASSUME DirHere, NEW r \in Requests, Moved(r), NEW q \in Requests, pc[q] # "idle"
  PROVE  /\ local'[q].op = local[q].op
         /\ \A f \in DOMAIN local[q] \ {"old", "new"} :
                f \in DOMAIN local'[q] /\ local'[q][f] = local[q][f]
<1>1. CASE q # r
  BY <1>1, OthersStay
<1>2. CASE q = r
  <2>1. InFlight(r)
    BY <1>2, OthersStay DEF InFlight
  <2> QED
    BY <1>2, <2>1, GoneOn
<1> QED
  BY <1>1, <1>2

\* A picture once named is named ever after.
LEMMA NamedStays ==
  ASSUME DirHere, NEW r \in Requests, Moved(r), NEW f, Named(f)
  PROVE  Named(f)'
<1>1. PICK q \in Requests : NamedBy(q, f)
  BY DEF Named
<1>2. PICK body \in {"changes", "firm"} \cap DOMAIN local[q] :
        \E field \in {"logo", "avatar"} \cap DOMAIN local[q][body] : local[q][body][field] = f
  BY <1>1 DEF NamedBy
<1>3. pc[q] # "idle"
  <2>1. CASE q = r /\ ~InFlight(r)
    <3>1. local[q] = [op |-> "none"]
      BY <2>1, Arrived DEF NoLocal
    <3> QED
      BY <1>2, <3>1
  <2>2. CASE q = r /\ InFlight(r)
    BY <2>2 DEF InFlight
  <2>3. CASE q # r
    <3>1. CASE pc[q] = "idle"
      <4>1. local[q] = [op |-> "none"]
        BY <3>1 DEF DirHere, Here, NoLocal
      <4> QED
        BY <1>2, <4>1
    <3> QED
      BY <3>1
  <2> QED
    BY <2>1, <2>2, <2>3
<1>4. body \in DOMAIN local'[q] /\ local'[q][body] = local[q][body]
  BY <1>2, <1>3, KeptStays
<1> QED
  BY <1>2, <1>4 DEF Named, NamedBy

\* What r names now, it does ever after.
LEMMA NamedFromNow ==
  ASSUME DirHere, NEW r \in Requests, Moved(r), NEW f, NamedBy(r, f)
  PROVE  Named(f)'
BY NamedStays DEF Named

\* An update of u keeps what it gives.
LEMMA UpdateStays ==
  ASSUME DirHere, NEW r \in Requests, Moved(r), NEW q \in Requests, Asked(q, "updateUser")
  PROVE  /\ Asked(q, "updateUser")' /\ local'[q].user = local[q].user
         /\ local'[q].changes = local[q].changes
<1>1. pc[q] # "idle"
  BY DEF DirHere, Here, Asked
<1>2. Fits(pc[q], local[q]) /\ local[q].op = "updateUser"
  BY <1>1 DEF DirHere, Asked
<1>3. {"user", "changes"} \subseteq DOMAIN local[q]
  BY <1>2 DEF Fits, UserOps
<1> QED
  BY <1>1, <1>2, <1>3, KeptStays DEF Asked

\* A user once given companies has been ever after.
LEMMA RelinkedStays ==
  ASSUME DirHere, NEW r \in Requests, Moved(r), NEW u, Relinked(u) \/ Gives(r, u, "companyIds")
  PROVE  Relinked(u)'
<1>1. Relinked(u)
  BY DEF Relinked, Gives
<1>2. PICK q \in Requests : /\ Asked(q, "updateUser") /\ local[q].user = u
                            /\ "companyIds" \in DOMAIN local[q].changes
  BY <1>1 DEF Relinked
<1> QED
  BY <1>2, UpdateStays DEF Relinked

(***************************************************************************)
(* The registrations.                                                       *)
(***************************************************************************)
\* No e-mail is taken away, and no company.
LEMMA RecordsStay ==
  ASSUME NEW r \in Requests, AccountsDo(r), CompaniesDo(r)
  PROVE  /\ \A u \in AccountNames : accounts[u].email # None => accounts'[u].email # None
         /\ \A c \in CompanyNames : companies[c].stored => companies'[c].stored
<1>1. \A u \in AccountNames : accounts[u].email # None => accounts'[u].email # None
  BY DEF AccountsDo, AccountInserted, AccountEdited
<1>2. \A c \in CompanyNames : companies[c].stored => companies'[c].stored
  BY DEF CompaniesDo, CompanyInserted, CompanyEdited
<1> QED
  BY <1>1, <1>2

\* Before the user of a request is inserted.
Early == {"idle", "companyLookup", "companyInsert", "emailLookup", "userInsert"}

\* Users are inserted by their requests.
LEMMA InsertedKept ==
  ASSUME DirHere, NEW r \in Requests, Moved(r), AccountsDo(r), InsertedInv
  PROVE  InsertedInv'
<1> SUFFICES ASSUME NEW q \in Requests, accounts'[q].email # None
             PROVE  pc'[q] \notin Early
  BY DEF InsertedInv, Early
<1>0. q \in AccountNames
  BY DEF AccountNames
<1>1. CASE accounts[q].email = None
  <2>1. AccountInserted(r, q)
    BY <1>0, <1>1 DEF AccountsDo, AccountEdited
  <2>2. q = r /\ pc[r] = "userInsert"
    BY <2>1 DEF AccountInserted, InsertUser
  <2>3. Edge(r, pc'[r])
    BY <2>2, GoneOn DEF InFlight, Final
  <2>4. local[r].op \in {"createUser", "register", "createSpeaker"}
    BY <2>2, Callers DEF DirHere, RequestsFit, CallersAre
  <2> QED
    BY <2>2, <2>3, <2>4 DEF Edge, AfterInsert, Early
<1>2. CASE accounts[q].email # None
  <2>1. pc[q] \notin Early
    BY <1>2 DEF InsertedInv, Early
  <2>2. CASE q # r
    BY <2>1, <2>2, OthersStay
  <2>3. CASE q = r
    <3>1. Edge(r, pc'[r])
      BY <2>1, <2>3, GoneOn, OthersStay DEF InFlight, Early
    <3> QED
      BY <2>1, <2>3, <3>1 DEF Edge, AfterInsert, Early
  <2> QED
    BY <2>2, <2>3
<1> QED
  BY <1>1, <1>2

\* How far a registration is, one by one.
Registers(q) ==
    /\ InFlight(q) /\ Asked(q, "register") /\ local[q].company =>
            /\ q \in Linked(local[q].changes)
            /\ pc[q] \in {"emailLookup", "userInsert"} => companies[q].stored
    /\ Asked(q, "register") /\ pc[q] \in {"verificationSet", "login", "lastLogin", "ok"} =>
            /\ accounts[q].email # None
            /\ local[q].company =>
                    companies[q].stored /\ (q \in accounts[q].companyIds \/ Relinked(q))
    /\ pc[q] = "speakerInsert" => accounts[q].email # None

\* A registration keeps what it has inserted.
LEMMA RegisterKept ==
  ASSUME DirHere, NEW r \in Requests, Moved(r), Acts(r), AccountsDo(r), CompaniesDo(r), RegisterInv
  PROVE  RegisterInv'
<1> SUFFICES ASSUME NEW q \in Requests PROVE Registers(q)'
  BY DEF RegisterInv, Registers
<1>0. q \in AccountNames /\ q \in CompanyNames /\ Registers(q)
  BY DEF AccountNames, CompanyNames, RegisterInv, Registers
<1>1. /\ accounts[q].email # None => accounts'[q].email # None
      /\ companies[q].stored => companies'[q].stored
  BY <1>0, RecordsStay
<1>2. CASE q # r
  <2>1. pc'[q] = pc[q] /\ local'[q] = local[q]
    BY <1>2, OthersStay
  <2>2. accounts[q].email # None => accounts'[q].companyIds = accounts[q].companyIds \/ Relinked(q)'
    BY <1>0, <1>2, RelinkedStays DEF AccountsDo, AccountInserted, AccountEdited
  <2>3. Relinked(q) => Relinked(q)'
    BY RelinkedStays
  <2> QED
    BY <1>0, <1>1, <2>1, <2>2, <2>3 DEF Registers, Asked, InFlight
<1>3. CASE q = r /\ ~InFlight(r)
  <2>1. PICK l : /\ Known(r, pc'[r], l) /\ Fits(pc'[r], l) /\ l.op = local'[r].op
                 /\ l.op \in CompanyOps \cup {"register"} => local'[r].company = l.company
                 /\ pc'[r] \notin Final => local'[r] = l
    BY <1>3, Arrived
  <2>2. /\ pc'[r] \notin {"userInsert", "verificationSet", "login", "speakerInsert"}
        /\ l.op = "register" => pc'[r] \notin {"ok", "lastLogin"}
        /\ pc'[r] = "emailLookup" /\ l.op = "register" => ~l.company
        /\ pc'[r] \notin Final /\ l.op = "register" /\ l.company =>
                r \in Linked(local'[r].changes)
    <3>1. l.op = "register" => pc'[r] # "ok"
      BY <2>1 DEF Known
    <3>2. pc'[r] = "emailLookup" /\ l.op = "register" => ~l.company
      BY <2>1 DEF Known
    <3>3. pc'[r] \notin {"userInsert", "verificationSet", "login", "speakerInsert"}
      BY <2>1 DEF Known, Final
    <3>4. l.op = "register" => pc'[r] # "lastLogin"
      BY <2>1 DEF Known
    <3>5. pc'[r] \notin Final /\ l.op = "register" /\ l.company => r \in Linked(local'[r].changes)
      BY <2>1 DEF Known, Final
    <3> QED
      BY <3>1, <3>2, <3>3, <3>4, <3>5
  <2> QED
    BY <1>3, <2>1, <2>2 DEF Registers, Asked, InFlight
<1>4. CASE q = r /\ InFlight(r)
  <2>1. /\ Edge(r, pc'[r]) /\ local'[r].op = local[r].op
        /\ local[r].op = "register" => local'[r].company = local[r].company
    BY <1>4, GoneOn
  <2>3. CallersAre(r)
    BY Callers DEF DirHere, RequestsFit
  <2>4. CASE pc'[r] = "failed"
    BY <1>4, <2>4 DEF Registers, InFlight, Final
  <2>5. CASE pc'[r] # "failed" /\ pc[r] = "companyInsert"
    <3>1. InsertCompany(r)
      BY <2>5, Writers DEF Written
    <3>2. companies'[r].stored
      <4>1. "stored" \notin DOMAIN CompanyGiven(r)
        BY <2>5, CompanyBodiesFit DEF IsCompanyBody
      <4>2. companies'[r] = With([NoCompany EXCEPT !.stored = TRUE], CompanyGiven(r))
        BY <3>1 DEF InsertCompany, DirHere, CompanyTypeOK, CompanyNames
      <4> QED
        BY <4>1, <4>2 DEF With, NoCompany
    <3>3. pc'[r] \in {"emailLookup", "ok"} /\ (Asked(r, "register") => pc'[r] = "emailLookup")
      BY <2>1, <2>5 DEF Edge
    <3>4. Asked(r, "register") /\ local[r].company => r \in Linked(local[r].changes)
      BY <1>0, <1>4, <2>5 DEF Registers
    <3>5. pc'[r] = "emailLookup" => local'[r] = local[r]
      BY <1>4, GoneOn DEF Final
    <3> QED
      BY <1>4, <2>1, <3>2, <3>3, <3>4, <3>5 DEF Registers, Asked, InFlight, Final
  <2>6. CASE pc'[r] # "failed" /\ pc[r] = "userInsert"
    <3>1. InsertUser(r)
      BY <2>6, Writers DEF Written
    <3>2. /\ accounts'[r].email # None
          /\ Asked(r, "register") /\ local[r].company => r \in accounts'[r].companyIds
      <4>1. /\ accounts' = [accounts EXCEPT ![r] =
                    With([NoAccount EXCEPT !.password = r], local[r].changes)]
            /\ accounts \in [AccountNames -> AccountDoc]
        BY <3>1 DEF InsertUser, DirHere, AccountTypeOK
      <4>2. accounts'[r] = With([NoAccount EXCEPT !.password = r], local[r].changes)
        BY <1>0, <1>4, <4>1
      <4>3. /\ GivenEmail(local[r].changes) \in Emails
            /\ Asked(r, "register") /\ local[r].company => r \in Linked(local[r].changes)
        BY <1>0, <1>4, <2>3, <2>6, InFlightFits DEF CallersAre, Fits, InsertOps, Registers
      <4>4. /\ With([NoAccount EXCEPT !.password = r], local[r].changes).email = local[r].changes.email
            /\ "companyIds" \in DOMAIN local[r].changes =>
                With([NoAccount EXCEPT !.password = r], local[r].changes).companyIds
                    = local[r].changes.companyIds
        BY <4>3, CompaniesAssumption DEF With, NoAccount, GivenEmail
      <4> QED
        BY <4>2, <4>3, <4>4, CompaniesAssumption DEF Linked, GivenEmail
    <3>3. UNCHANGED companies
      BY <3>1 DEF InsertUser, companyVars
    <3>4. pc'[r] = AfterInsert(local[r].op)
      BY <2>1, <2>6 DEF Edge
    <3>5. pc'[r] \in {"ok", "verificationSet", "speakerInsert"}
      BY <2>3, <2>6, <3>4 DEF CallersAre, AfterInsert
    <3> QED
      BY <1>0, <1>4, <2>1, <2>6, <3>2, <3>3, <3>5, GoneOn DEF Registers, Asked, InFlight
  <2>7. CASE pc[r] \notin {"companyInsert", "userInsert"} /\ pc'[r] # "failed"
    <3>1. /\ accounts[r].email # None =>
                accounts'[r].companyIds = accounts[r].companyIds \/ Relinked(r)'
          /\ Relinked(r) => Relinked(r)'
      BY <1>0, <1>4, <2>7, RelinkedStays DEF AccountsDo, AccountInserted, AccountEdited, InsertUser
    <3>2. /\ pc'[r] # "speakerInsert"
          /\ pc'[r] = "emailLookup" => FALSE
          /\ pc'[r] = "userInsert" => pc[r] = "emailLookup"
          /\ pc'[r] = "verificationSet" => FALSE
          /\ pc'[r] = "login" => pc[r] = "verificationSet"
          /\ pc'[r] = "lastLogin" => pc[r] = "login"
      BY <2>1, <2>7 DEF Edge
    <3>3. pc'[r] = "ok" /\ Asked(r, "register") => pc[r] = "lastLogin"
      BY <2>1, <2>3, <2>7
         DEF Edge, CallersAre, Asked, LogoOps, PhotoOps, PasswordOps, MethodOps
    <3>4. pc'[r] \notin Final => local'[r] = local[r]
      BY <1>4, GoneOn
    <3> QED
      BY <1>0, <1>1, <1>4, <2>1, <3>1, <3>2, <3>3, <3>4 DEF Registers, Asked, InFlight
  <2> QED
    BY <2>4, <2>5, <2>6, <2>7
<1> QED
  BY <1>2, <1>3, <1>4

\* The speakers have users.
LEMMA SpeakersKept ==
  ASSUME DirHere, NEW r \in Requests, Acts(r), AccountsDo(r), CompaniesDo(r), RegisterInv,
         SpeakersHaveUsers
  PROVE  SpeakersHaveUsers'
<1> SUFFICES ASSUME NEW s \in SpeakerNames, speakers'[s].user # None
             PROVE  accounts'[speakers'[s].user].email # None
  BY DEF SpeakersHaveUsers
<1>0. SpeakerTypeOK
  BY DEF DirHere
<1>1. CASE speakers'[s].user = speakers[s].user
  <2>1. accounts[speakers[s].user].email # None /\ speakers[s].user \in AccountNames
    BY <1>0, <1>1 DEF SpeakersHaveUsers, SpeakerTypeOK, SpeakerDoc
  <2> QED
    BY <1>1, <2>1, RecordsStay
<1>2. CASE InsertSpeaker(r) /\ s = r
  <2>1. speakers'[s].user = r /\ pc[r] = "speakerInsert" /\ UNCHANGED accounts
    BY <1>0, <1>2 DEF InsertSpeaker, SpeakerTypeOK, NoSpeaker, accountVars
  <2> QED
    BY <2>1 DEF RegisterInv
<1>3. CASE InsertSpeaker(r) /\ s # r
  <2>1. speakers'[s] = speakers[s]
    BY <1>0, <1>3 DEF InsertSpeaker, SpeakerTypeOK
  <2> QED
    BY <1>1, <2>1
<1>4. CASE UpdateSpeaker(r)
  <2>1. PICK t \in SpeakerNames : speakers' \in {speakers, [speakers EXCEPT ![t].edited = TRUE]}
    BY <1>4 DEF UpdateSpeaker
  <2>2. speakers'[s].user = speakers[s].user
    BY <1>0, <2>1 DEF SpeakerTypeOK, SpeakerDoc
  <2> QED
    BY <1>1, <2>2
<1>5. CASE ChangeSpeakerStatus(r)
  <2>1. PICK t \in SpeakerNames, status \in EntityStatus :
            speakers' \in {speakers, [speakers EXCEPT ![t].status = status]}
    BY <1>5 DEF ChangeSpeakerStatus
  <2>2. speakers'[s].user = speakers[s].user
    BY <1>0, <2>1 DEF SpeakerTypeOK, SpeakerDoc
  <2> QED
    BY <1>1, <2>2
<1> QED
  BY <1>1, <1>2, <1>3, <1>4, <1>5
     DEF Acts, ActsOnCompanies, ActsOnFiles, ActsOnAccounts, ActsOnSpeakers, ActsOnMethods, Reads

(***************************************************************************)
(* The tokens.                                                              *)
(***************************************************************************)
\* No one has no name.
LEMMA NoOneIsNamed == None \notin AccountNames
BY RequestsAssumption, AccountsAssumption DEF AccountNames

\* Whoever set a token has ended, and stays as it is.
LEMMA GiverStays ==
  ASSUME NEW r \in Requests, Moved(r), NEW w \in Requests, NEW u, GivesToken(w, u)
  PROVE  /\ GivesToken(w, u)' /\ TokenGiven(w)' = TokenGiven(w)
         /\ w # r /\ pc[w] \in Final
<1>1. w # r /\ pc[w] \in Final
  BY OthersStay DEF GivesToken, Final
<1>2. pc'[w] = pc[w] /\ local'[w] = local[w]
  BY <1>1, OthersStay
<1> QED
  BY <1>1, <1>2 DEF GivesToken, TokenGiven, Asked

\* Nothing that had ended changes what token was given last.
LEMMA LatestStays ==
  ASSUME NEW r \in Requests, Moved(r), NEW S \in SUBSET Requests, NEW u, NEW t,
         LatestIn(S, u, t), \A q \in S : pc[q] \in Final
  PROVE  LatestIn(S, u, t)'
<1>1. PICK w \in S : /\ GivesToken(w, u) /\ TokenGiven(w) = t
                     /\ ~\E q \in S : pc[q] = "ok" /\ GivesToken(q, u) /\ w \in before[q]
  BY DEF LatestIn
<1>2. GivesToken(w, u)' /\ TokenGiven(w)' = t
  BY <1>1, GiverStays
<1>3. r \notin S
  BY OthersStay
<1>4. \A q \in S : pc'[q] = pc[q] /\ local'[q] = local[q] /\ before'[q] = before[q]
  BY <1>3, OthersStay
<1>5. \A q \in S : GivesToken(q, u)' <=> GivesToken(q, u)
  BY <1>4 DEF GivesToken, Asked
<1> QED
  BY <1>1, <1>2, <1>4, <1>5 DEF LatestIn

\* A reset keeps the token it came with.
LEMMA ResetsKept ==
  ASSUME DirHere, NEW r \in Requests, Moved(r), TokenInv, NEW s \in Requests,
         Asked(s, "reset")', pc'[s] # "error"
  PROVE  LatestIn(before[s], local[s].user, local[s].token)'
<1>0. \A q \in Requests : before[q] \in SUBSET Requests /\ \A p \in before[q] : pc[p] \in Final
  BY DEF DirHere, Here
<1>1. ASSUME Asked(s, "reset"), pc[s] # "error", before'[s] = before[s],
             local'[s].user = local[s].user, local'[s].token = local[s].token
      PROVE  LatestIn(before[s], local[s].user, local[s].token)'
  <2>1. LatestIn(before[s], local[s].user, local[s].token)
    BY <1>1 DEF TokenInv
  <2>2. PICK S \in SUBSET Requests, u \in {local[s].user}, t \in {local[s].token} :
            S = before[s] /\ u = local[s].user /\ t = local[s].token
    BY <1>0
  <2>3. LatestIn(S, u, t)'
    BY <1>0, <2>1, <2>2, LatestStays
  <2> QED
    BY <1>1, <2>2, <2>3 DEF LatestIn
<1>2. CASE s # r
  <2>1. pc'[s] = pc[s] /\ local'[s] = local[s] /\ before'[s] = before[s]
    BY <1>2, OthersStay
  <2> QED
    BY <1>1, <2>1 DEF Asked
<1>3. CASE s = r /\ InFlight(r)
  <2>1. /\ local'[r].op = local[r].op
        /\ local[r].op \in UserOps => local'[r].user = local[r].user
        /\ local[r].op \in TokenOps => local'[r].token = local[r].token
    BY <1>3, GoneOn
  <2>2. before'[r] = before[r] /\ pc[r] # "error"
    BY <1>3, OthersStay DEF InFlight, Final
  <2> QED
    BY <1>1, <1>3, <2>1, <2>2 DEF Asked, UserOps, TokenOps, PasswordOps
<1>4. CASE s = r /\ ~InFlight(r)
  <2>1. PICK l : /\ Known(r, pc'[r], l) /\ l.op = local'[r].op
                 /\ l.op \in UserOps => local'[r].user = l.user
                 /\ l.op \in TokenOps => local'[r].token = l.token
    BY <1>4, Arrived
  <2>2. /\ l.op = "reset" /\ local'[r].user = l.user /\ local'[r].token = l.token
        /\ l.token \in Requests /\ l.user \in TokenHolders(l.token)
    BY <1>4, <2>1 DEF Asked, Known, UserOps, TokenOps, PasswordOps
  <2>3. PICK u \in AccountNames, t \in Requests : /\ u = l.user /\ t = l.token
                                                  /\ accounts[u].reset = t
    BY <2>2 DEF TokenHolders
  <2>4. LatestIn(Requests, u, t)
    BY <2>3, RequestsAssumption DEF TokenInv
  <2>5. PICK S \in SUBSET Requests : S = before'[r] /\ S = {q \in Requests : pc[q] \in Final}
    <3>1. before'[r] = {q \in Requests : pc[q] \in Final}
      BY <1>4, Arrived, OthersStay
    <3> QED
      BY <3>1
  <2>6. LatestIn(S, u, t)
    BY <2>4, <2>5, GiverStays DEF LatestIn
  <2>7. LatestIn(S, u, t)'
    BY <2>5, <2>6, LatestStays
  <2> QED
    BY <1>4, <2>2, <2>3, <2>5, <2>7 DEF LatestIn
<1> QED
  BY <1>2, <1>3, <1>4

\* Whoever gave a token and was answered has stored it.
LEMMA AnsweredStored ==
  ASSUME DirHere, NEW r \in Requests, Moved(r), Acts(r), NEW u \in AccountNames,
         GivesToken(r, u)', pc'[r] = "ok"
  PROVE  InFlight(r) /\ accounts'[u].reset = TokenGiven(r)'
<1>0. local'[r].op \in {"forgot", "updateUser"} /\ local'[r].user = u
  BY DEF GivesToken, Asked
<1>1. InFlight(r)
  <2> SUFFICES ASSUME ~InFlight(r) PROVE FALSE
    OBVIOUS
  <2>1. PICK l : /\ Known(r, pc'[r], l) /\ l.op = local'[r].op
                 /\ l.op \in UserOps => local'[r].user = l.user
    BY Arrived
  <2>2. l.op = "forgot" /\ l.user = None /\ u = l.user
    BY <1>0, <2>1 DEF Known, UserOps, TokenOps
  <2> QED
    BY <2>2, NoOneIsNamed
<1>2. /\ local'[r].op = local[r].op /\ (local[r].op \in UserOps => local'[r].user = local[r].user)
      /\ Edge(r, pc'[r])
  BY <1>1, GoneOn
<1>3. local[r].op \in {"forgot", "updateUser"} /\ local[r].user = u
  BY <1>0, <1>2 DEF UserOps, TokenOps
<1>4. accounts \in [AccountNames -> AccountDoc] /\ pc \in [Requests -> DirLabels \cup Final \cup {"idle"}]
  BY DEF DirHere, AccountTypeOK, Here
<1>5. CASE Asked(r, "forgot")
  <2>1. pc[r] = "tokenSet"
    BY <1>1, <1>5, InFlightFits DEF Fits, Calls, Asked, MethodOps
  <2>2. SetToken(r)
    BY <2>1, Writers DEF Written
  <2>3. accounts' = [accounts EXCEPT ![u] = [accounts[u] EXCEPT !.reset = r, !.expired = FALSE]]
    BY <1>3, <1>4, <2>2 DEF SetToken, SetAccount, Goto, Continue
  <2>4. accounts'[u].reset = r
    BY <1>4, <2>3 DEF AccountDoc
  <2> QED
    BY <1>1, <1>2, <1>5, <2>4 DEF TokenGiven, Asked
<1>6. CASE Asked(r, "updateUser")
  <2>1. pc[r] \in {"userCheck", "userSet"}
    BY <1>1, <1>6, InFlightFits DEF Fits, Calls, Asked, MethodOps
  <2>2. pc[r] = "userSet"
    BY <1>2, <2>1 DEF Edge
  <2>3. SetUser(r)
    BY <2>2, Writers DEF Written
  <2>4. accounts' = [accounts EXCEPT ![u] = With(accounts[u], local[r].changes)]
    BY <1>3, <1>4, <2>3 DEF SetUser, SetAccount, Goto, Continue
  <2>5. local'[r].changes = local[r].changes /\ Asked(r, "updateUser")' /\ ~Asked(r, "forgot")'
    BY <1>2, <1>6, UpdateStays DEF Asked
  <2>6. "reset" \in DOMAIN local[r].changes
    BY <2>5 DEF GivesToken
  <2>7. accounts'[u].reset = local[r].changes.reset
    BY <1>4, <2>4, <2>6 DEF AccountDoc, With
  <2> QED
    BY <1>1, <2>5, <2>7 DEF TokenGiven
<1> QED
  BY <1>3, <1>5, <1>6 DEF Asked

\* Whoever stores a token has given it.
LEMMA StorersGive ==
  ASSUME DirHere, NEW r \in Requests, Moved(r), Acts(r), AccountsDo(r), NEW u \in AccountNames,
         accounts'[u].reset # accounts[u].reset, accounts'[u].reset # None
  PROVE  InFlight(r) /\ GivesToken(r, u)' /\ accounts'[u].reset = TokenGiven(r)'
<1>0. pc \in [Requests -> DirLabels \cup Final \cup {"idle"}]
  BY DEF DirHere, Here
<1>1. \/ SetToken(r) /\ u = local[r].user /\ accounts'[u].reset = r
      \/ Gives(r, u, "reset") /\ accounts'[u].reset = local[r].changes.reset
  BY DEF AccountsDo, AccountInserted, AccountEdited
<1>2. CASE SetToken(r) /\ u = local[r].user /\ accounts'[u].reset = r
  <2>1. InFlight(r) /\ Asked(r, "forgot")
    BY <1>2, Callers DEF SetToken, DirHere, RequestsFit, CallersAre, InFlight, Final
  <2>2. pc'[r] \in {"ok", "failed"}
    BY <1>0, <1>2 DEF SetToken, SetAccount, Goto, Continue
  <2>3. Asked(r, "forgot")' /\ local'[r].user = u
    BY <1>2, <2>1, GoneOn DEF Asked, UserOps, TokenOps
  <2> QED
    BY <1>2, <2>1, <2>2, <2>3 DEF GivesToken, TokenGiven
<1>3. CASE Gives(r, u, "reset") /\ accounts'[u].reset = local[r].changes.reset
  <2>1. InFlight(r) /\ Asked(r, "updateUser") /\ local[r].user = u
    BY <1>3 DEF Gives, SetUser, InFlight, Final
  <2>2. pc'[r] \in {"ok", "failed"}
    BY <1>0, <1>3 DEF Gives, SetUser, SetAccount, Goto, Continue
  <2>3. /\ Asked(r, "updateUser")' /\ local'[r].user = u /\ ~Asked(r, "forgot")'
        /\ local'[r].changes = local[r].changes
    BY <2>1, UpdateStays DEF Asked
  <2> QED
    BY <1>3, <2>1, <2>2, <2>3 DEF Gives, GivesToken, TokenGiven
<1> QED
  BY <1>1, <1>2, <1>3

\* A stored token stays the last one that was given.
LEMMA TokensKept ==
  ASSUME DirHere, NEW r \in Requests, Moved(r), Acts(r), AccountsDo(r), TokenInv
  PROVE  TokenInv'
<1>1. ASSUME NEW u \in AccountNames, accounts'[u].reset # None
      PROVE  LatestIn(Requests, u, accounts[u].reset)'
  <2>1. CASE InFlight(r) /\ GivesToken(r, u)' /\ accounts'[u].reset = TokenGiven(r)'
    <3>1. \A q \in Requests : r \notin before[q] /\ before'[q] = before[q]
      BY <2>1, OthersStay DEF DirHere, Here, InFlight
    <3> QED
      BY <2>1, <3>1 DEF LatestIn
  <2>2. CASE accounts'[u].reset = accounts[u].reset /\ ~(GivesToken(r, u)' /\ pc'[r] = "ok")
    <3>1. LatestIn(Requests, u, accounts[u].reset)
      BY <1>1, <2>2 DEF TokenInv
    <3>2. PICK w \in Requests :
            /\ GivesToken(w, u) /\ TokenGiven(w) = accounts[u].reset
            /\ ~\E q \in Requests : pc[q] = "ok" /\ GivesToken(q, u) /\ w \in before[q]
      BY <3>1 DEF LatestIn
    <3>3. GivesToken(w, u)' /\ TokenGiven(w)' = accounts'[u].reset
      BY <2>2, <3>2, GiverStays
    <3>4. ASSUME NEW q \in Requests, pc'[q] = "ok", GivesToken(q, u)', w \in before'[q]
          PROVE  FALSE
      <4>1. q # r
        BY <2>2, <3>4
      <4>2. pc'[q] = pc[q] /\ local'[q] = local[q] /\ before'[q] = before[q]
        BY <4>1, OthersStay
      <4> QED
        BY <3>2, <3>4, <4>2 DEF GivesToken, Asked
    <3> QED
      BY <3>3, <3>4 DEF LatestIn
  <2> QED
    BY <1>1, <2>1, <2>2, AnsweredStored, StorersGive
<1> QED
  BY <1>1, ResetsKept DEF TokenInv

(***************************************************************************)
(* The logos.                                                               *)
(***************************************************************************)
\* A file is a logo of one company, and not a photo.
LEMMA FilesApart ==
  ASSUME RequestsFit, NEW f, NEW c \in CompanyNames, LogoOf(f, c)
  PROVE  /\ f # None
         /\ \A d \in CompanyNames : LogoOf(f, d) => d = c
         /\ \A u \in AccountNames : ~PhotoOf(f, u)
         /\ f \in Requests => pc[f] \notin {"logoUpload", "logoSet", "photoUpload", "photoSet"}
<1>1. CASE f \in Requests
  <2>1. f \notin EarlierFiles
    BY <1>1, FilesAssumption
  <2>2. Asked(f, "updateLogo") /\ local[f].company = c /\ pc[f] \notin {"logoUpload", "logoSet"}
    BY <2>1 DEF LogoOf
  <2>3. pc[f] \notin {"photoUpload", "photoSet"}
    BY <1>1, <2>2, Callers DEF CallersAre, Asked
  <2> QED
    BY <1>1, <2>1, <2>2, <2>3, RequestsAssumption DEF LogoOf, PhotoOf, Asked
<1>2. CASE f \notin Requests
  BY <1>2, FilesAssumption, AccountsAssumption DEF LogoOf, PhotoOf
<1> QED
  BY <1>1, <1>2

\* Nor is a photo of one user another's.
LEMMA PhotosApart ==
  ASSUME RequestsFit, NEW f, NEW u \in AccountNames, PhotoOf(f, u)
  PROVE  /\ f # None
         /\ \A v \in AccountNames : PhotoOf(f, v) => v = u
         /\ f \in Requests => pc[f] \notin {"logoUpload", "logoSet", "photoUpload", "photoSet"}
<1>1. CASE f \in Requests
  <2>1. f \notin EarlierFiles
    BY <1>1, FilesAssumption
  <2>2. Asked(f, "updatePhoto") /\ local[f].user = u /\ pc[f] \notin {"photoUpload", "photoSet"}
    BY <2>1 DEF PhotoOf
  <2>3. pc[f] \notin {"logoUpload", "logoSet"}
    BY <1>1, <2>2, Callers DEF CallersAre, Asked
  <2> QED
    BY <1>1, <2>1, <2>2, <2>3, RequestsAssumption DEF PhotoOf
<1>2. CASE f \notin Requests
  BY <1>2, FilesAssumption DEF PhotoOf
<1> QED
  BY <1>1, <1>2

\* Whoever asks something that r asks, and is r, is in flight.
LEMMA AskedStays ==
  ASSUME DirHere, NEW r \in Requests, Moved(r), NEW p \in Requests, pc[p] # "idle"
  PROVE  /\ local'[p].op = local[p].op /\ before'[p] = before[p] /\ pc'[p] # "idle"
         /\ local[p].op \in CompanyOps => local'[p].company = local[p].company
         /\ local[p].op \in UserOps => local'[p].user = local[p].user
         /\ pc[p] \in Final => pc'[p] = pc[p]
<1>1. CASE p # r
  BY <1>1, OthersStay
<1>2. CASE p = r
  <2>1. InFlight(r) /\ before'[r] = before[r] /\ pc'[r] # "idle" /\ pc[r] \notin Final
    BY <1>2, OthersStay DEF InFlight
  <2> QED
    BY <1>2, <2>1, GoneOn
<1> QED
  BY <1>1, <1>2

\* A request that asks something is not idle.
LEMMA AskersAreThere ==
  ASSUME DirHere, NEW r \in Requests, local[r].op \in DirOps
  PROVE  pc[r] # "idle"
BY DEF DirHere, Here, Asked, DirOps, CompanyOps, UserOps, MethodOps, TokenOps, PhotoOps, PasswordOps,
       LogoOps

\* A logo of c stays one.
LEMMA LogoOfStays ==
  ASSUME DirHere, NEW r \in Requests, Moved(r), NEW f, NEW c \in CompanyNames, LogoOf(f, c)
  PROVE  LogoOf(f, c)'
<1>1. CASE f = c /\ c \in EarlierCompanies \cap EarlierFiles
  BY <1>1 DEF LogoOf
<1>2. CASE f \in Requests /\ Asked(f, "updateLogo") /\ local[f].company = c
           /\ pc[f] \notin {"logoUpload", "logoSet"}
  <2>1. local[f].op \in DirOps /\ local[f].op \in CompanyOps
    BY <1>2 DEF Asked, DirOps, CompanyOps, LogoOps
  <2>2. pc[f] # "idle"
    BY <1>2, <2>1, AskersAreThere
  <2>3. local'[f].op = "updateLogo" /\ local'[f].company = c
    BY <1>2, <2>1, <2>2, AskedStays DEF Asked
  <2>4. pc'[f] \notin {"logoUpload", "logoSet"}
    <3>1. CASE f # r
      BY <1>2, <3>1, OthersStay
    <3>2. CASE f = r
      <4>1. InFlight(r)
        BY <2>2, <3>2, OthersStay DEF InFlight
      <4>2. Edge(r, pc'[r]) /\ CallersAre(r)
        BY <4>1, GoneOn, Callers DEF DirHere, RequestsFit
      <4> QED
        BY <1>2, <3>2, <4>2 DEF Edge, AfterInsert, CallersAre
    <3> QED
      BY <3>1, <3>2
  <2> QED
    BY <1>2, <2>3, <2>4 DEF LogoOf, Asked
<1> QED
  BY <1>1, <1>2 DEF LogoOf

\* Who overlapped a change of the status did so for ever.
LEMMA OverlapStays ==
  ASSUME DirHere, NEW r \in Requests, Moved(r), NEW p \in Requests, pc[p] # "idle",
         NEW c, Overlapped(p, c)
  PROVE  Overlapped(p, c)'
<1>1. PICK q \in Requests : /\ Asked(q, "companyStatus") /\ local[q].company = c
                            /\ q \notin before[p] /\ p \notin before[q]
  BY DEF Overlapped
<1>2. local[q].op \in DirOps /\ local[q].op \in CompanyOps
  BY <1>1 DEF Asked, DirOps, CompanyOps
<1>3. pc[q] # "idle"
  BY <1>2, AskersAreThere
<1>4. local'[q].op = local[q].op /\ local'[q].company = c /\ before'[q] = before[q]
      /\ before'[p] = before[p]
  BY <1>1, <1>2, <1>3, AskedStays
<1> QED
  BY <1>1, <1>4 DEF Overlapped, Asked

\* A company stays there, unless r changes its status.
LEMMA CompanyStays ==
  ASSUME NEW r \in Requests, CompaniesDo(r), NEW c \in CompanyNames, CompanyIsHere(c)
  PROVE  \/ CompanyIsHere(c)'
         \/ ChangeCompanyStatus(r) /\ local'[r].op = "companyStatus" /\ c = local'[r].company
<1>1. CASE companies'[c] = companies[c]
  BY <1>1 DEF CompanyIsHere
<1>2. CASE CompanyInserted(r, c)
  BY <1>2 DEF CompanyInserted, CompanyIsHere
<1>3. CASE CompanyEdited(r, c)
  BY <1>3 DEF CompanyEdited, CompanyIsHere
<1> QED
  BY <1>1, <1>2, <1>3 DEF CompaniesDo

\* What becomes of a logo.
LogoDoes(r, c) ==
    \/ companies'[c].logo = companies[c].logo
    \/ companies'[c].logo = None
    \/ NamedBy(r, companies'[c].logo)
    \/ /\ SetLogo(r) /\ c = local[r].company /\ companies'[c].logo = r
       /\ pc[r] = "logoSet" /\ UNCHANGED files

\* It stays, is unset, or is the one that r gave or uploaded.
LEMMA LogosDo ==
  ASSUME NEW r \in Requests, CompaniesDo(r), NEW c \in CompanyNames
  PROVE  LogoDoes(r, c)
<1>1. SetLogo(r) => pc[r] = "logoSet" /\ UNCHANGED files
  BY DEF SetLogo
<1> QED
  BY <1>1 DEF CompaniesDo, CompanyInserted, CompanyEdited, LogoDoes

\* No company gets the logo of another.
LEMMA LogosOwnedKept ==
  ASSUME DirHere, NEW r \in Requests, Moved(r), CompaniesDo(r), LogosOwned
  PROVE  LogosOwned'
<1>0. CallersAre(r)
  BY Callers DEF DirHere, RequestsFit
<1>1. ASSUME NEW c \in CompanyNames, companies'[c].logo # None
      PROVE  (LogoOf(companies[c].logo, c) \/ Named(companies[c].logo))'
  <2>1. CASE companies'[c].logo = companies[c].logo
    <3>1. PICK f : f = companies[c].logo /\ (LogoOf(f, c) \/ Named(f))
      BY <1>1, <2>1 DEF LogosOwned
    <3>2. LogoOf(f, c)' \/ Named(f)'
      BY <3>1, LogoOfStays, NamedStays
    <3> QED
      BY <2>1, <3>1, <3>2 DEF LogoOf, Named, NamedBy
  <2>3. CASE NamedBy(r, companies'[c].logo)
    <3>1. PICK f : f = companies'[c].logo /\ NamedBy(r, f)
      BY <2>3
    <3>2. Named(f)'
      BY <3>1, NamedFromNow
    <3> QED
      BY <3>1, <3>2 DEF Named, NamedBy
  <2>2. CASE SetLogo(r) /\ c = local[r].company /\ companies'[c].logo = r /\ pc[r] = "logoSet"
    <3>1. InFlight(r) /\ Asked(r, "updateLogo")
      BY <1>0, <2>2 DEF InFlight, Final, CallersAre
    <3>2. Edge(r, pc'[r]) /\ local'[r].op = "updateLogo" /\ local'[r].company = c
      BY <2>2, <3>1, GoneOn DEF Asked, CompanyOps, LogoOps
    <3>3. pc'[r] \notin {"logoUpload", "logoSet"}
      BY <2>2, <3>2 DEF Edge
    <3> QED
      BY <2>2, <3>2, <3>3 DEF LogoOf, Asked
  <2> QED
    BY <1>1, <2>1, <2>2, <2>3, LogosDo DEF LogoDoes
<1>2. ASSUME NEW p \in Requests, InFlight(p)', local'[p].op \in LogoOps, local'[p].old # None
      PROVE  (LogoOf(local[p].old, local[p].company) \/ Named(local[p].old))'
  <2>1. \E c \in CompanyNames : \E f :
            f = local'[p].old /\ c = local'[p].company /\ (LogoOf(f, c) \/ Named(f))
    <3>1. CASE p # r \/ InFlight(r)
      <4>1. pc[p] # "idle" /\ InFlight(p) /\ local'[p] = local[p]
        <5>1. CASE p # r
          BY <1>2, <5>1, OthersStay DEF InFlight
        <5>2. CASE p = r
          BY <1>2, <3>1, <5>2, GoneOn DEF InFlight
        <5> QED
          BY <5>1, <5>2
      <4>2. local[p].company \in CompanyNames
        BY <1>2, <4>1, InFlightFits DEF Fits, CompanyOps
      <4> QED
        BY <1>2, <4>1, <4>2 DEF LogosOwned
    <3>2. CASE p = r /\ ~InFlight(r)
      <4>1. PICK l : /\ Known(r, pc'[r], l) /\ Fits(pc'[r], l) /\ l.op = local'[r].op
                     /\ pc'[r] \notin Final => local'[r] = l
        BY <3>2, Arrived
      <4>2. pc'[r] \notin Final /\ local'[r] = l /\ l.op \in LogoOps
        BY <1>2, <3>2, <4>1 DEF InFlight
      <4>3. l.company \in CompanyNames /\ l.old = companies[l.company].logo
        BY <4>1, <4>2 DEF Fits, Known, CompanyOps
      <4> QED
        BY <1>2, <3>2, <4>2, <4>3 DEF LogosOwned
    <3> QED
      BY <3>1, <3>2
  <2>2. PICK c \in CompanyNames : \E f :
            f = local'[p].old /\ c = local'[p].company /\ (LogoOf(f, c) \/ Named(f))
    BY <2>1
  <2>3. PICK f : f = local'[p].old /\ c = local'[p].company /\ (LogoOf(f, c) \/ Named(f))
    BY <2>2
  <2>4. LogoOf(f, c)' \/ Named(f)'
    BY <2>3, LogoOfStays, NamedStays
  <2> QED
    BY <2>3, <2>4 DEF LogoOf, Named, NamedBy
<1> QED
  BY <1>1, <1>2 DEF LogosOwned

\* Whose file r deletes: a logo's, a photo's, or one that was named.
DeletesLogo(r) ==
    /\ pc[r] = "logoDelete" /\ files' \in {files, files \ {local[r].old}}
    /\ UNCHANGED <<companies, accounts>>
    /\ local[r].op \in LogoOps /\ local[r].company \in CompanyNames
    /\ LogoOf(local[r].old, local[r].company) \/ Named(local[r].old)
DeletesPhoto(r) ==
    /\ pc[r] = "photoDelete" /\ files' \in {files, files \ {local[r].old}}
    /\ UNCHANGED <<companies, accounts>>
    /\ local[r].op \in PhotoOps /\ local[r].user \in AccountNames
    /\ PhotoOf(local[r].old, local[r].user) \/ Named(local[r].old)
Stores(r) ==
    /\ pc[r] \in {"logoUpload", "photoUpload"} /\ files' = files \cup {r}
    /\ UNCHANGED <<companies, accounts>>
\* What a step of r does to the files.
FilesDo(r) == DeletesLogo(r) \/ DeletesPhoto(r) \/ Stores(r) \/ UNCHANGED files

\* A step of r stores its file, deletes a picture, or leaves the files.
LEMMA FilesChange ==
  ASSUME DirHere, NEW r \in Requests, Acts(r), LogosOwned, PhotosOwned,
         LogoAsked(r), PhotoAsked(r)
  PROVE  FilesDo(r)
<1>0. CallersAre(r)
  BY Callers DEF DirHere, RequestsFit
<1>1. CASE UploadLogo(r) /\ UNCHANGED <<companies, accounts>>
  BY <1>1 DEF UploadLogo, Upload, FilesDo, Stores
<1>2. CASE UploadPhoto(r) /\ UNCHANGED <<companies, accounts>>
  BY <1>2 DEF UploadPhoto, Upload, FilesDo, Stores
<1>3. CASE DeleteLogoFile(r) /\ UNCHANGED <<companies, accounts>>
  <2>1. pc[r] = "logoDelete" /\ files' \in {files, files \ {local[r].old}}
    BY <1>3 DEF DeleteLogoFile, DeleteFile, OldLogo
  <2>2. InFlight(r) /\ local[r].op \in LogoOps
    BY <1>0, <2>1 DEF InFlight, Final, CallersAre
  <2>3. local[r].company \in CompanyNames
    BY <2>2, InFlightFits DEF Fits, CompanyOps
  <2>4. LogoOf(local[r].old, local[r].company) \/ Named(local[r].old)
    BY <2>1, <2>2 DEF LogosOwned, LogoAsked
  <2> QED
    BY <1>3, <2>1, <2>2, <2>3, <2>4 DEF FilesDo, DeletesLogo
<1>4. CASE DeletePhotoFile(r) /\ UNCHANGED <<companies, accounts>>
  <2>1. pc[r] = "photoDelete" /\ files' \in {files, files \ {local[r].old}}
    BY <1>4 DEF DeletePhotoFile, DeleteFile, OldPhoto
  <2>2. InFlight(r) /\ local[r].op \in PhotoOps
    BY <1>0, <2>1 DEF InFlight, Final, CallersAre
  <2>3. local[r].user \in AccountNames
    BY <2>2, InFlightFits DEF Fits, UserOps, PhotoOps
  <2>4. PhotoOf(local[r].old, local[r].user) \/ Named(local[r].old)
    BY <2>1, <2>2 DEF PhotosOwned, PhotoAsked
  <2> QED
    BY <1>4, <2>1, <2>2, <2>3, <2>4 DEF FilesDo, DeletesPhoto
<1>5. CASE UNCHANGED files
  BY <1>5 DEF FilesDo
<1> QED
  BY <1>1, <1>2, <1>3, <1>4, <1>5
     DEF Acts, ActsOnCompanies, ActsOnFiles, ActsOnAccounts, ActsOnSpeakers, ActsOnMethods, Reads

\* A file that is not stored as a picture yet is kept, unless somebody named it.
LEMMA NewFilesStay ==
  ASSUME DirHere, NEW r \in Requests, FilesDo(r), NEW p \in Requests, p \in files,
         pc[p] \in {"logoSet", "photoSet"}, ~Named(p)
  PROVE  p \in files'
<1>0. RequestsFit
  BY DEF DirHere, RequestsFit
<1>1. CASE DeletesLogo(r)
  <2>1. p # local[r].old
    BY <1>0, <1>1, FilesApart DEF DeletesLogo
  <2> QED
    BY <1>1, <2>1 DEF DeletesLogo
<1>2. CASE DeletesPhoto(r)
  <2>1. p # local[r].old
    BY <1>0, <1>2, PhotosApart DEF DeletesPhoto
  <2> QED
    BY <1>2, <2>1 DEF DeletesPhoto
<1> QED
  BY <1>1, <1>2 DEF FilesDo, Stores

\* A request on a logo knows what it knew.
LEMMA LogoAskedKept ==
  ASSUME DirHere, NEW r \in Requests, Moved(r), Acts(r), CompaniesDo(r), FilesDo(r),
         LogosOwned, \A p \in Requests : LogoAsked(p), NEW p \in Requests
  PROVE  LogoAsked(p)'
<1>0. CallersAre(r) /\ CallersAre(p) /\ RequestsFit
  BY Callers DEF DirHere, RequestsFit
<1>1. ASSUME InFlight(p), local[p].op \in LogoOps, NEW c \in CompanyNames, c = local[p].company,
             CompanyIsHere(c) \/ Overlapped(p, c)
      PROVE  CompanyIsHere(c)' \/ Overlapped(p, c)'
  <2>1. pc[p] # "idle"
    BY <1>1 DEF InFlight
  <2>2. CASE Overlapped(p, c)
    BY <2>1, <2>2, OverlapStays
  <2>3. CASE CompanyIsHere(c) /\ ChangeCompanyStatus(r) /\ local'[r].op = "companyStatus"
             /\ c = local'[r].company
    <3>1. pc[r] = "idle"
      BY <2>3 DEF ChangeCompanyStatus, Start
    <3>2. before'[r] = {q \in Requests : pc[q] \in Final} /\ before'[p] = before[p]
      BY <2>1, <3>1, OthersStay
    <3>3. r \notin before'[p]
      BY <3>1, <3>2 DEF DirHere, Here, Final
    <3>4. p \notin before'[r]
      BY <1>1, <3>2 DEF InFlight
    <3> QED
      BY <2>3, <3>3, <3>4 DEF Overlapped, Asked
  <2> QED
    BY <1>1, <2>2, <2>3, CompanyStays
<1>2. CASE p # r
  <2>1. pc'[p] = pc[p] /\ local'[p] = local[p]
    BY <1>2, OthersStay
  <2>2. CASE InFlight(p) /\ local[p].op \in LogoOps
    <3>1. PICK c \in CompanyNames : c = local[p].company
      BY <2>2, InFlightFits DEF Fits, CompanyOps
    <3>2. /\ CompanyIsHere(c) \/ Overlapped(p, c)
          /\ pc[p] = "logoDelete" /\ Asked(p, "updateLogo") =>
                companies[c].logo # local[p].old \/ Overlapped(p, c) \/ Named(local[p].old)
          /\ pc[p] = "logoDelete" => local[p].old # None
          /\ pc[p] = "logoSet" => p \in files \/ Named(p)
      BY <2>2, <3>1 DEF LogoAsked
    <3>3. CompanyIsHere(c)' \/ Overlapped(p, c)'
      BY <1>1, <2>2, <3>1, <3>2
    <3>4. pc[p] = "logoSet" => p \in files' \/ Named(p)'
      BY <3>2, NewFilesStay, NamedStays
    <3>5. PICK f : f = local[p].old
      OBVIOUS
    <3>6. ASSUME pc[p] = "logoDelete", Asked(p, "updateLogo")
          PROVE  companies'[c].logo # f \/ Overlapped(p, c)' \/ Named(f)'
      <4>1. CASE Overlapped(p, c)
        BY <3>6, <4>1, OverlapStays
      <4>2. CASE Named(f) \/ NamedBy(r, f)
        BY <4>2, NamedStays, NamedFromNow
      <4>3. CASE companies[c].logo # f /\ ~Named(f) /\ ~NamedBy(r, f)
        <5>1. LogoOf(f, c)
          BY <2>2, <3>1, <3>2, <3>5, <3>6, <4>3 DEF LogosOwned
        <5>2. f # None /\ (pc[r] = "logoSet" => f # r)
          BY <1>0, <5>1, FilesApart
        <5>3. LogoDoes(r, c)
          BY LogosDo
        <5> QED
          BY <4>3, <5>2, <5>3 DEF LogoDoes
      <4> QED
        BY <3>2, <3>5, <3>6, <4>1, <4>2, <4>3
    <3>7. local'[p].company = c /\ local'[p].old = f
      BY <2>1, <3>1, <3>5
    <3>8. Named(f)' => Named(local[p].old)'
      BY <3>7 DEF Named, NamedBy
    <3> QED
      BY <2>1, <3>2, <3>3, <3>4, <3>6, <3>7, <3>8 DEF LogoAsked, Asked, CompanyIsHere, Overlapped
  <2>3. CASE ~(InFlight(p) /\ local[p].op \in LogoOps)
    <3>1. pc[p] \notin {"logoSet", "logoDelete"}
      BY <1>0, <2>3 DEF CallersAre, InFlight, Final, Asked, LogoOps
    <3> QED
      BY <2>1, <2>3, <3>1 DEF LogoAsked, InFlight
  <2> QED
    BY <2>2, <2>3
<1>3. CASE p = r /\ ~InFlight(r)
  <2>1. PICK l : /\ Known(r, pc'[r], l) /\ Fits(pc'[r], l) /\ l.op = local'[r].op
                 /\ pc'[r] \notin Final => local'[r] = l
    BY <1>3, Arrived
  <2>2. pc'[r] # "logoSet"
    BY <2>1 DEF Known, Final
  <2>3. pc[r] = "idle"
    BY <1>3, Arrived
  <2>4. ASSUME InFlight(r)', local'[r].op \in LogoOps
        PROVE  CompanyIsHere(local[r].company)'
    <3>1. pc'[r] \notin Final /\ local'[r] = l /\ l.op \in LogoOps
      BY <2>1, <2>4 DEF InFlight
    <3>2. l.company \in CompanyNames /\ CompanyIsHere(l.company)
      BY <2>1, <3>1 DEF Fits, Known, CompanyOps
    <3>3. PICK c \in CompanyNames : c = l.company /\ CompanyIsHere(c)
      BY <3>2
    <3>4. CompanyIsHere(c)'
      BY <2>4, <3>3, CompanyStays DEF LogoOps
    <3> QED
      BY <3>1, <3>3, <3>4 DEF CompanyIsHere
  <2>5. pc'[r] = "logoDelete" => local'[r].op # "updateLogo" /\ local'[r].old # None
    <3>1. ASSUME pc'[r] = "logoDelete"
          PROVE  l.op \in LogoOps /\ local'[r] = l
      <4>1. "logoDelete" \notin Final
        BY DEF Final
      <4>3. l.op \in LogoOps
        <5>1. pc'[r] \in Calls(l.op) /\ l.op \in DirOps
          BY <2>1, <3>1, <4>1 DEF Fits
        <5> QED
          BY <3>1, <5>1 DEF Calls, DirOps, CompanyOps, UserOps, MethodOps, TokenOps, PhotoOps,
                            PasswordOps, LogoOps
      <4> QED
        BY <2>1, <3>1, <4>1, <4>3
    <3>2. pc'[r] = "logoDelete" => l.op = "deleteLogo" /\ l.old # None
      BY <2>1, <3>1 DEF Known, Final
    <3> QED
      BY <3>1, <3>2
  <2> QED
    BY <1>3, <2>2, <2>4, <2>5 DEF LogoAsked, Asked
<1>4. CASE p = r /\ InFlight(r)
  <2>1. /\ Edge(r, pc'[r]) /\ local'[r].op = local[r].op
        /\ pc'[r] \notin Final => local'[r] = local[r]
        /\ local[r].op \in CompanyOps => local'[r].company = local[r].company
    BY <1>4, GoneOn
  <2>2. pc'[r] = "logoSet" => r \in files'
    <3>1. pc'[r] = "logoSet" => pc[r] = "logoUpload"
      BY <1>0, <2>1 DEF Edge, AfterInsert, CallersAre
    <3>2. pc'[r] = "logoSet" => UploadLogo(r)
      BY <3>1, Writers DEF Written
    <3> QED
      BY <3>2 DEF UploadLogo, Upload
  <2>3. CASE local[r].op \in LogoOps
    <3>1. PICK c \in CompanyNames : c = local[r].company
      BY <1>4, <2>3, InFlightFits DEF Fits, CompanyOps
    <3>2. CompanyIsHere(c) \/ Overlapped(r, c)
      BY <1>4, <2>3, <3>1 DEF LogoAsked
    <3>3. CompanyIsHere(c)' \/ Overlapped(r, c)'
      BY <1>1, <1>4, <2>3, <3>1, <3>2
    <3>4. local'[r].company = c
      BY <2>1, <2>3, <3>1 DEF CompanyOps
    <3>5. ASSUME pc'[r] = "logoDelete"
          PROVE  /\ local'[r].old # None
                 /\ \/ companies'[c].logo # local'[r].old \/ Overlapped(r, c)'
                    \/ Named(local[r].old)'
      <4>1. pc[r] = "logoSet" /\ local[r].old # None /\ local'[r] = local[r]
        BY <1>0, <2>1, <3>5 DEF Edge, AfterInsert, CallersAre, Final
      <4>2. PICK f : f = local[r].old
        OBVIOUS
      <4>3. CASE Overlapped(r, c)
        BY <4>1, <4>3, OverlapStays
      <4>4. CASE Named(f)
        <5>1. Named(f)'
          BY <4>4, NamedStays
        <5> QED
          BY <4>1, <4>2, <5>1 DEF Named, NamedBy
      <4>5. CASE CompanyIsHere(c) /\ ~Named(f)
        <5>1. SetLogo(r)
          BY <3>5, <4>1, Writers DEF Written
        <5>2. companies'[c].logo = r
          BY <3>1, <4>5, <5>1 DEF SetLogo, DirHere, CompanyTypeOK, CompanyDoc
        <5>3. LogoOf(f, c)
          BY <1>4, <2>3, <3>1, <4>1, <4>2, <4>5 DEF LogosOwned
        <5>4. f # r
          BY <1>0, <4>1, <5>3, FilesApart
        <5> QED
          BY <4>1, <4>2, <5>2, <5>4
      <4> QED
        BY <3>2, <4>1, <4>3, <4>4, <4>5
    <3> QED
      BY <2>2, <3>3, <3>4, <3>5, <1>4 DEF LogoAsked, Asked, CompanyIsHere, Overlapped
  <2>4. CASE local[r].op \notin LogoOps
    <3>1. pc'[r] \notin {"logoSet", "logoDelete"}
      <4>1. pc[r] \notin {"logoUpload", "logoSet"}
        BY <1>0, <2>4 DEF CallersAre, Asked, LogoOps
      <4> QED
        BY <1>0, <2>1, <4>1 DEF Edge, AfterInsert, CallersAre
    <3> QED
      BY <1>4, <2>1, <2>4, <3>1 DEF LogoAsked
  <2> QED
    BY <2>3, <2>4
<1> QED
  BY <1>2, <1>3, <1>4

\* What excuses a missing logo goes on to, unless it is about to unset it.
LEMMA ExcuseStays ==
  ASSUME DirHere, NEW r \in Requests, Moved(r), NEW p \in Requests, NEW c \in CompanyNames, NEW f,
         Excuses(p, c, f), p = r /\ pc[r] = "logoUnset" => Overlapped(r, c)
  PROVE  Excuses(p, c, f)'
<1>1. local[p].op \in LogoOps /\ local[p].op \in CompanyOps /\ local[p].op \in DirOps
  BY DEF Excuses, CompanyOps, DirOps
<1>2. pc[p] # "idle"
  BY <1>1, AskersAreThere
<1>3. /\ local'[p].op = local[p].op /\ local'[p].company = c
      /\ pc[p] \in Final => pc'[p] = pc[p]
  BY <1>1, <1>2, AskedStays DEF Excuses
<1>4. CASE pc[p] \in {"error", "failed"}
  BY <1>1, <1>3, <1>4 DEF Excuses, Final
<1>5. CASE Overlapped(p, c)
  <2>1. Overlapped(p, c)'
    BY <1>2, <1>5, OverlapStays
  <2> QED
    BY <1>1, <1>3, <2>1 DEF Excuses
<1>6. CASE p # r /\ pc[p] = "logoUnset" /\ local[p].old = f
  <2>1. pc'[p] = pc[p] /\ local'[p] = local[p]
    BY <1>6, OthersStay
  <2> QED
    BY <1>1, <1>3, <1>6, <2>1 DEF Excuses
<1> QED
  BY <1>4, <1>5, <1>6 DEF Excuses

\* The file of a logo is deleted by a request that excuses it.
LEMMA DeletionExcuses ==
  ASSUME DirHere, NEW r \in Requests, Moved(r), FilesDo(r), LogoAsked(r),
         NEW c \in CompanyNames, NEW f, f = companies[c].logo, LogoOf(f, c), ~Named(f),
         f \in files, f \notin files'
  PROVE  Excuses(r, c, f)'
<1>0. CallersAre(r) /\ RequestsFit
  BY Callers DEF DirHere, RequestsFit
<1>1. DeletesLogo(r) /\ f = local[r].old
  <2>1. ~DeletesPhoto(r) \/ f # local[r].old
    BY <1>0, FilesApart DEF DeletesPhoto
  <2> QED
    BY <2>1 DEF FilesDo, DeletesLogo, DeletesPhoto, Stores
<1>2. c = local[r].company /\ local[r].op \in LogoOps /\ pc[r] = "logoDelete"
  BY <1>0, <1>1, FilesApart DEF DeletesLogo
<1>3. InFlight(r) /\ pc[r] # "idle"
  BY <1>2 DEF InFlight, Final
<1>4. /\ Edge(r, pc'[r]) /\ local'[r].op = local[r].op /\ local'[r].company = c
      /\ pc'[r] \notin Final => local'[r] = local[r]
  BY <1>2, <1>3, GoneOn DEF CompanyOps
<1>5. CASE pc'[r] = "failed"
  BY <1>2, <1>4, <1>5 DEF Excuses
<1>6. CASE pc'[r] # "failed" /\ Asked(r, "updateLogo")
  <2>1. Overlapped(r, c)
    BY <1>1, <1>2, <1>6 DEF LogoAsked
  <2>2. Overlapped(r, c)'
    BY <1>3, <2>1, OverlapStays
  <2> QED
    BY <1>2, <1>4, <2>2 DEF Excuses
<1>7. CASE pc'[r] # "failed" /\ ~Asked(r, "updateLogo")
  <2>1. pc'[r] = "logoUnset"
    BY <1>2, <1>4, <1>7 DEF Edge
  <2> QED
    BY <1>1, <1>2, <1>4, <2>1 DEF Excuses, Final
<1> QED
  BY <1>5, <1>6, <1>7

\* A logo whose file is gone has an excuse.
LEMMA LogosBackedKept ==
  ASSUME DirHere, NEW r \in Requests, Moved(r), Acts(r), CompaniesDo(r), FilesDo(r), LogoInv
  PROVE  LogosBacked'
<1> SUFFICES ASSUME NEW c \in CompanyNames, companies'[c].logo \notin files' \cup {None}
             PROVE  Named(companies[c].logo)' \/ \E p \in Requests : Excuses(p, c, companies[c].logo)'
  BY DEF LogosBacked
<1>0. LogosOwned /\ LogosBacked /\ LogoAsked(r)
  BY DEF LogoInv
<1>4. PICK g : g = companies'[c].logo
  OBVIOUS
<1>5. Named(g) \/ NamedBy(r, g) => Named(companies[c].logo)'
  <2>1. Named(g) \/ NamedBy(r, g) => Named(g)'
    BY NamedStays, NamedFromNow
  <2> QED
    BY <1>4, <2>1 DEF Named, NamedBy
<1>1. CASE SetLogo(r) /\ companies'[c].logo = r /\ pc[r] = "logoSet" /\ UNCHANGED files
  BY <1>0, <1>1, <1>4, <1>5 DEF LogoAsked
<1>6. CASE NamedBy(r, companies'[c].logo)
  BY <1>4, <1>5, <1>6
<1>2. CASE companies'[c].logo = companies[c].logo
  <2>1. PICK f : f = companies[c].logo
    OBVIOUS
  <2>3. CASE Named(f)
    BY <1>2, <1>4, <1>5, <2>1, <2>3
  <2>2. ASSUME ~Named(f) PROVE \E p \in Requests : Excuses(p, c, f)'
    <3>1. CASE f \in files
      <4>1. LogoOf(f, c)
        BY <1>0, <1>2, <2>1, <2>2 DEF LogosOwned
      <4> QED
        BY <1>0, <1>2, <2>1, <2>2, <3>1, <4>1, DeletionExcuses
    <3>2. CASE f \notin files
      <4>1. PICK p \in Requests : Excuses(p, c, f)
        BY <1>0, <1>2, <2>1, <2>2, <3>2 DEF LogosBacked
      <4>2. CASE p = r /\ pc[r] = "logoUnset" /\ ~Overlapped(r, c)
        <5>1. InFlight(r) /\ local[r].op \in LogoOps /\ local[r].company = c
          BY <4>1, <4>2 DEF InFlight, Final, Excuses
        <5>2. CompanyIsHere(c)
          BY <1>0, <4>2, <5>1 DEF LogoAsked
        <5>3. CASE pc'[r] = "failed"
          <6>1. local'[r].op = local[r].op /\ local'[r].company = c
            BY <5>1, GoneOn DEF CompanyOps
          <6> QED
            BY <5>1, <5>3, <6>1 DEF Excuses
        <5>4. CASE pc'[r] # "failed"
          <6>1. UnsetLogo(r)
            BY <4>2, <5>4, Writers DEF Written
          <6>2. companies'[c].logo = None
            BY <5>1, <5>2, <6>1 DEF UnsetLogo, DirHere, CompanyTypeOK, CompanyDoc
          <6> QED
            BY <6>2
        <5> QED
          BY <5>3, <5>4
      <4>3. CASE ~(p = r /\ pc[r] = "logoUnset" /\ ~Overlapped(r, c))
        BY <4>1, <4>3, ExcuseStays
      <4> QED
        BY <4>2, <4>3
    <3> QED
      BY <3>1, <3>2
  <2> QED
    BY <1>2, <2>1, <2>2, <2>3 DEF Excuses, Overlapped
<1>3. LogoDoes(r, c)
  BY LogosDo
<1> QED
  BY <1>1, <1>2, <1>3, <1>6 DEF LogoDoes

(***************************************************************************)
(* The photos.                                                              *)
(***************************************************************************)
\* A photo of u stays one.
LEMMA PhotoOfStays ==
  ASSUME DirHere, NEW r \in Requests, Moved(r), NEW f, NEW u \in AccountNames, PhotoOf(f, u)
  PROVE  PhotoOf(f, u)'
<1>1. CASE f = u /\ u \in EarlierAccounts \cap EarlierFiles
  BY <1>1 DEF PhotoOf
<1>2. CASE f \in Requests /\ Asked(f, "updatePhoto") /\ local[f].user = u
           /\ pc[f] \notin {"photoUpload", "photoSet"}
  <2>1. local[f].op \in DirOps /\ local[f].op \in UserOps
    BY <1>2 DEF Asked, DirOps, UserOps, PhotoOps
  <2>2. pc[f] # "idle"
    BY <1>2, <2>1, AskersAreThere
  <2>3. local'[f].op = "updatePhoto" /\ local'[f].user = u
    BY <1>2, <2>1, <2>2, AskedStays DEF Asked
  <2>4. pc'[f] \notin {"photoUpload", "photoSet"}
    <3>1. CASE f # r
      BY <1>2, <3>1, OthersStay
    <3>2. CASE f = r
      <4>1. InFlight(r)
        BY <2>2, <3>2, OthersStay DEF InFlight
      <4>2. Edge(r, pc'[r]) /\ CallersAre(r)
        BY <4>1, GoneOn, Callers DEF DirHere, RequestsFit
      <4> QED
        BY <1>2, <3>2, <4>2 DEF Edge, AfterInsert, CallersAre
    <3> QED
      BY <3>1, <3>2
  <2> QED
    BY <1>2, <2>3, <2>4 DEF PhotoOf, Asked
<1> QED
  BY <1>1, <1>2 DEF PhotoOf

\* What becomes of an avatar.
PhotoDoes(r, u) ==
    \/ accounts'[u].avatar = accounts[u].avatar
    \/ accounts'[u].avatar = None
    \/ NamedBy(r, accounts'[u].avatar)
    \/ /\ SetPhoto(r) /\ u = local[r].user /\ accounts'[u].avatar = r
       /\ pc[r] = "photoSet" /\ UNCHANGED files

\* It stays, is none, or is the one that r gave or uploaded.
LEMMA PhotosDo ==
  ASSUME NEW r \in Requests, AccountsDo(r), NEW u \in AccountNames
  PROVE  PhotoDoes(r, u)
<1>1. SetPhoto(r) => pc[r] = "photoSet" /\ UNCHANGED files
  BY DEF SetPhoto, companyVars
<1> QED
  BY <1>1 DEF AccountsDo, AccountInserted, AccountEdited, PhotoDoes

\* No user gets the photo of another.
LEMMA PhotosOwnedKept ==
  ASSUME DirHere, NEW r \in Requests, Moved(r), AccountsDo(r), PhotosOwned
  PROVE  PhotosOwned'
<1>0. CallersAre(r)
  BY Callers DEF DirHere, RequestsFit
<1>1. ASSUME NEW u \in AccountNames, accounts'[u].avatar # None
      PROVE  (PhotoOf(accounts[u].avatar, u) \/ Named(accounts[u].avatar))'
  <2>1. CASE accounts'[u].avatar = accounts[u].avatar
    <3>1. PICK f : f = accounts[u].avatar /\ (PhotoOf(f, u) \/ Named(f))
      BY <1>1, <2>1 DEF PhotosOwned
    <3>2. PhotoOf(f, u)' \/ Named(f)'
      BY <3>1, PhotoOfStays, NamedStays
    <3> QED
      BY <2>1, <3>1, <3>2 DEF PhotoOf, Named, NamedBy
  <2>3. CASE NamedBy(r, accounts'[u].avatar)
    <3>1. PICK f : f = accounts'[u].avatar /\ NamedBy(r, f)
      BY <2>3
    <3>2. Named(f)'
      BY <3>1, NamedFromNow
    <3> QED
      BY <3>1, <3>2 DEF Named, NamedBy
  <2>2. CASE SetPhoto(r) /\ u = local[r].user /\ accounts'[u].avatar = r /\ pc[r] = "photoSet"
    <3>1. InFlight(r) /\ Asked(r, "updatePhoto")
      BY <1>0, <2>2 DEF InFlight, Final, CallersAre
    <3>2. Edge(r, pc'[r]) /\ local'[r].op = "updatePhoto" /\ local'[r].user = u
      BY <2>2, <3>1, GoneOn DEF Asked, UserOps, PhotoOps
    <3>3. pc'[r] \notin {"photoUpload", "photoSet"}
      BY <2>2, <3>2 DEF Edge
    <3> QED
      BY <2>2, <3>2, <3>3 DEF PhotoOf, Asked
  <2> QED
    BY <1>1, <2>1, <2>2, <2>3, PhotosDo DEF PhotoDoes
<1>2. ASSUME NEW p \in Requests, InFlight(p)', local'[p].op \in PhotoOps, local'[p].old # None
      PROVE  (PhotoOf(local[p].old, local[p].user) \/ Named(local[p].old))'
  <2>1. \E u \in AccountNames : \E f :
            f = local'[p].old /\ u = local'[p].user /\ (PhotoOf(f, u) \/ Named(f))
    <3>1. CASE p # r \/ InFlight(r)
      <4>1. pc[p] # "idle" /\ InFlight(p) /\ local'[p] = local[p]
        <5>1. CASE p # r
          BY <1>2, <5>1, OthersStay DEF InFlight
        <5>2. CASE p = r
          BY <1>2, <3>1, <5>2, GoneOn DEF InFlight
        <5> QED
          BY <5>1, <5>2
      <4>2. local[p].user \in AccountNames
        BY <1>2, <4>1, InFlightFits DEF Fits, UserOps, PhotoOps
      <4> QED
        BY <1>2, <4>1, <4>2 DEF PhotosOwned
    <3>2. CASE p = r /\ ~InFlight(r)
      <4>1. PICK l : /\ Known(r, pc'[r], l) /\ Fits(pc'[r], l) /\ l.op = local'[r].op
                     /\ pc'[r] \notin Final => local'[r] = l
        BY <3>2, Arrived
      <4>2. pc'[r] \notin Final /\ local'[r] = l /\ l.op \in PhotoOps
        BY <1>2, <3>2, <4>1 DEF InFlight
      <4>3. l.user \in AccountNames
        BY <4>1, <4>2 DEF Fits, UserOps, PhotoOps
      <4>4. l.old = accounts[l.user].avatar
        BY <4>1, <4>2 DEF Known
      <4> QED
        BY <1>2, <3>2, <4>2, <4>3, <4>4 DEF PhotosOwned
    <3> QED
      BY <3>1, <3>2
  <2>2. PICK u \in AccountNames : \E f :
            f = local'[p].old /\ u = local'[p].user /\ (PhotoOf(f, u) \/ Named(f))
    BY <2>1
  <2>3. PICK f : f = local'[p].old /\ u = local'[p].user /\ (PhotoOf(f, u) \/ Named(f))
    BY <2>2
  <2>4. PhotoOf(f, u)' \/ Named(f)'
    BY <2>3, PhotoOfStays, NamedStays
  <2> QED
    BY <2>3, <2>4 DEF PhotoOf, Named, NamedBy
<1> QED
  BY <1>1, <1>2 DEF PhotosOwned

\* A request on a photo knows what it knew.
LEMMA PhotoAskedKept ==
  ASSUME DirHere, NEW r \in Requests, Moved(r), Acts(r), AccountsDo(r), FilesDo(r),
         PhotosOwned, \A p \in Requests : PhotoAsked(p), NEW p \in Requests
  PROVE  PhotoAsked(p)'
<1>0. CallersAre(r) /\ CallersAre(p) /\ RequestsFit
  BY Callers DEF DirHere, RequestsFit
<1>1. CASE p # r
  <2>1. pc'[p] = pc[p] /\ local'[p] = local[p]
    BY <1>1, OthersStay
  <2>2. pc[p] = "photoSet" => p \in files' \/ Named(p)'
    BY NewFilesStay, NamedStays DEF PhotoAsked
  <2>5. PICK f : f = local[p].old
    OBVIOUS
  <2>3. ASSUME pc[p] = "photoDelete", Asked(p, "updatePhoto"), ~Named(f), ~NamedBy(r, f)
        PROVE  accounts'[local[p].user].avatar # f
    <3>1. InFlight(p) /\ local[p].op \in PhotoOps
      BY <2>3 DEF InFlight, Final, Asked, PhotoOps
    <3>2. PICK u \in AccountNames : u = local[p].user
      BY <3>1, InFlightFits DEF Fits, UserOps, PhotoOps
    <3>3. PhotoOf(f, u)
      BY <2>3, <2>5, <3>1, <3>2 DEF PhotosOwned, PhotoAsked
    <3>4. f # None /\ (pc[r] = "photoSet" => f # r)
      BY <1>0, <3>3, PhotosApart
    <3>5. accounts[u].avatar # f
      BY <2>3, <2>5, <3>2 DEF PhotoAsked
    <3>6. PhotoDoes(r, u)
      BY PhotosDo
    <3> QED
      BY <2>3, <3>2, <3>4, <3>5, <3>6 DEF PhotoDoes
  <2>4. pc[p] = "photoDelete" => local[p].old # None
    BY DEF PhotoAsked
  <2>6. Named(f) \/ NamedBy(r, f) => Named(local[p].old)'
    <3>1. Named(f) \/ NamedBy(r, f) => Named(f)'
      BY NamedStays, NamedFromNow
    <3> QED
      BY <2>1, <2>5, <3>1 DEF Named, NamedBy
  <2> QED
    BY <2>1, <2>2, <2>3, <2>4, <2>5, <2>6 DEF PhotoAsked, Asked
<1>2. CASE p = r /\ ~InFlight(r)
  <2>1. PICK l : /\ Known(r, pc'[r], l) /\ Fits(pc'[r], l) /\ l.op = local'[r].op
                 /\ pc'[r] \notin Final => local'[r] = l
    BY <1>2, Arrived
  <2>2. pc'[r] # "photoSet"
    BY <2>1 DEF Known, Final
  <2>3. ASSUME pc'[r] = "photoDelete"
        PROVE  local'[r].op = "deletePhoto" /\ local'[r].old # None
    <3>1. "photoDelete" \notin Final
      BY DEF Final
    <3>2. pc'[r] \in Calls(l.op) /\ l.op \in DirOps
      BY <2>1, <2>3, <3>1 DEF Fits
    <3>3. l.op \in PhotoOps
      BY <2>3, <3>2 DEF Calls, DirOps, CompanyOps, UserOps, MethodOps, TokenOps, PhotoOps,
                        PasswordOps, LogoOps
    <3>4. l.op = "deletePhoto" /\ l.old # None
      BY <2>1, <2>3, <3>1, <3>3 DEF Known
    <3> QED
      BY <2>1, <2>3, <3>1, <3>4
  <2> QED
    BY <1>2, <2>2, <2>3 DEF PhotoAsked, Asked
<1>3. CASE p = r /\ InFlight(r)
  <2>1. /\ Edge(r, pc'[r]) /\ local'[r].op = local[r].op
        /\ pc'[r] \notin Final => local'[r] = local[r]
    BY <1>3, GoneOn
  <2>2. pc'[r] = "photoSet" => r \in files'
    <3>1. pc'[r] = "photoSet" => pc[r] = "photoUpload"
      BY <1>0, <2>1 DEF Edge, AfterInsert, CallersAre
    <3>2. pc'[r] = "photoSet" => UploadPhoto(r)
      BY <3>1, Writers DEF Written
    <3> QED
      BY <3>2 DEF UploadPhoto, Upload
  <2>3. ASSUME pc'[r] = "photoDelete"
        PROVE  /\ local'[r].old # None
               /\ accounts'[local'[r].user].avatar # local'[r].old \/ Named(local[r].old)'
    <3>1. pc[r] = "photoSet" /\ local[r].old # None /\ local'[r] = local[r]
      BY <1>0, <2>1, <2>3 DEF Edge, AfterInsert, CallersAre, Final
    <3>2. local[r].op \in PhotoOps
      BY <1>0, <3>1 DEF CallersAre, Asked, PhotoOps
    <3>3. PICK u \in AccountNames : u = local[r].user
      BY <1>3, <3>2, InFlightFits DEF Fits, UserOps, PhotoOps
    <3>4. SetPhoto(r)
      BY <2>3, <3>1, Writers DEF Written
    <3>5. accounts' = [accounts EXCEPT ![u] = [accounts[u] EXCEPT !.avatar = r]]
      <4>1. pc' # [pc EXCEPT ![r] = "error"]
        BY <2>3 DEF DirHere, Here
      <4> QED
        BY <3>3, <3>4, <4>1 DEF SetPhoto, SetAccount, Goto, Continue
    <3>6. accounts'[u].avatar = r
      <4>1. accounts[u] \in AccountDoc /\ accounts'[u] = [accounts[u] EXCEPT !.avatar = r]
        BY <3>5 DEF DirHere, AccountTypeOK
      <4> QED
        BY <4>1 DEF AccountDoc
    <3>7. PICK f : f = local[r].old /\ (PhotoOf(f, u) \/ Named(f))
      BY <1>3, <3>1, <3>2, <3>3 DEF PhotosOwned
    <3>8. PhotoOf(f, u) => f # r
      BY <1>0, <3>1, PhotosApart
    <3>9. Named(f) => Named(f)'
      BY NamedStays
    <3>10. Named(f)' => Named(local[r].old)'
      BY <3>1, <3>7 DEF Named, NamedBy
    <3> QED
      BY <3>1, <3>3, <3>6, <3>7, <3>8, <3>9, <3>10
  <2> QED
    BY <1>3, <2>2, <2>3 DEF PhotoAsked, Asked
<1> QED
  BY <1>1, <1>2, <1>3

\* The file of an avatar is deleted by a request to delete the photo.
LEMMA AvatarsKept ==
  ASSUME DirHere, NEW r \in Requests, Moved(r), AccountsDo(r), FilesDo(r), PhotoInv
  PROVE  AvatarFilesExist'
<1> SUFFICES ASSUME NEW u \in AccountNames, accounts'[u].avatar \notin files' \cup {None}
             PROVE  \/ Named(accounts[u].avatar)'
                    \/ \E p \in Requests : local'[p].op = "deletePhoto" /\ local'[p].user = u
  BY DEF AvatarFilesExist, Asked
<1>0. PhotosOwned /\ AvatarFilesExist /\ PhotoAsked(r) /\ CallersAre(r) /\ RequestsFit
  BY Callers DEF PhotoInv, DirHere, RequestsFit
<1>1. ASSUME NEW p \in Requests, Asked(p, "deletePhoto"), local[p].user = u
      PROVE  local'[p].op = "deletePhoto" /\ local'[p].user = u
  <2>1. local[p].op \in DirOps /\ local[p].op \in UserOps
    BY <1>1 DEF Asked, DirOps, UserOps, PhotoOps
  <2>2. pc[p] # "idle"
    BY <2>1, AskersAreThere
  <2> QED
    BY <1>1, <2>1, <2>2, AskedStays DEF Asked
<1>6. PICK g : g = accounts'[u].avatar
  OBVIOUS
<1>7. Named(g) \/ NamedBy(r, g) => Named(accounts[u].avatar)'
  <2>1. Named(g) \/ NamedBy(r, g) => Named(g)'
    BY NamedStays, NamedFromNow
  <2> QED
    BY <1>6, <2>1 DEF Named, NamedBy
<1>2. CASE SetPhoto(r) /\ accounts'[u].avatar = r /\ pc[r] = "photoSet" /\ UNCHANGED files
  BY <1>0, <1>2, <1>6, <1>7 DEF PhotoAsked
<1>8. CASE Named(g) \/ NamedBy(r, g)
  BY <1>7, <1>8
<1>3. CASE accounts'[u].avatar = accounts[u].avatar /\ accounts[u].avatar \notin files /\ ~Named(g)
  <2>1. PICK p \in Requests : Asked(p, "deletePhoto") /\ local[p].user = u
    BY <1>0, <1>3, <1>6 DEF AvatarFilesExist
  <2> QED
    BY <1>1, <2>1
<1>4. CASE accounts'[u].avatar = accounts[u].avatar /\ accounts[u].avatar \in files /\ ~Named(g)
  <2>1. PICK f : /\ f = accounts[u].avatar /\ PhotoOf(f, u) /\ f \in files /\ f \notin files'
                 /\ ~Named(f)
    BY <1>0, <1>4, <1>6 DEF PhotosOwned
  <2>2. ~DeletesLogo(r) \/ f # local[r].old
    BY <1>0, <2>1, FilesApart DEF DeletesLogo
  <2>3. DeletesPhoto(r) /\ f = local[r].old
    BY <2>1, <2>2 DEF FilesDo, DeletesLogo, DeletesPhoto, Stores
  <2>4. u = local[r].user
    BY <1>0, <2>1, <2>3, PhotosApart DEF DeletesPhoto
  <2>5. ~Asked(r, "updatePhoto")
    BY <1>0, <2>1, <2>3, <2>4 DEF PhotoAsked, DeletesPhoto
  <2>6. Asked(r, "deletePhoto")
    BY <2>3, <2>5 DEF DeletesPhoto, PhotoOps, Asked
  <2> QED
    BY <1>1, <2>4, <2>6
<1>5. PhotoDoes(r, u)
  BY PhotosDo
<1> QED
  BY <1>2, <1>3, <1>4, <1>5, <1>6, <1>8 DEF PhotoDoes

(***************************************************************************)
(* The methods.                                                             *)
(***************************************************************************)
MethodCreated(r, k) ==
    CreateMethod(r) /\ k = r /\ methods'[k].status = "active"
MethodChanged(r, k) ==
    /\ SaveMethod(r) /\ pc[r] = "methodSave" /\ k = local[r].method
    /\ methods'[k].status \in {methods[k].status, "deleted"}
    /\ Asked(r, "deleteMethod") => methods'[k].status = "deleted"
    /\ Asked(r, "toggleMethod") => methods'[k].enabled = local[r].new.enabled
    /\ Asked(r, "deleteMethod") => methods'[k].enabled = methods[k].enabled

\* What a step of r does to the methods.
MethodsDo(r) ==
    \A k \in Methods : methods'[k] = methods[k] \/ MethodCreated(r, k) \/ MethodChanged(r, k)

\* A step of r creates a method, saves one, or leaves them.
LEMMA MethodsChange ==
  ASSUME DirHere, NEW r \in Requests, Acts(r)
  PROVE  MethodsDo(r)
<1> SUFFICES ASSUME NEW k \in Methods
             PROVE  methods'[k] = methods[k] \/ MethodCreated(r, k) \/ MethodChanged(r, k)
  BY DEF MethodsDo
<1>0. MethodTypeOK /\ CallersAre(r)
  BY Callers DEF DirHere, RequestsFit
<1>1. CASE CreateMethod(r)
  <2>1. PICK owner \in MethodOwners \cup {None}, enabled \in BOOLEAN :
            methods' = [methods EXCEPT ![r] = [status |-> "active", enabled |-> enabled, owner |-> owner]]
    BY <1>1 DEF CreateMethod
  <2> QED
    BY <1>0, <1>1, <2>1 DEF MethodTypeOK, MethodCreated
<1>2. CASE SaveMethod(r)
  <2>1. pc[r] = "methodSave" /\ InFlight(r)
    BY <1>2 DEF SaveMethod, InFlight, Final
  <2>2. MethodFits(local[r]) /\ local[r].method \in Methods
    BY <1>0, <2>1, InFlightFits DEF CallersAre, Fits
  <2> DEFINE l == local[r]
  <2>3. methods' = [methods EXCEPT ![l.method] = MethodSaved(methods[l.method], l.old, l.new)]
    BY <1>0, <1>2, <2>2 DEF SaveMethod, MethodTypeOK
  <2>4. CASE k # l.method
    BY <1>0, <2>3, <2>4 DEF MethodTypeOK
  <2>5. CASE k = l.method
    <3>1. methods'[k] = MethodSaved(methods[k], l.old, l.new)
      BY <1>0, <2>3, <2>5 DEF MethodTypeOK
    <3>2. DOMAIN methods[k] = {"status", "enabled", "owner"}
      BY <1>0 DEF MethodTypeOK, MethodDoc
    <3>3. /\ methods'[k].status = IF l.new.status = l.old.status THEN methods[k].status ELSE l.new.status
          /\ methods'[k].enabled = IF l.new.enabled = l.old.enabled THEN methods[k].enabled
                                   ELSE l.new.enabled
      BY <3>1, <3>2 DEF MethodSaved
    <3>4. methods'[k].status \in {methods[k].status, "deleted"}
      BY <1>0, <2>1, <2>2, <3>3 DEF MethodFits
    <3>5. Asked(r, "deleteMethod") => methods'[k].status = "deleted"
      BY <2>2, <3>3 DEF MethodFits, Asked
    <3>6. Asked(r, "deleteMethod") => methods'[k].enabled = methods[k].enabled
      BY <2>2, <3>3 DEF MethodFits, Asked
    <3>7. Asked(r, "toggleMethod") => methods'[k].enabled = l.new.enabled
      <4>1. Asked(r, "toggleMethod") => l.new.enabled = ~l.old.enabled /\ l.old.enabled \in BOOLEAN
        BY <2>2 DEF MethodFits, Asked, MethodDoc
      <4>2. Asked(r, "toggleMethod") => l.new.enabled # l.old.enabled
        BY <4>1
      <4> QED
        BY <3>3, <4>2
    <3> QED
      BY <1>2, <2>1, <2>5, <3>4, <3>5, <3>6, <3>7 DEF MethodChanged
  <2> QED
    BY <2>4, <2>5
<1>3. CASE UNCHANGED methods
  BY <1>3
<1> QED
  BY <1>1, <1>2, <1>3
     DEF Acts, ActsOnCompanies, ActsOnFiles, ActsOnAccounts, ActsOnSpeakers, ActsOnMethods, Reads

\* A deleted method stays deleted.
LEMMA MethodsKept ==
  ASSUME DirHere, NEW r \in Requests, Moved(r), Acts(r), MethodsDo(r), MethodInv
  PROVE  MethodInv'
<1>0. CallersAre(r)
  BY Callers DEF DirHere, RequestsFit
<1>1. \A k \in Methods : methods[k].status # "none" => methods'[k].status # "none"
  BY DEF MethodsDo, MethodCreated, MethodChanged
<1>2. ASSUME NEW k \in Methods, methods[k].status = "deleted"
      PROVE  methods'[k].status = "deleted"
  <2>1. ~MethodCreated(r, k)
    BY <1>2 DEF MethodCreated, CreateMethod, Start, MethodInv
  <2> QED
    BY <1>2, <2>1 DEF MethodsDo, MethodChanged
<1>3. ASSUME NEW q \in Requests, pc'[q] = "idle"
      PROVE  methods'[q].status = "none"
  <2>1. q # r /\ pc[q] = "idle" /\ q \in Methods
    BY <1>3, OthersStay DEF Methods
  <2>2. methods[q].status = "none"
    BY <2>1 DEF MethodInv
  <2>3. ~MethodCreated(r, q)
    BY <2>1 DEF MethodCreated
  <2>4. ~MethodChanged(r, q)
    BY <2>2 DEF MethodChanged, MethodInv
  <2> QED
    BY <2>1, <2>2, <2>3, <2>4 DEF MethodsDo
<1>4. ASSUME NEW k \in Methods, NEW q \in Requests, local'[q].op = "deleteMethod",
             local'[q].method = k, pc'[q] = "ok"
      PROVE  methods'[k].status = "deleted"
  <2>1. CASE q # r
    <3>1. pc'[q] = pc[q] /\ local'[q] = local[q]
      BY <2>1, OthersStay
    <3> QED
      BY <1>2, <1>4, <3>1 DEF MethodInv, Asked
  <2>2. CASE q = r /\ ~InFlight(r)
    <3>1. \E l : Known(r, pc'[r], l) /\ l.op = local'[r].op
      BY <2>2, Arrived
    <3> QED
      BY <1>4, <2>2, <3>1 DEF Known, MethodOps
  <2>3. CASE q = r /\ InFlight(r)
    <3>1. local'[r].op = local[r].op /\ (local[r].op \in MethodOps => local'[r].method = local[r].method)
      BY <2>3, GoneOn
    <3>2. local[r].op = "deleteMethod" /\ k = local[r].method
      BY <1>4, <2>3, <3>1 DEF MethodOps
    <3>3. pc[r] = "methodSave"
      BY <2>3, <3>2, InFlightFits DEF Calls, MethodOps
    <3>4. SaveMethod(r)
      BY <1>4, <2>3, <3>3, Writers DEF Written
    <3>5. CASE MethodChanged(r, k)
      BY <3>2, <3>5 DEF MethodChanged, Asked
    <3>6. CASE ~MethodChanged(r, k)
      <4>1. methods' = [methods EXCEPT ![k] = MethodSaved(methods[k], local[r].old, local[r].new)]
        BY <3>2, <3>4 DEF SaveMethod, DirHere, MethodTypeOK
      <4>2. methods'[k] = MethodSaved(methods[k], local[r].old, local[r].new)
        BY <4>1 DEF DirHere, MethodTypeOK
      <4>3. MethodFits(local[r])
        BY <1>0, <2>3, <3>3, InFlightFits DEF CallersAre, Fits
      <4>4. "status" \in DOMAIN methods[k]
        BY DEF DirHere, MethodTypeOK, MethodDoc
      <4>5. methods'[k].status = IF local[r].new.status = local[r].old.status
                                 THEN methods[k].status ELSE local[r].new.status
        BY <4>2, <4>4 DEF MethodSaved
      <4> QED
        BY <3>2, <4>3, <4>5 DEF MethodFits
    <3> QED
      BY <3>5, <3>6
  <2> QED
    BY <2>1, <2>2, <2>3
<1>5. ASSUME NEW q \in Requests, pc'[q] = "methodSave"
      PROVE  methods'[local'[q].method].status # "none"
  <2>1. CASE q # r
    <3>1. pc'[q] = pc[q] /\ local'[q] = local[q]
      BY <2>1, OthersStay
    <3>2. InFlight(q) /\ CallersAre(q)
      BY <1>5, <3>1, Callers DEF InFlight, Final, DirHere, RequestsFit
    <3>3. local[q].method \in Methods
      BY <1>5, <3>1, <3>2, InFlightFits DEF CallersAre, Fits
    <3> QED
      BY <1>1, <1>5, <3>1, <3>3 DEF MethodInv
  <2>2. CASE q = r /\ InFlight(r)
    <3>1. Edge(r, "methodSave")
      BY <1>5, <2>2, GoneOn
    <3> QED
      BY <1>0, <3>1 DEF Edge, AfterInsert, CallersAre
  <2>3. CASE q = r /\ ~InFlight(r)
    <3>1. PICK l : Known(r, "methodSave", l) /\ Fits("methodSave", l) /\ local'[r] = l
      BY <1>5, <2>3, Arrived DEF Final
    <3>2. l.op \in DirOps /\ "methodSave" \in Calls(l.op)
      BY <3>1 DEF Fits, Final
    <3>3. l.op \in MethodOps
      BY <3>2 DEF Calls, DirOps, CompanyOps, UserOps, TokenOps, PhotoOps, PasswordOps, LogoOps
    <3>4. l.method \in Methods /\ MethodFits(l)
      BY <3>1, <3>3 DEF Fits, Final
    <3>5. methods[l.method].status = "active"
      BY <3>1, <3>4 DEF Known, MethodFits
    <3> QED
      BY <1>1, <2>3, <3>1, <3>4, <3>5
  <2> QED
    BY <2>1, <2>2, <2>3
<1> QED
  BY <1>3, <1>4, <1>5 DEF MethodInv, Asked

(***************************************************************************)
(* Requests that have not overlapped: the companies.                        *)
(***************************************************************************)
\* r is the only one to move, and was not rejected.
Alone(r) ==
    /\ \A q \in Requests \ {r} : ~InFlight(q) /\ (pc[q] # "idle" => q \in before'[r])
    /\ pc'[r] # "failed"

\* So it is when requests have not overlapped.
LEMMA MovedAlone ==
  ASSUME DirHere, DirHere', NEW r \in Requests, Moved(r), SerialSoFar'
  PROVE  SerialSoFar /\ Alone(r)
BY OthersStay, MovesAlone DEF DirHere, Alone

\* Whoever makes a call now is r.
LEMMA OnlyMover ==
  ASSUME NEW r \in Requests, Moved(r), Alone(r), NEW q \in Requests, InFlight(q)'
  PROVE  q = r
BY OthersStay DEF Alone, InFlight

\* A status that was asked for is answered at once, and asked for ever.
LEMMA StatusesStay ==
  ASSUME DirHere, NEW r \in Requests, Moved(r)
  PROVE  /\ CompaniesOnlyDeleted' => CompaniesOnlyDeleted
         /\ UsersOnlyDeleted' => UsersOnlyDeleted
<1>1. ASSUME NEW q \in Requests, local[q].op \in {"companyStatus", "userStatus"}
      PROVE  local'[q] = local[q]
  <2>1. pc[q] # "idle"
    BY <1>1, AskersAreThere DEF DirOps, CompanyOps, UserOps
  <2>2. ~InFlight(q)
    BY <1>1, InFlightFits DEF Calls, MethodOps
  <2>3. q # r
    BY <2>1, <2>2, OthersStay DEF InFlight
  <2> QED
    BY <2>3, OthersStay
<1> QED
  BY <1>1 DEF CompaniesOnlyDeleted, UsersOnlyDeleted, Asked

\* Whose e-mail r has written.
CompanyMailed(r, c) ==
    /\ c \in CompanyNames
    /\ \/ /\ pc[r] = "companyInsert" /\ c = r
          /\ companies'[c].email = GivenEmail(CompanyGiven(r))
       \/ /\ pc[r] = "companySet" /\ c = local[r].company
          /\ companies'[c].email = GivenEmail(local[r].changes)

\* A company that is there was so, with its e-mail, or r has written it.
LEMMA CompaniesWere ==
  ASSUME NEW r \in Requests, CompaniesDo(r), CompaniesOnlyDeleted', NEW c \in CompanyNames,
         CompanyIsHere(c)'
  PROVE  CompanyMailed(r, c) \/ (CompanyIsHere(c) /\ companies'[c].email = companies[c].email)
<1>1. CASE companies'[c] = companies[c]
  BY <1>1 DEF CompanyIsHere
<1>2. CASE CompanyInserted(r, c)
  BY <1>2 DEF CompanyInserted, InsertCompany, CompanyMailed
<1>3. CASE CompanyEdited(r, c)
  <2>1. companies'[c].status = companies[c].status
    BY <1>3 DEF CompanyEdited, CompaniesOnlyDeleted, CompanyIsHere, Asked
  <2>2. CASE companies'[c].email = companies[c].email
    BY <1>3, <2>1, <2>2 DEF CompanyEdited, CompanyIsHere
  <2>3. CASE SetCompany(r) /\ c = local[r].company /\ companies'[c].email = GivenEmail(local[r].changes)
    BY <2>3 DEF SetCompany, CompanyMailed
  <2> QED
    BY <1>3, <2>2, <2>3 DEF CompanyEdited
<1> QED
  BY <1>1, <1>2, <1>3 DEF CompaniesDo

\* If no e-mail is written, none is held that was not.
LEMMA MailsWere ==
  ASSUME NEW r \in Requests, CompaniesDo(r), CompaniesOnlyDeleted',
         pc[r] \notin {"companyInsert", "companySet"}, NEW c, NEW m, EmailHeld(c, m)'
  PROVE  EmailHeld(c, m)
<1>1. PICK d \in CompanyNames \ {c} : companies'[d].email = m /\ CompanyIsHere(d)' /\ m # None
  BY DEF EmailHeld, CompanyIsHere
<1>2. CompanyIsHere(d) /\ companies'[d].email = companies[d].email
  BY <1>1, CompaniesWere DEF CompanyMailed
<1> QED
  BY <1>1, <1>2 DEF EmailHeld

\* The e-mails of companies stay their own.
LEMMA CompaniesExactKept ==
  ASSUME DirHere, NEW r \in Requests, Moved(r), CompaniesDo(r), Alone(r),
         CompaniesOnlyDeleted', CompaniesExact
  PROVE  CompaniesExact'
<1>0. CallersAre(r)
  BY Callers DEF DirHere, RequestsFit
<1>1. ASSUME NEW c \in CompanyNames, CompanyMailed(r, c), NEW d \in CompanyNames, d # c,
             CompanyIsHere(d)', companies'[d].email = companies'[c].email,
             companies'[c].email # None
      PROVE  FALSE
  <2>1. ~CompanyMailed(r, d)
    BY <1>1 DEF CompanyMailed
  <2>2. CompanyIsHere(d) /\ companies[d].email = companies'[c].email
    BY <1>1, <2>1, CompaniesWere
  <2>3. PICK m : m = companies'[c].email /\ ~EmailHeld(c, m)
    BY <1>1 DEF CompanyMailed, CompaniesExact
  <2> QED
    BY <1>1, <2>2, <2>3 DEF EmailHeld
<1>2. ASSUME NEW c \in CompanyNames, CompanyIsHere(c)', NEW d \in CompanyNames, d # c,
             CompanyIsHere(d)', companies'[d].email = companies'[c].email,
             companies'[c].email # None
      PROVE  FALSE
  <2>1. CASE CompanyMailed(r, c) \/ CompanyMailed(r, d)
    BY <1>1, <1>2, <2>1
  <2>2. CASE ~CompanyMailed(r, c) /\ ~CompanyMailed(r, d)
    <3>1. /\ CompanyIsHere(c) /\ companies'[c].email = companies[c].email
          /\ CompanyIsHere(d) /\ companies'[d].email = companies[d].email
      BY <1>2, <2>2, CompaniesWere
    <3> QED
      BY <1>2, <3>1 DEF CompaniesExact, EmailHeld
  <2> QED
    BY <2>1, <2>2
<1>3. ASSUME NEW c \in CompanyNames, CompanyIsHere(c)'
      PROVE  ~EmailHeld(c, companies[c].email)'
  BY <1>2, <1>3 DEF EmailHeld, CompanyIsHere
<1>4. ASSUME NEW q \in Requests, pc'[q] = "companyInsert"
      PROVE  ~EmailHeld(q, GivenEmail(CompanyGiven(q)))'
  <2>1. q = r
    BY <1>4, OnlyMover DEF InFlight, Final
  <2>2. InFlight(r)
    <3>1. ~InFlight(r) => \E l : Known(r, pc'[r], l)
      BY Arrived
    <3> QED
      BY <1>4, <2>1, <3>1 DEF Known, Final
  <2>3. /\ pc[r] = "companyLookup" /\ EmailIsFree(r, GivenEmail(CompanyGiven(r)))
        /\ local'[r] = local[r]
    BY <1>0, <1>4, <2>1, <2>2, GoneOn DEF Edge, AfterInsert, CallersAre, Final
  <2>4. PICK m : m = GivenEmail(CompanyGiven(r))
    OBVIOUS
  <2>5. ~EmailHeld(r, m)'
    BY <2>3, <2>4, MailsWere DEF EmailIsFree
  <2>6. GivenEmail(CompanyGiven(q))' = m
    BY <2>1, <2>3, <2>4 DEF GivenEmail, CompanyGiven, Asked
  <2> QED
    BY <2>1, <2>5, <2>6 DEF EmailHeld, CompanyIsHere
<1>5. ASSUME NEW q \in Requests, pc'[q] = "companySet"
      PROVE  ~EmailHeld(local[q].company, GivenEmail(local[q].changes))'
  <2>1. q = r
    BY <1>5, OnlyMover DEF InFlight, Final
  <2>2. \E c, m : /\ c = local'[r].company /\ m = GivenEmail(local'[r].changes)
                  /\ ~EmailHeld(c, m) /\ pc[r] \notin {"companyInsert", "companySet"}
    <3>1. CASE InFlight(r)
      <4>1. /\ pc[r] = "companyCheck" /\ EmailIsFree(local[r].company, GivenEmail(local[r].changes))
            /\ local'[r] = local[r]
        BY <1>0, <1>5, <2>1, <3>1, GoneOn DEF Edge, AfterInsert, CallersAre, Final
      <4> QED
        BY <4>1 DEF EmailIsFree
    <3>2. CASE ~InFlight(r)
      <4>1. PICK l : Known(r, "companySet", l) /\ Fits("companySet", l) /\ local'[r] = l
        BY <1>5, <2>1, <3>2, Arrived DEF Final
      <4>2. CompanyIsHere(l.company) /\ GivenEmail(l.changes) \in {None, companies[l.company].email}
        BY <4>1 DEF Known
      <4>3. l.op \in DirOps /\ "companySet" \in Calls(l.op)
        BY <4>1 DEF Fits, Final
      <4>4. l.op = "updateCompany"
        BY <4>3 DEF Calls, DirOps, CompanyOps, UserOps, MethodOps, TokenOps, PhotoOps,
                    PasswordOps, LogoOps
      <4>5. l.company \in CompanyNames
        BY <4>1, <4>4 DEF Fits, CompanyOps
      <4>6. ~EmailHeld(l.company, GivenEmail(l.changes))
        BY <4>2, <4>5 DEF CompaniesExact, EmailHeld
      <4>7. pc[r] = "idle"
        BY <3>2, Arrived
      <4> QED
        BY <4>1, <4>6, <4>7
    <3> QED
      BY <3>1, <3>2
  <2>3. PICK c, m : /\ c = local'[r].company /\ m = GivenEmail(local'[r].changes)
                    /\ ~EmailHeld(c, m) /\ pc[r] \notin {"companyInsert", "companySet"}
    BY <2>2
  <2>4. ~EmailHeld(c, m)'
    BY <2>3, MailsWere
  <2> QED
    BY <2>1, <2>3, <2>4 DEF EmailHeld, CompanyIsHere, GivenEmail
<1> QED
  BY <1>3, <1>4, <1>5 DEF CompaniesExact

(***************************************************************************)
(* The users.                                                               *)
(***************************************************************************)
AccountMailed(r, u) ==
    /\ u \in AccountNames /\ accounts'[u].email = GivenEmail(local[r].changes)
    /\ \/ pc[r] = "userInsert" /\ u = r
       \/ pc[r] = "userSet" /\ u = local[r].user

\* An account that is there was so, with its e-mail, or r has written it.
LEMMA AccountsWere ==
  ASSUME NEW r \in Requests, AccountsDo(r), UsersOnlyDeleted', NEW u \in AccountNames,
         AccountIsHere(u)'
  PROVE  AccountMailed(r, u) \/ (AccountIsHere(u) /\ accounts'[u].email = accounts[u].email)
<1>1. CASE accounts'[u] = accounts[u]
  BY <1>1 DEF AccountIsHere
<1>2. CASE AccountInserted(r, u)
  BY <1>2 DEF AccountInserted, InsertUser, AccountMailed
<1>3. CASE AccountEdited(r, u)
  <2>1. accounts'[u].status = accounts[u].status
    BY <1>3 DEF AccountEdited, UsersOnlyDeleted, AccountIsHere, Asked
  <2>2. CASE accounts'[u].email = accounts[u].email
    BY <1>3, <2>1, <2>2 DEF AccountEdited, AccountIsHere
  <2>3. CASE SetUser(r) /\ u = local[r].user /\ accounts'[u].email = GivenEmail(local[r].changes)
    BY <2>3 DEF SetUser, AccountMailed
  <2> QED
    BY <1>3, <2>2, <2>3 DEF AccountEdited
<1> QED
  BY <1>1, <1>2, <1>3 DEF AccountsDo

\* Who holds an e-mail held it, if r has written none.
LEMMA HoldersWere ==
  ASSUME NEW r \in Requests, AccountsDo(r), UsersOnlyDeleted', NEW m, NEW u, u \in Holders(m)'
  PROVE  (AccountMailed(r, u) /\ m = GivenEmail(local[r].changes)) \/ u \in Holders(m)
<1>1. u \in AccountNames /\ AccountIsHere(u)' /\ accounts'[u].email = m
  BY DEF Holders, AccountIsHere
<1>2. AccountMailed(r, u) \/ (AccountIsHere(u) /\ accounts'[u].email = accounts[u].email)
  BY <1>1, AccountsWere
<1> QED
  BY <1>1, <1>2 DEF Holders, AccountMailed

\* The e-mails of users stay their own.
LEMMA EmailsExactKept ==
  ASSUME DirHere, NEW r \in Requests, Moved(r), AccountsDo(r), Alone(r),
         UsersOnlyDeleted', EmailsExact
  PROVE  EmailsExact'
<1>0. CallersAre(r)
  BY Callers DEF DirHere, RequestsFit
<1>1. ASSUME NEW u, AccountMailed(r, u)
      PROVE  Holders(GivenEmail(local[r].changes)) \subseteq {u}
  BY <1>1 DEF AccountMailed, EmailsExact
<1>2. ASSUME NEW m \in Emails, NEW u, u \in Holders(m)', NEW v, v \in Holders(m)'
      PROVE  u = v
  <2>1. CASE AccountMailed(r, u) /\ AccountMailed(r, v)
    BY <2>1 DEF AccountMailed
  <2>2. CASE AccountMailed(r, u) /\ m = GivenEmail(local[r].changes) /\ v \in Holders(m)
    BY <1>1, <2>2
  <2>3. CASE AccountMailed(r, v) /\ m = GivenEmail(local[r].changes) /\ u \in Holders(m)
    BY <1>1, <2>3
  <2>4. CASE u \in Holders(m) /\ v \in Holders(m)
    BY <2>4 DEF EmailsExact
  <2> QED
    BY <1>2, <2>1, <2>2, <2>3, <2>4, HoldersWere
<1>3. ASSUME NEW m, NEW u, Holders(m) \subseteq {u}, pc[r] \notin {"userInsert", "userSet"}
      PROVE  \A v \in AccountNames : accounts'[v].email = m /\ accounts'[v].email # None
                                        /\ accounts'[v].status # "deleted" => v = u
  <2> SUFFICES ASSUME NEW v \in AccountNames, accounts'[v].email = m, accounts'[v].email # None,
                      accounts'[v].status # "deleted"
               PROVE  v = u
    OBVIOUS
  <2>1. v \in Holders(m)'
    BY DEF Holders, AccountIsHere
  <2>2. v \in Holders(m)
    BY <1>3, <2>1, HoldersWere DEF AccountMailed
  <2> QED
    BY <1>3, <2>2
<1>4. ASSUME NEW q \in Requests, pc'[q] = "userInsert"
      PROVE  Holders(GivenEmail(local[q].changes))' \subseteq {q}
  <2>1. q = r
    BY <1>4, OnlyMover DEF InFlight, Final
  <2>2. InFlight(r)
    <3>1. ~InFlight(r) => \E l : Known(r, pc'[r], l)
      BY Arrived
    <3> QED
      BY <1>4, <2>1, <3>1 DEF Known, Final
  <2>3. /\ pc[r] = "emailLookup" /\ EmailIsAvailable(r, GivenEmail(local[r].changes))
        /\ local'[r] = local[r]
    BY <1>0, <1>4, <2>1, <2>2, GoneOn DEF Edge, AfterInsert, CallersAre, Final
  <2>4. PICK m : m = GivenEmail(local[r].changes)
    OBVIOUS
  <2>5. Holders(m) \subseteq {r}
    BY <2>3, <2>4 DEF EmailIsAvailable
  <2> QED
    BY <1>3, <2>1, <2>3, <2>4, <2>5 DEF Holders, AccountIsHere, GivenEmail
<1>5. ASSUME NEW q \in Requests, pc'[q] = "userSet"
      PROVE  Holders(GivenEmail(local[q].changes))' \subseteq {local'[q].user}
  <2>1. q = r
    BY <1>5, OnlyMover DEF InFlight, Final
  <2>2. ASSUME NEW l, l.user \in AccountNames,
               AccountIsHere(l.user), GivenEmail(l.changes) \in {None, accounts[l.user].email}
        PROVE  Holders(GivenEmail(l.changes)) \subseteq {l.user}
    <3>1. CASE GivenEmail(l.changes) = None
      BY <3>1 DEF Holders, AccountIsHere
    <3>2. CASE GivenEmail(l.changes) # None
      <4>1. PICK m : m = GivenEmail(l.changes) /\ m = accounts[l.user].email /\ m # None
        BY <2>2, <3>2
      <4>2. m \in Emails /\ l.user \in Holders(m)
        BY <2>2, <4>1 DEF Holders, DirHere, AccountTypeOK, AccountDoc
      <4> QED
        BY <4>1, <4>2 DEF EmailsExact
    <3> QED
      BY <3>1, <3>2
  <2>3. \E u, m : /\ u = local'[r].user /\ m = GivenEmail(local'[r].changes)
                  /\ Holders(m) \subseteq {u} /\ pc[r] \notin {"userInsert", "userSet"}
    <3>1. CASE InFlight(r)
      <4>1. /\ \/ pc[r] = "userCheck" /\ EmailIsAvailable(local[r].user, GivenEmail(local[r].changes))
               \/ /\ pc[r] = "speakerUser" /\ AccountIsHere(local[r].user)
                  /\ GivenEmail(local[r].changes) \in {None, accounts[local[r].user].email}
            /\ local'[r] = local[r]
        BY <1>0, <1>5, <2>1, <3>1, GoneOn DEF Edge, AfterInsert, CallersAre, Final
      <4>2. CASE pc[r] = "userCheck" /\ EmailIsAvailable(local[r].user, GivenEmail(local[r].changes))
        BY <4>1, <4>2 DEF EmailIsAvailable
      <4>3. CASE /\ pc[r] = "speakerUser" /\ AccountIsHere(local[r].user)
                 /\ GivenEmail(local[r].changes) \in {None, accounts[local[r].user].email}
        <5>1. local[r].op = "updateSpeaker"
          BY <1>0, <4>3 DEF CallersAre, Asked
        <5>2. local[r].user \in AccountNames
          BY <3>1, <5>1, InFlightFits DEF Fits, UserOps
        <5>4. Holders(GivenEmail(local[r].changes)) \subseteq {local[r].user}
          BY <2>2, <4>3, <5>2
        <5> QED
          BY <4>1, <4>3, <5>4
      <4> QED
        BY <4>1, <4>2, <4>3
    <3>2. CASE ~InFlight(r)
      <4>1. PICK l : Known(r, "userSet", l) /\ Fits("userSet", l) /\ local'[r] = l
        BY <1>5, <2>1, <3>2, Arrived DEF Final
      <4>2. AccountIsHere(l.user) /\ GivenEmail(l.changes) \in {None, accounts[l.user].email}
        BY <4>1 DEF Known
      <4>3. l.op \in DirOps /\ "userSet" \in Calls(l.op)
        BY <4>1 DEF Fits, Final
      <4>4. l.op \in {"updateUser", "updateSpeaker"}
        BY <4>3 DEF Calls, DirOps, CompanyOps, UserOps, MethodOps, TokenOps, PhotoOps,
                    PasswordOps, LogoOps
      <4>5. l.user \in AccountNames
        BY <4>1, <4>4 DEF Fits, UserOps, Final
      <4>6. Holders(GivenEmail(l.changes)) \subseteq {l.user}
        BY <2>2, <4>2, <4>5
      <4>7. pc[r] = "idle"
        BY <3>2, Arrived
      <4> QED
        BY <4>1, <4>6, <4>7
    <3> QED
      BY <3>1, <3>2
  <2>4. PICK u, m : /\ u = local'[r].user /\ m = GivenEmail(local'[r].changes)
                    /\ Holders(m) \subseteq {u} /\ pc[r] \notin {"userInsert", "userSet"}
    BY <2>3
  <2>5. \A v \in AccountNames : accounts'[v].email = m /\ accounts'[v].email # None
                                   /\ accounts'[v].status # "deleted" => v = u
    BY <1>3, <2>4
  <2>6. GivenEmail(local'[q].changes) = m /\ local'[q].user = u
    BY <2>1, <2>4
  <2> QED
    BY <2>5, <2>6 DEF Holders, AccountIsHere, GivenEmail
<1> QED
  BY <1>2, <1>4, <1>5 DEF EmailsExact

(***************************************************************************)
(* The passwords.                                                           *)
(***************************************************************************)
\* A password that is answered is stored; one that is refused is not.
LEMMA PasswordsGiven ==
  ASSUME DirHere, NEW r \in Requests, Moved(r), Acts(r), pc[r] = "passwordSet", pc'[r] # "failed"
  PROVE  /\ local[r].user \in AccountNames /\ local'[r].op = local[r].op
         /\ local'[r].user = local[r].user /\ local[r].op \in PasswordOps
         /\ \/ pc'[r] = "error" /\ UNCHANGED accounts
            \/ /\ pc'[r] \in {"ok", "tokenUnset"}
               /\ accounts'[local[r].user].password = r /\ AccountIsHere(local[r].user)
               /\ accounts'[local[r].user].email = accounts[local[r].user].email
               /\ accounts'[local[r].user].status = accounts[local[r].user].status
<1>1. InFlight(r) /\ CallersAre(r)
  BY Callers DEF InFlight, Final, DirHere, RequestsFit
<1>2. local[r].op \in PasswordOps /\ local[r].op \in UserOps
  BY <1>1 DEF CallersAre, UserOps, TokenOps
<1>3. PICK u \in AccountNames : u = local[r].user
  BY <1>1, <1>2, InFlightFits DEF Fits, UserOps, TokenOps, PasswordOps
<1>4. local'[r].op = local[r].op /\ local'[r].user = local[r].user
  BY <1>1, <1>2, GoneOn
<1>5. SetPassword(r)
  BY Writers DEF Written
<1>6. CASE ~AccountIsHere(u) /\ Goto(r, "error") /\ UNCHANGED accounts
  <2>1. pc'[r] = "error"
    BY <1>6 DEF Goto, Continue, DirHere, Here
  <2> QED
    BY <1>2, <1>3, <1>4, <1>6, <2>1
<1>7. CASE /\ AccountIsHere(u) /\ accounts' = [accounts EXCEPT ![u] = PasswordGiven(accounts[u], r)]
           /\ \E label \in {"ok", "tokenUnset", "failed"} : Goto(r, label)
  <2>1. pc'[r] \in {"ok", "tokenUnset"}
    BY <1>7 DEF Goto, Continue, DirHere, Here
  <2>2. accounts[u] \in AccountDoc /\ accounts'[u] = [accounts[u] EXCEPT !.password = r]
    BY <1>7 DEF DirHere, AccountTypeOK, PasswordGiven
  <2>3. accounts'[u].password = r /\ accounts'[u].email = accounts[u].email
        /\ accounts'[u].status = accounts[u].status
    BY <2>2 DEF AccountDoc
  <2> QED
    BY <1>2, <1>3, <1>4, <1>7, <2>1, <2>3
<1> QED
  BY <1>3, <1>5, <1>6, <1>7 DEF SetPassword, SetAccount

\* Who has given a password has done so when it was set.
LEMMA GiversAre ==
  ASSUME DirHere, NEW r \in Requests, Moved(r), pc'[r] \in {"ok", "tokenUnset"},
         local'[r].op \in PasswordOps
  PROVE  /\ InFlight(r) /\ local[r].op = local'[r].op /\ local[r].user = local'[r].user
         /\ pc[r] = "passwordSet" \/ (pc[r] = "tokenUnset" /\ pc'[r] = "ok")
<1>1. InFlight(r)
  <2> SUFFICES ASSUME ~InFlight(r) PROVE FALSE
    OBVIOUS
  <2>1. PICK l : Known(r, pc'[r], l) /\ l.op = local'[r].op
    BY Arrived
  <2>2. l.op \in {"reset", "changePassword"}
    BY <2>1 DEF PasswordOps
  <2>3. pc'[r] # "ok"
    BY <2>1, <2>2 DEF Known
  <2>4. pc'[r] # "tokenUnset"
    BY <2>1 DEF Known, Final
  <2> QED
    BY <2>3, <2>4
<1>2. /\ Edge(r, pc'[r]) /\ local'[r].op = local[r].op
      /\ local[r].op \in UserOps => local'[r].user = local[r].user
  BY <1>1, GoneOn
<1>3. local[r].op \in UserOps
  BY <1>2 DEF UserOps, TokenOps
<1>4. pc[r] \in {"passwordSet", "resetRead", "tokenUnset"}
  BY <1>1, <1>2, InFlightFits DEF Calls, PasswordOps, MethodOps
<1> QED
  BY <1>1, <1>2, <1>3, <1>4 DEF Edge

\* The last password given stays the password.
LEMMA PasswordsExactKept ==
  ASSUME DirHere, DirHere', NEW r \in Requests, Moved(r), Acts(r), AccountsDo(r), CompaniesDo(r), Alone(r),
         InsertedInv, PasswordsExact
  PROVE  PasswordsExact'
<1>0. CallersAre(r)
  BY Callers DEF DirHere, RequestsFit
<1>1. \A q \in Requests \ {r} : pc'[q] = pc[q] /\ local'[q] = local[q] /\ before'[q] = before[q]
  BY OthersStay
<1>2. ASSUME NEW q \in Requests, pc'[q] = "tokenUnset"
      PROVE  AccountIsHere(local[q].user)'
  <2>1. q = r
    BY <1>2, OnlyMover DEF InFlight, Final
  <2>2. local'[r].op \in PasswordOps
    <3>1. Fits("tokenUnset", local'[r])
      BY <1>2, <2>1 DEF DirHere
    <3>2. local'[r].op \in DirOps /\ "tokenUnset" \in Calls(local'[r].op)
      BY <3>1 DEF Fits, Final
    <3> QED
      BY <3>2 DEF Calls, DirOps, CompanyOps, UserOps, MethodOps, TokenOps, PhotoOps, PasswordOps,
                  LogoOps
  <2>3. pc[r] = "passwordSet"
    BY <1>2, <2>1, <2>2, GiversAre
  <2>4. /\ AccountIsHere(local[r].user) /\ local'[r].user = local[r].user
        /\ accounts'[local[r].user].email = accounts[local[r].user].email
        /\ accounts'[local[r].user].status = accounts[local[r].user].status
    BY <1>2, <2>1, <2>3, PasswordsGiven
  <2> QED
    BY <2>1, <2>4 DEF AccountIsHere
<1>3. ASSUME NEW u \in AccountNames, NEW s \in Requests, s \in LastOf(Givers(u))'
      PROVE  accounts'[u].password = s /\ accounts'[u].email # None
  <2>0. s \in Givers(u)' /\ (Givers(u)' \ {s}) \subseteq before'[s]
    BY <1>3 DEF LastOf
  <2>1. ASSUME r \in Givers(u)'
        PROVE  s = r
    <3>1. r \notin before'[s] \/ s = r
      BY <1>1, OthersStay DEF DirHere, Here
    <3> QED
      BY <2>0, <2>1, <3>1
  <2>2. CASE r \in Givers(u)'
    <3>1. /\ pc'[r] \in {"ok", "tokenUnset"} /\ local'[r].op \in PasswordOps /\ local'[r].user = u
      BY <2>2 DEF Givers
    <3>2. /\ InFlight(r) /\ local[r].op \in PasswordOps /\ local[r].user = u
          /\ pc[r] = "passwordSet" \/ (pc[r] = "tokenUnset" /\ pc'[r] = "ok")
      BY <3>1, GiversAre
    <3>3. CASE pc[r] = "passwordSet"
      <4>1. accounts'[u].password = r /\ AccountIsHere(u) /\ accounts'[u].email = accounts[u].email
        BY <3>1, <3>2, <3>3, PasswordsGiven
      <4> QED
        BY <2>1, <2>2, <4>1 DEF AccountIsHere
    <3>4. CASE pc[r] = "tokenUnset"
      <4>1. before'[r] = before[r]
        BY <3>4, OthersStay
      <4>2. r \in Givers(u) /\ Givers(u) \ {r} \subseteq Givers(u)'
        BY <1>1, <3>2, <3>4 DEF Givers
      <4>3. r \in LastOf(Givers(u))
        BY <2>0, <2>1, <2>2, <4>1, <4>2 DEF LastOf
      <4>4. accounts[u].password = r /\ accounts[u].email # None
        BY <4>3 DEF PasswordsExact
      <4>5. accounts'[u].password = accounts[u].password
        BY <3>4 DEF AccountsDo, AccountInserted, AccountEdited, InsertUser, SetPassword
      <4> QED
        BY <2>1, <2>2, <4>4, <4>5, RecordsStay
    <3> QED
      BY <3>2, <3>3, <3>4
  <2>3. CASE r \notin Givers(u)'
    <3>1. r \notin Givers(u)
      <4> SUFFICES ASSUME r \in Givers(u) PROVE FALSE
        OBVIOUS
      <4>1. pc[r] = "tokenUnset" /\ InFlight(r) /\ local[r].op \in PasswordOps /\ local[r].user = u
        BY OthersStay DEF Givers, InFlight, Final
      <4>2. /\ Edge(r, pc'[r]) /\ local'[r].op = local[r].op /\ local'[r].user = local[r].user
        BY <4>1, GoneOn DEF UserOps, TokenOps
      <4>3. AccountIsHere(u)
        BY <4>1 DEF PasswordsExact
      <4>4. pc'[r] = "ok"
        BY <4>1, <4>2, <4>3 DEF Edge, Alone
      <4> QED
        BY <2>3, <4>1, <4>2, <4>4 DEF Givers
    <3>2. Givers(u)' = Givers(u)
      BY <1>1, <2>3, <3>1 DEF Givers
    <3>3. s # r /\ s \in LastOf(Givers(u))
      BY <1>1, <2>0, <2>3, <3>2 DEF LastOf
    <3>4. accounts[u].password = s /\ accounts[u].email # None
      BY <3>3 DEF PasswordsExact
    <3>5. ~AccountInserted(r, u)
      BY <3>4 DEF AccountInserted, InsertUser, InsertedInv
    <3>6. CASE SetPassword(r) /\ u = local[r].user
      <4>1. pc[r] = "passwordSet"
        BY <3>6 DEF SetPassword
      <4>2. pc'[r] = "error" /\ UNCHANGED accounts
        BY <2>3, <3>6, <4>1, PasswordsGiven DEF Alone, Givers
      <4> QED
        BY <3>4, <4>2
    <3>7. CASE ~(SetPassword(r) /\ u = local[r].user)
      <4>1. accounts'[u].password = accounts[u].password
        BY <3>5, <3>7 DEF AccountsDo, AccountEdited
      <4> QED
        BY <3>4, <4>1, RecordsStay
    <3> QED
      BY <3>6, <3>7
  <2> QED
    BY <2>2, <2>3
<1> QED
  BY <1>2, <1>3 DEF PasswordsExact, LastOf, Givers

(***************************************************************************)
(* The methods.                                                             *)
(***************************************************************************)
\* Turning over once more.
LEMMA OneMoreTurn ==
  ASSUME NEW S, IsFiniteSet(S), NEW r, r \notin S, NEW on \in BOOLEAN, NEW now \in BOOLEAN,
         on = (Cardinality(S) % 2 = 0), now = ~on
  PROVE  now = (Cardinality(S \cup {r}) % 2 = 0)
<1>1. Cardinality(S \cup {r}) = Cardinality(S) + 1 /\ Cardinality(S) \in Nat
  BY FS_AddElement, FS_CardinalityType
<1>2. PICK n \in Nat : n = Cardinality(S)
  BY <1>1
<1>3. (n + 1) % 2 = 0 <=> ~(n % 2 = 0)
  OBVIOUS
<1> QED
  BY <1>1, <1>2, <1>3

\* Each toggle turns a method over.
LEMMA MethodsExactKept ==
  ASSUME DirHere, DirHere', NEW r \in Requests, Moved(r), Acts(r), MethodsDo(r), Alone(r), MethodsExact
  PROVE  MethodsExact'
<1>0. CallersAre(r) /\ MethodTypeOK /\ MethodTypeOK'
  BY Callers DEF DirHere, RequestsFit
<1>1. \A q \in Requests \ {r} : pc'[q] = pc[q] /\ local'[q] = local[q]
  BY OthersStay
<1>2. ASSUME NEW q \in Requests, pc'[q] = "methodSave"
      PROVE  local'[q].old = methods'[local'[q].method]
  <2>1. q = r
    BY <1>2, OnlyMover DEF InFlight, Final
  <2>2. ~InFlight(r)
    <3>1. InFlight(r) => Edge(r, "methodSave")
      BY <1>2, <2>1, GoneOn
    <3> QED
      BY <1>0, <3>1 DEF Edge, AfterInsert, CallersAre
  <2>3. PICK l : Known(r, "methodSave", l) /\ Fits("methodSave", l) /\ local'[r] = l
    BY <1>2, <2>1, <2>2, Arrived DEF Final
  <2>4. l.op \in DirOps /\ "methodSave" \in Calls(l.op)
    BY <2>3 DEF Fits, Final
  <2>5. l.op \in MethodOps
    BY <2>4 DEF Calls, DirOps, CompanyOps, UserOps, TokenOps, PhotoOps, PasswordOps, LogoOps
  <2>6. PICK k \in Methods : k = l.method
    BY <2>3, <2>5 DEF Fits
  <2>7. pc[r] = "idle"
    BY <2>2, Arrived
  <2>8. ~CreateMethod(r)
    <3>1. CreateMethod(r) => pc'[r] \in {"ok", "failed"}
      BY DEF CreateMethod, Start, DirHere, Here
    <3> QED
      BY <1>2, <2>1, <3>1
  <2>9. methods'[k] = methods[k]
    BY <2>7, <2>8 DEF MethodsDo, MethodCreated, MethodChanged
  <2> QED
    BY <2>1, <2>3, <2>6, <2>9 DEF Known
<1>3. ASSUME NEW k \in EarlierMethods, Switches("updateMethod", k)' = {}
      PROVE  methods'[k].enabled = (Cardinality(Switches("toggleMethod", k)') % 2 = 0)
  <2>1. k \in Methods /\ k # r
    BY MethodsAssumption DEF Methods
  <2>2. \A op : r \notin Switches(op, k)
    BY OthersStay DEF Switches, Final
  <2>3. \A op : Switches(op, k)' \ {r} = Switches(op, k)
    BY <1>1, <2>2 DEF Switches, Asked
  <2>4. methods[k].enabled = (Cardinality(Switches("toggleMethod", k)) % 2 = 0)
    <3>1. Switches("updateMethod", k) = {}
      BY <1>3, <2>3
    <3> QED
      BY <3>1 DEF MethodsExact
  <2>5. ~MethodCreated(r, k)
    BY <2>1 DEF MethodCreated
  <2>6. ASSUME pc[r] = "methodSave", pc'[r] = "ok"
        PROVE  local'[r].op = local[r].op /\ local'[r].method = local[r].method
    BY <1>0, <2>6, GoneOn DEF CallersAre, InFlight, Final
  <2>7. CASE r \in Switches("toggleMethod", k)'
    <3>1. pc'[r] = "ok" /\ local'[r].op = "toggleMethod" /\ local'[r].method = k
      BY <2>7 DEF Switches, Asked
    <3>2. InFlight(r)
      <4>1. ~InFlight(r) => \E l : Known(r, pc'[r], l) /\ l.op = local'[r].op
        BY Arrived
      <4> QED
        BY <3>1, <4>1 DEF Known, MethodOps
    <3>3. local[r].op = "toggleMethod"
      BY <3>1, <3>2, GoneOn
    <3>4. pc[r] = "methodSave"
      BY <3>2, <3>3, InFlightFits DEF Calls, MethodOps
    <3>5. SaveMethod(r) /\ local[r].method = k
      BY <2>6, <3>1, <3>4, Writers DEF Written
    <3>6. /\ local[r].old = methods[k] /\ local[r].new.enabled = ~local[r].old.enabled
          /\ MethodFits(local[r])
      BY <3>2, <3>3, <3>4, <3>5, InFlightFits DEF Fits, MethodFits, MethodOps, MethodsExact
    <3>7. methods'[k].enabled = local[r].new.enabled
      <4>1. methods' = [methods EXCEPT ![k] = MethodSaved(methods[k], local[r].old, local[r].new)]
        BY <2>1, <3>5, <1>0 DEF SaveMethod, MethodTypeOK
      <4>2. methods'[k] = MethodSaved(methods[k], local[r].old, local[r].new)
        BY <1>0, <2>1, <4>1 DEF MethodTypeOK
      <4>3. "enabled" \in DOMAIN methods[k]
        BY <1>0, <2>1 DEF MethodTypeOK, MethodDoc
      <4> QED
        BY <3>6, <4>2, <4>3 DEF MethodSaved
    <3>8. methods[k].enabled \in BOOLEAN /\ methods'[k].enabled \in BOOLEAN
      BY <1>0, <2>1 DEF MethodTypeOK, MethodDoc
    <3>9. methods'[k].enabled = ~methods[k].enabled
      BY <3>6, <3>7
    <3>10. Switches("toggleMethod", k)' = Switches("toggleMethod", k) \cup {r}
      BY <2>3, <2>7
    <3>11. IsFiniteSet(Switches("toggleMethod", k))
      <4>1. Switches("toggleMethod", k) \subseteq Requests
        BY DEF Switches
      <4> QED
        BY <4>1, RequestsAssumption, FS_Subset
    <3>12. PICK S : S = Switches("toggleMethod", k)
      OBVIOUS
    <3>13. PICK on \in BOOLEAN, now \in BOOLEAN : on = methods[k].enabled /\ now = methods'[k].enabled
      BY <3>8
    <3>14. on = (Cardinality(S) % 2 = 0)
      BY <2>4, <3>12, <3>13
    <3>15. now = (Cardinality(S \cup {r}) % 2 = 0)
      <4>1. IsFiniteSet(S) /\ r \notin S
        BY <2>2, <3>11, <3>12
      <4>2. now = ~on
        BY <3>9, <3>13
      <4> QED
        BY <3>14, <4>1, <4>2, OneMoreTurn
    <3> QED
      BY <3>10, <3>12, <3>13, <3>15
  <2>8. CASE r \notin Switches("toggleMethod", k)'
    <3>1. Switches("toggleMethod", k)' = Switches("toggleMethod", k)
      BY <2>3, <2>8
    <3>2. methods'[k].enabled = methods[k].enabled
      <4>1. CASE MethodChanged(r, k)
        <5>1. SaveMethod(r) /\ pc[r] = "methodSave" /\ k = local[r].method
          BY <4>1 DEF MethodChanged
        <5>2. pc'[r] = "ok"
          BY <5>1 DEF SaveMethod, Ends, Goto, Continue, Alone, DirHere, Here
        <5>3. local'[r].op = local[r].op /\ local'[r].method = k
          BY <2>6, <5>1, <5>2
        <5>4. local'[r].op \notin {"updateMethod", "toggleMethod"}
          BY <1>3, <2>8, <5>2, <5>3 DEF Switches, Asked
        <5>5. Asked(r, "deleteMethod")
          BY <1>0, <5>1, <5>3, <5>4 DEF CallersAre, MethodOps, Asked
        <5> QED
          BY <4>1, <5>5 DEF MethodChanged
      <4> QED
        BY <2>1, <2>5, <4>1 DEF MethodsDo
    <3> QED
      BY <2>4, <3>1, <3>2
  <2> QED
    BY <2>7, <2>8
<1> QED
  BY <1>2, <1>3 DEF MethodsExact, Switches, Asked

(***************************************************************************)
(* The invariant holds at first,                                            *)
(***************************************************************************)
\* The users of the start.
LEMMA AccountsAtFirst ==
  ASSUME AccountInit
  PROVE  /\ AccountTypeOK
         /\ \A u \in AccountNames : /\ u \in EarlierAccounts => accounts[u].email = AccountEmail[u]
                                    /\ u \notin EarlierAccounts => accounts[u].email = None
                                    /\ accounts[u].reset = None
                                    /\ accounts[u].avatar # None =>
                                            accounts[u].avatar = u /\ u \in EarlierAccounts \cap EarlierFiles
         /\ \A u \in EarlierAccounts : accounts[u].email # None
<1>1. NoAccount \in AccountDoc
  BY DEF NoAccount, AccountDoc, EntityStatus
<1>2. ASSUME NEW u \in EarlierAccounts
      PROVE  /\ u \in AccountNames /\ accounts[u] \in AccountDoc
             /\ accounts[u].email = AccountEmail[u] /\ AccountEmail[u] \in Emails
             /\ accounts[u].reset = None
             /\ accounts[u].avatar = IF u \in EarlierFiles THEN u ELSE None
  <2>1. accounts[u] = [NoAccount EXCEPT !.email = AccountEmail[u],
                                        !.avatar = IF u \in EarlierFiles THEN u ELSE None]
    BY DEF AccountInit, AccountNames
  <2>2. AccountEmail[u] \in Emails
    BY AccountsAssumption
  <2> QED
    BY <1>1, <2>1, <2>2 DEF AccountDoc, NoAccount, AccountNames
<1>3. ASSUME NEW u \in AccountNames, u \notin EarlierAccounts
      PROVE  accounts[u] = NoAccount
  BY <1>3 DEF AccountInit
<1>4. AccountTypeOK
  <2>1. DOMAIN accounts = AccountNames /\ accounts = [u \in AccountNames |-> accounts[u]]
    BY DEF AccountInit
  <2>2. \A u \in AccountNames : accounts[u] \in AccountDoc
    BY <1>1, <1>2, <1>3
  <2> QED
    BY <2>1, <2>2 DEF AccountTypeOK
<1> QED
  BY <1>2, <1>3, <1>4, CompaniesAssumption DEF NoAccount

\* The companies of the start.
LEMMA CompaniesAtFirst ==
  ASSUME CompanyInit
  PROVE  /\ CompanyTypeOK
         /\ \A c \in CompanyNames : /\ c \in EarlierCompanies => companies[c].email = CompanyEmail[c]
                                    /\ companies[c].stored => c \in EarlierCompanies
                                    /\ companies[c].logo # None =>
                                            companies[c].logo = c /\ c \in EarlierCompanies \cap EarlierFiles
<1>1. NoCompany \in CompanyDoc
  BY DEF NoCompany, CompanyDoc, EntityStatus
<1>2. ASSUME NEW c \in CompanyNames
      PROVE  /\ companies[c] \in CompanyDoc
             /\ c \in EarlierCompanies => companies[c].email = CompanyEmail[c]
             /\ companies[c].stored => c \in EarlierCompanies
             /\ companies[c].logo # None =>
                    companies[c].logo = c /\ c \in EarlierCompanies \cap EarlierFiles
  <2>1. CASE c \in EarlierCompanies
    <3>1. companies[c] = [stored |-> TRUE, email |-> CompanyEmail[c], status |-> "active",
                          logo |-> IF c \in EarlierFiles THEN c ELSE None]
      BY <2>1 DEF CompanyInit, CompanyNames
    <3>2. CompanyEmail[c] \in Emails \cup {None}
      BY <2>1, CompaniesAssumption
    <3> QED
      BY <2>1, <3>1, <3>2 DEF CompanyDoc, EntityStatus
  <2>2. CASE c \notin EarlierCompanies
    <3>1. companies[c] = NoCompany
      BY <2>2 DEF CompanyInit
    <3> QED
      BY <1>1, <2>2, <3>1 DEF NoCompany
  <2> QED
    BY <2>1, <2>2
<1>3. companies = [c \in CompanyNames |-> companies[c]]
  BY DEF CompanyInit
<1> QED
  BY <1>2, <1>3 DEF CompanyTypeOK

\* Nothing was asked.
LEMMA DirInvInit ==
  ASSUME DirectoryInit
  PROVE  DirInv
<1>0. /\ HandlersInit /\ StorageInit /\ CompanyInit /\ AccountInit /\ SpeakerInit /\ MethodInit
      /\ scope \in Scopes
  BY DEF DirectoryInit
<1>1. \A r \in Requests : pc[r] = "idle" /\ local[r] = NoLocal /\ local[r].op = "none"
  BY <1>0 DEF HandlersInit, NoLocal
<1>2. DirHere
  <2>1. Here(DirLabels)
    BY <1>0, HereInit
  <2>2. StorageTypeOK
    BY <1>0 DEF StorageInit, StorageTypeOK
  <2>3. SpeakerTypeOK
    BY <1>0, SpeakersAssumption
       DEF SpeakerInit, SpeakerTypeOK, SpeakerDoc, NoSpeaker, SpeakerNames, AccountNames, EntityStatus
  <2>4. MethodTypeOK
    BY <1>0 DEF MethodInit, MethodTypeOK, MethodDoc, NoMethod
  <2> QED
    BY <1>0, <1>1, <2>1, <2>2, <2>3, <2>4, AccountsAtFirst, CompaniesAtFirst DEF DirHere
<1>3. InsertedInv
  BY <1>0, AccountsAtFirst, AccountsAssumption DEF InsertedInv, AccountNames
<1>4. RegisterInv
  BY <1>1 DEF RegisterInv, Asked, InFlight
<1>5. SpeakersHaveUsers
  <2> SUFFICES ASSUME NEW s \in SpeakerNames, speakers[s].user # None
               PROVE  accounts[speakers[s].user].email # None
    BY DEF SpeakersHaveUsers
  <2>1. speakers[s].user = s /\ s \in EarlierSpeakerRecords
    BY <1>0 DEF SpeakerInit, NoSpeaker
  <2> QED
    BY <1>0, <2>1, AccountsAtFirst, SpeakersAssumption
<1>6. TokenInv
  BY <1>0, <1>1, AccountsAtFirst DEF TokenInv, Asked
<1>7. LogoInv
  <2>1. LogosOwned
    BY <1>0, <1>1, CompaniesAtFirst DEF LogosOwned, LogoOf, InFlight
  <2>2. LogosBacked
    BY <1>0, CompaniesAtFirst DEF LogosBacked, StorageInit
  <2>3. \A r \in Requests : LogoAsked(r)
    BY <1>1 DEF LogoAsked, InFlight
  <2> QED
    BY <2>1, <2>2, <2>3 DEF LogoInv
<1>8. PhotoInv
  <2>1. PhotosOwned
    BY <1>0, <1>1, AccountsAtFirst DEF PhotosOwned, PhotoOf, InFlight
  <2>2. AvatarFilesExist
    BY <1>0, AccountsAtFirst DEF AvatarFilesExist, StorageInit
  <2>3. \A r \in Requests : PhotoAsked(r)
    BY <1>1 DEF PhotoAsked
  <2> QED
    BY <2>1, <2>2, <2>3 DEF PhotoInv
<1>9. MethodInv
  <2>1. \A r \in Requests : methods[r].status = "none"
    BY <1>0, MethodsAssumption DEF MethodInit, NoMethod, Methods
  <2> QED
    BY <1>1, <2>1 DEF MethodInv, Asked
<1> QED
  BY <1>2, <1>3, <1>4, <1>5, <1>6, <1>7, <1>8, <1>9 DEF DirInv

\* No e-mail is shared, and no password was given.
LEMMA DirSerialInit ==
  ASSUME DirectoryInit
  PROVE  DirSerialInv
<1>0. HandlersInit /\ CompanyInit /\ AccountInit /\ MethodInit
  BY DEF DirectoryInit
<1>1. \A r \in Requests : pc[r] = "idle" /\ local[r].op = "none"
  BY <1>0 DEF HandlersInit, NoLocal
<1>2. CompaniesExact
  <2>1. \A c \in CompanyNames : CompanyIsHere(c) => c \in EarlierCompanies /\ companies[c].email = CompanyEmail[c]
    BY <1>0, CompaniesAtFirst DEF CompanyIsHere
  <2> QED
    BY <1>1, <2>1, EmailsAssumption DEF CompaniesExact, EmailHeld
<1>3. EmailsExact
  <2>1. \A m, u : u \in Holders(m) => u \in EarlierAccounts /\ AccountEmail[u] = m
    BY <1>0, AccountsAtFirst DEF Holders, AccountIsHere
  <2> QED
    BY <1>1, <2>1, EmailsAssumption DEF EmailsExact
<1>4. PasswordsExact
  <2>1. \A u : Givers(u) = {}
    BY <1>1 DEF Givers
  <2>2. \A u : LastOf(Givers(u)) = {}
    BY <2>1 DEF LastOf
  <2> QED
    BY <1>1, <2>2 DEF PasswordsExact
<1>5. MethodsExact
  <2>1. \A k : Switches("toggleMethod", k) = {}
    BY <1>1 DEF Switches
  <2>2. Cardinality({}) % 2 = 0
    BY FS_EmptySet
  <2>3. \A k \in EarlierMethods : methods[k].enabled = TRUE
    BY <1>0 DEF MethodInit, Methods, NoMethod
  <2> QED
    BY <1>1, <2>1, <2>2, <2>3 DEF MethodsExact
<1> QED
  BY <1>2, <1>3, <1>4, <1>5 DEF DirSerialInv

(***************************************************************************)
(* and every step keeps it: one of a request,                               *)
(***************************************************************************)
LEMMA RunsKeep ==
  ASSUME DirInv, NEW r \in Requests, Runs(r)
  PROVE  DirInv' /\ (DirSerialInv => DirSerialInv')
<1>0. DirHere /\ InsertedInv /\ RegisterInv /\ SpeakersHaveUsers /\ TokenInv /\ LogoInv /\ PhotoInv
      /\ MethodInv
  BY DEF DirInv
<1>1. DirHere' /\ Moved(r) /\ Acts(r)
  BY <1>0, RunsKeepHere
<1>2. AccountsDo(r) /\ CompaniesDo(r) /\ MethodsDo(r)
  BY <1>0, <1>1, AccountsChange, CompaniesChange, MethodsChange
<1>3. LogosOwned /\ PhotosOwned /\ \A p \in Requests : LogoAsked(p) /\ PhotoAsked(p)
  BY <1>0 DEF LogoInv, PhotoInv
<1>4. FilesDo(r)
  BY <1>0, <1>1, <1>3, FilesChange
<1>5. InsertedInv' /\ RegisterInv' /\ SpeakersHaveUsers' /\ TokenInv'
  BY <1>0, <1>1, <1>2, InsertedKept, RegisterKept, SpeakersKept, TokensKept
<1>6. LogoInv'
  <2>1. LogosOwned' /\ LogosBacked'
    BY <1>0, <1>1, <1>2, <1>3, <1>4, LogosOwnedKept, LogosBackedKept
  <2>2. \A p \in Requests : LogoAsked(p)'
    BY <1>0, <1>1, <1>2, <1>3, <1>4, LogoAskedKept
  <2> QED
    BY <2>1, <2>2 DEF LogoInv
<1>7. PhotoInv'
  <2>1. PhotosOwned' /\ AvatarFilesExist'
    BY <1>0, <1>1, <1>2, <1>3, <1>4, PhotosOwnedKept, AvatarsKept
  <2>2. \A p \in Requests : PhotoAsked(p)'
    BY <1>0, <1>1, <1>2, <1>3, <1>4, PhotoAskedKept
  <2> QED
    BY <2>1, <2>2 DEF PhotoInv
<1>8. MethodInv'
  BY <1>0, <1>1, <1>2, MethodsKept
<1>9. DirInv'
  BY <1>1, <1>5, <1>6, <1>7, <1>8 DEF DirInv
<1>10. ASSUME DirSerialInv, SerialSoFar'
       PROVE  /\ CompaniesOnlyDeleted' => CompaniesExact'
              /\ UsersOnlyDeleted' => EmailsExact'
              /\ PasswordsExact' /\ MethodsExact'
  <2>1. SerialSoFar /\ Alone(r)
    BY <1>0, <1>1, <1>10, MovedAlone
  <2>2. CompaniesOnlyDeleted' => CompaniesExact'
    BY <1>0, <1>1, <1>2, <1>10, <2>1, StatusesStay, CompaniesExactKept DEF DirSerialInv
  <2>3. UsersOnlyDeleted' => EmailsExact'
    BY <1>0, <1>1, <1>2, <1>10, <2>1, StatusesStay, EmailsExactKept DEF DirSerialInv
  <2>4. PasswordsExact'
    BY <1>0, <1>1, <1>2, <1>10, <2>1, PasswordsExactKept DEF DirSerialInv
  <2>5. MethodsExact'
    BY <1>0, <1>1, <1>2, <1>10, <2>1, MethodsExactKept DEF DirSerialInv
  <2> QED
    BY <2>2, <2>3, <2>4, <2>5
<1> QED
  BY <1>9, <1>10 DEF DirSerialInv

(***************************************************************************)
(* one of a token, and one of nobody.                                       *)
(***************************************************************************)
\* Nothing changes of what the invariant reads.
Rests ==
    /\ UNCHANGED <<pc, local, before, companies, files, speakers, methods, scope>>
    /\ AccountTypeOK'
    /\ \A u \in AccountNames :
        /\ accounts'[u].email = accounts[u].email /\ accounts'[u].status = accounts[u].status
        /\ accounts'[u].companyIds = accounts[u].companyIds /\ accounts'[u].reset = accounts[u].reset
        /\ accounts'[u].password = accounts[u].password /\ accounts'[u].avatar = accounts[u].avatar

\* The expiry of a token is not read by it.
LEMMA ExpiryRests ==
  ASSUME AccountTypeOK, NEW u \in AccountNames, Expires(u)
  PROVE  Rests
<1>1. accounts' = [accounts EXCEPT ![u].expired = TRUE]
  BY DEF Expires, TokenExpires
<1>2. ASSUME NEW v \in AccountNames
      PROVE  /\ accounts'[v].email = accounts[v].email /\ accounts'[v].status = accounts[v].status
             /\ accounts'[v].companyIds = accounts[v].companyIds /\ accounts'[v].reset = accounts[v].reset
             /\ accounts'[v].password = accounts[v].password /\ accounts'[v].avatar = accounts[v].avatar
  <2>1. accounts[v] \in AccountDoc
    BY DEF AccountTypeOK
  <2>2. CASE v = u
    <3>1. accounts'[v] = [accounts[v] EXCEPT !.expired = TRUE]
      BY <1>1, <2>2 DEF AccountTypeOK
    <3> QED
      BY <2>1, <3>1 DEF AccountDoc
  <2>3. CASE v # u
    BY <1>1, <2>3 DEF AccountTypeOK
  <2> QED
    BY <2>2, <2>3
<1>3. AccountTypeOK'
  <2>1. accounts[u] \in AccountDoc
    BY DEF AccountTypeOK
  <2>2. [accounts[u] EXCEPT !.expired = TRUE] \in AccountDoc
    BY <2>1 DEF AccountDoc
  <2> QED
    BY <1>1, <2>2 DEF AccountTypeOK
<1> QED
  BY <1>2, <1>3 DEF Expires, TokenExpires, companyVars, handlerVars, Rests

\* Neither is a step that changes nothing.
LEMMA NobodyRests ==
  ASSUME AccountTypeOK, UNCHANGED directoryVars
  PROVE  Rests
BY DEF directoryVars, peopleVars, accountVars, handlerVars, Rests, AccountTypeOK

\* What is not read breaks nothing.
LEMMA RestsKeep ==
  ASSUME DirInv, Rests
  PROVE  DirInv' /\ (DirSerialInv => DirSerialInv')
<1>0. /\ pc' = pc /\ local' = local /\ before' = before /\ companies' = companies
      /\ files' = files /\ speakers' = speakers /\ methods' = methods /\ scope' = scope
  BY DEF Rests
<1>1. \A r \in Requests : r \in AccountNames
  BY DEF AccountNames
<1>2. DirHere'
  <2>1. Here(DirLabels)'
    BY <1>0 DEF DirInv, DirHere, Here, Asked
  <2>2. \A r \in Requests : pc'[r] # "idle" => Fits(pc'[r], local'[r])
    BY <1>0 DEF DirInv, DirHere
  <2>3. StorageTypeOK' /\ CompanyTypeOK' /\ SpeakerTypeOK' /\ MethodTypeOK' /\ scope' \in Scopes
    BY <1>0 DEF DirInv, DirHere, StorageTypeOK, CompanyTypeOK, SpeakerTypeOK, MethodTypeOK
  <2> QED
    BY <2>1, <2>2, <2>3 DEF DirHere, Rests
<1>3. InsertedInv'
  BY <1>0, <1>1 DEF DirInv, InsertedInv, Rests
<1>4. RegisterInv'
  BY <1>0, <1>1 DEF DirInv, RegisterInv, Relinked, Rests, Asked, InFlight
<1>5. SpeakersHaveUsers'
  <2> SUFFICES ASSUME NEW s \in SpeakerNames, speakers[s].user # None
               PROVE  accounts'[speakers[s].user].email # None
    BY <1>0 DEF SpeakersHaveUsers
  <2>1. speakers[s].user \in AccountNames /\ accounts[speakers[s].user].email # None
    BY DEF DirInv, DirHere, SpeakerTypeOK, SpeakerDoc, SpeakersHaveUsers
  <2> QED
    BY <2>1 DEF Rests
<1>6. TokenInv'
  BY <1>0 DEF DirInv, TokenInv, LatestIn, GivesToken, TokenGiven, Rests, Asked
<1>7. LogoInv'
  BY <1>0 DEF DirInv, LogoInv, LogosOwned, LogosBacked, LogoAsked, LogoOf, Excuses, Overlapped,
              CompanyIsHere, InFlight, Asked, Named, NamedBy
<1>8. PhotoInv'
  <2>1. PhotosOwned'
    BY <1>0 DEF DirInv, PhotoInv, PhotosOwned, PhotoOf, InFlight, Asked, Named, NamedBy, Rests
  <2>2. AvatarFilesExist'
    BY <1>0 DEF DirInv, PhotoInv, AvatarFilesExist, Asked, Named, NamedBy, Rests
  <2>3. ASSUME NEW p \in Requests
        PROVE  PhotoAsked(p)'
    <3>1. PhotoAsked(p)
      BY DEF DirInv, PhotoInv
    <3>2. pc[p] = "photoDelete" => local[p].user \in AccountNames
      <4>1. pc[p] = "photoDelete" => InFlight(p) /\ local[p].op \in PhotoOps
        BY Callers DEF DirInv, DirHere, RequestsFit, CallersAre, InFlight, Final
      <4> QED
        BY <4>1, InFlightFits DEF DirInv, Fits, UserOps, PhotoOps
    <3> QED
      BY <1>0, <3>1, <3>2 DEF PhotoAsked, Asked, Named, NamedBy, Rests
  <2> QED
    BY <2>1, <2>2, <2>3 DEF PhotoInv
<1>9. MethodInv'
  BY <1>0 DEF DirInv, MethodInv, Asked
<1>10. ASSUME DirSerialInv
       PROVE  DirSerialInv'
  <2>1. SerialSoFar' = SerialSoFar /\ CompaniesOnlyDeleted' = CompaniesOnlyDeleted
        /\ UsersOnlyDeleted' = UsersOnlyDeleted
    BY <1>0 DEF SerialSoFar, CompaniesOnlyDeleted, UsersOnlyDeleted, Asked
  <2>2. CompaniesExact => CompaniesExact'
    BY <1>0 DEF CompaniesExact, CompanyGiven, CompanyIsHere, EmailHeld, Asked
  <2>3. EmailsExact => EmailsExact'
    <3>1. \A m : Holders(m)' = Holders(m)
      BY DEF Rests, Holders, AccountIsHere
    <3> QED
      BY <1>0, <3>1 DEF EmailsExact
  <2>4. PasswordsExact => PasswordsExact'
    <3>1. \A u : LastOf(Givers(u))' = LastOf(Givers(u))
      BY <1>0 DEF LastOf, Givers
    <3>2. ASSUME NEW r \in Requests, pc[r] = "tokenUnset", AccountIsHere(local[r].user)
          PROVE  AccountIsHere(local[r].user)'
      <4>1. InFlight(r) /\ Asked(r, "reset")
        BY <3>2, Callers DEF DirInv, DirHere, RequestsFit, CallersAre, InFlight, Final
      <4>2. local[r].user \in AccountNames
        BY <4>1, InFlightFits DEF DirInv, Fits, UserOps, TokenOps, PasswordOps, Asked
      <4> QED
        BY <1>0, <3>2, <4>2 DEF AccountIsHere, Rests
    <3> QED
      BY <1>0, <3>1, <3>2 DEF PasswordsExact, Rests
  <2>5. MethodsExact => MethodsExact'
    BY <1>0 DEF MethodsExact, Switches, Asked
  <2> QED
    BY <1>10, <2>1, <2>2, <2>3, <2>4, <2>5 DEF DirSerialInv
<1> QED
  BY <1>2, <1>3, <1>4, <1>5, <1>6, <1>7, <1>8, <1>9, <1>10 DEF DirInv

\* Every step keeps the invariant.
LEMMA NextKeeps ==
  ASSUME DirInv, [DirectoryNext]_directoryVars
  PROVE  DirInv' /\ (DirSerialInv => DirSerialInv')
<1>0. AccountTypeOK
  BY DEF DirInv, DirHere
<1>1. CASE \E r \in Requests : Runs(r)
  BY <1>1, RunsKeep
<1>2. CASE \E u \in AccountNames : Expires(u)
  BY <1>0, <1>2, ExpiryRests, RestsKeep
<1>3. CASE UNCHANGED directoryVars
  BY <1>0, <1>3, NobodyRests, RestsKeep
<1> QED
  BY <1>1, <1>2, <1>3, NextRuns

(***************************************************************************)
(* The theorems.                                                            *)
(***************************************************************************)
\* The requests, the registrations, the tokens, the pictures and the methods
\* are as DirInv says, in every state.
THEOREM DirectoryInvariance == DirectorySpec => []DirInv
<1>1. DirectoryInit => DirInv
  BY DirInvInit
<1>2. DirInv /\ [DirectoryNext]_directoryVars => DirInv'
  BY NextKeeps
<1> QED
  BY <1>1, <1>2, PTL DEF DirectorySpec

\* The collections and the requests keep their types.
THEOREM DirectoryTypes == DirectorySpec => []DirectoryTypeOK
<1>1. DirInv => DirectoryTypeOK
  <2> SUFFICES ASSUME DirInv PROVE DirectoryTypeOK
    OBVIOUS
  <2>1. HandlersTypeOK(DirLabels)
    BY HereTypes DEF DirInv, DirHere
  <2> QED
    BY <2>1 DEF DirInv, DirHere, DirectoryTypeOK, DirLabels
<1> QED
  BY <1>1, DirectoryInvariance, PTL

\* AuthService.resetPassword: a password is reset with the token its user was
\* given last, by a demand or by an update, when the reset arrived.
THEOREM ResetsUseLatest == DirectorySpec => []ResetUsesLatestToken
<1>1. DirInv => ResetUsesLatestToken
  BY DEF DirInv, TokenInv, LatestIn, ResetUsesLatestToken
<1> QED
  BY <1>1, DirectoryInvariance, PTL

\* CompaniesService and SpeakersService: a stored logo or avatar whose file is
\* gone was given by its URL, or comes of a request that deleted it, or
\* overlapped, or was not answered.
THEOREM PicturesStay == DirectorySpec => []PicturesExist
<1>1. DirInv => PicturesExist
  <2> SUFFICES ASSUME DirInv PROVE LogoFilesExist
    BY DEF DirInv, PhotoInv, PicturesExist
  <2> SUFFICES ASSUME NEW c \in CompanyNames, companies[c].logo \notin files \cup {None}
               PROVE  Named(companies[c].logo) \/ \E r \in Requests :
                        /\ local[r].op \in {"updateLogo", "deleteLogo"} /\ local[r].company = c
                        /\ pc[r] # "ok" \/ Overlapped(r, c)
    BY DEF LogoFilesExist, Overlapped
  <2>1. CASE Named(companies[c].logo)
    BY <2>1
  <2>2. CASE \E r \in Requests : Excuses(r, c, companies[c].logo)
    BY <2>2 DEF Excuses, LogoOps
  <2> QED
    BY <2>1, <2>2 DEF DirInv, LogoInv, LogosBacked
<1> QED
  BY <1>1, DirectoryInvariance, PTL

\* Requests that do not overlap leave e-mails, passwords and payment methods as
\* they asked; registrations are whole and deleted methods stay so however they
\* overlap.
THEOREM SerialDirectory == DirectorySpec => []SerialDirectoryIsExact
<1>1. DirectoryInit => DirInv /\ DirSerialInv
  BY DirInvInit, DirSerialInit
<1>2. DirInv /\ DirSerialInv /\ [DirectoryNext]_directoryVars => (DirInv /\ DirSerialInv)'
  BY NextKeeps
<1>3. DirInv /\ DirSerialInv => SerialDirectoryIsExact
  <2> SUFFICES ASSUME DirInv, DirSerialInv PROVE SerialDirectoryIsExact
    OBVIOUS
  <2>1. RegistrationIsWhole /\ SpeakersHaveUsers
    BY DEF DirInv, RegisterInv, RegistrationIsWhole
  <2>2. SerialCompaniesAreExact
    BY SerialIsSoFar DEF DirSerialInv, SerialCompaniesAreExact, CompaniesOnlyDeleted, CompaniesExact
  <2>3. SerialAccountsAreExact
    <3> SUFFICES ASSUME Serial
                 PROVE  /\ UsersOnlyDeleted => \A m \in Emails : Cardinality(Holders(m)) <= 1
                        /\ \A u \in AccountNames :
                            \A r \in LastOf({q \in Requests :
                                    /\ pc[q] = "ok" /\ local[q].op \in {"reset", "changePassword"}
                                    /\ local[q].user = u}) :
                                accounts[u].password = r
      BY DEF SerialAccountsAreExact, UsersOnlyDeleted
    <3>1. SerialSoFar /\ \A q \in Requests : pc[q] # "tokenUnset"
      BY SerialIsSoFar DEF InFlight, Final
    <3>2. ASSUME UsersOnlyDeleted, NEW m \in Emails
          PROVE  Cardinality(Holders(m)) <= 1
      <4>1. \A u, v \in Holders(m) : u = v
        BY <3>1, <3>2 DEF DirSerialInv, EmailsExact
      <4>2. CASE Holders(m) = {}
        BY <4>2, FS_EmptySet
      <4>3. CASE Holders(m) # {}
        <5>1. PICK u : Holders(m) = {u}
          BY <4>1, <4>3
        <5> QED
          BY <5>1, FS_Singleton
      <4> QED
        BY <4>2, <4>3
    <3>3. \A u \in AccountNames :
            {q \in Requests : /\ pc[q] = "ok" /\ local[q].op \in {"reset", "changePassword"}
                              /\ local[q].user = u} = Givers(u)
      BY <3>1 DEF Givers, PasswordOps
    <3> QED
      BY <3>1, <3>2, <3>3 DEF DirSerialInv, PasswordsExact
  <2>4. MethodsObey
    BY SerialIsSoFar DEF DirInv, MethodInv, DirSerialInv, MethodsObey, MethodsExact, Switches
  <2> QED
    BY <2>1, <2>2, <2>3, <2>4 DEF SerialDirectoryIsExact
<1> QED
  BY <1>1, <1>2, <1>3, PTL DEF DirectorySpec
=============================================================================
