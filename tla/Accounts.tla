------------------------------ MODULE Accounts ------------------------------
(***************************************************************************)
(* Users, their registration, passwords and tokens (UsersService,           *)
(* AuthService).                                                            *)
(***************************************************************************)
EXTENDS Companies

CONSTANTS
    UserBodies,       \* what requests give of a user: the fields they give
    EarlierAccounts,  \* users stored before the behaviour starts
    AccountEmail      \* AccountEmail[u]: their e-mails

AccountNames == Requests \cup EarlierAccounts

\* Passwords and tokens are named by the request that makes them; None is the
\* password an earlier account has, and no token.
AccountDoc == [email : Emails \cup {None}, status : EntityStatus,
               companyIds : SUBSET CompanyNames, password : Requests \cup {None},
               reset : Requests \cup {None},
               expired : BOOLEAN,   \* passwordResetExpires is missing or past
               verification : Requests \cup {None}, verified : BOOLEAN,
               avatar : Requests \cup EarlierFiles \cup {None}]
NoAccount == [email |-> None, status |-> "active", companyIds |-> {}, password |-> None,
              reset |-> None, expired |-> TRUE, verification |-> None, verified |-> FALSE,
              avatar |-> None]

\* The fields of an UpdateUserDto that matter, and of a CreateUserDto.
IsUserBody(b) ==
    /\ DOMAIN b \subseteq {"email", "companyIds", "avatar", "reset", "expired", "verification"}
    /\ "email" \in DOMAIN b => b.email \in Emails
    /\ "companyIds" \in DOMAIN b => b.companyIds \in SUBSET CompanyNames
    /\ "avatar" \in DOMAIN b => b.avatar \in Requests \cup EarlierFiles \cup {None}
    /\ "reset" \in DOMAIN b => b.reset \in Requests \cup {None}
    /\ "expired" \in DOMAIN b => b.expired \in BOOLEAN
    /\ "verification" \in DOMAIN b => b.verification \in Requests \cup {None}

CreateBodies ==
    {b \in UserBodies : "email" \in DOMAIN b /\ DOMAIN b \subseteq {"email", "companyIds", "avatar"}}

\* A file of the start is the logo of one company or the avatar of one user.
ASSUME AccountsAssumption ==
    /\ \A b \in UserBodies : IsUserBody(b)
    /\ AccountEmail \in [EarlierAccounts -> Emails]
    /\ EarlierAccounts \cap Requests = {} /\ None \notin EarlierAccounts
    /\ EarlierAccounts \cap EarlierCompanies \cap EarlierFiles = {}

\* Whoever is there at the start was found to be the only one of the e-mail.
ASSUME EmailsAssumption ==
    /\ \A u, v \in EarlierAccounts : AccountEmail[u] = AccountEmail[v] => u = v
    /\ \A c, d \in EarlierCompanies :
        CompanyEmail[c] = CompanyEmail[d] /\ CompanyEmail[c] # None => c = d

VARIABLES accounts  \* accounts[u]: User; email None: not stored

accountVars == <<accounts, companies, files>>

AccountIsHere(u) == accounts[u].email # None /\ accounts[u].status # "deleted"
Holders(m) == {u \in AccountNames : AccountIsHere(u) /\ accounts[u].email = m}

\* Mutant: e-mails are not compared.
NobodyHolds(u, m) == TRUE

\* The lookups of create and update.  No index is behind them.
EmailIsAvailable(u, m) == Holders(m) \subseteq {u}

\* One findOneAndUpdate of an account that is not deleted; else it is refused.
SetAccount(r, u, doc, next) ==
    \/ /\ AccountIsHere(u)
       /\ accounts' = [accounts EXCEPT ![u] = doc]
       /\ \E label \in {next, "failed"} : Goto(r, label)
    \/ ~AccountIsHere(u) /\ Goto(r, "error") /\ UNCHANGED accounts

(***************************************************************************)
(* UsersService                                                             *)
(***************************************************************************)
UserRequest(op, u, changes) == [op |-> op, user |-> u, changes |-> changes]

\* create: refused when an administrator of companies has none, or a user some.
CreateUser(r) ==
    /\ \/ Start(r, "error", UserRequest("createUser", r, NoChanges))
       \/ \E b \in CreateBodies : Start(r, "emailLookup", UserRequest("createUser", r, b))
    /\ UNCHANGED accountVars

LookUpEmail(r) ==
    /\ pc[r] = "emailLookup"
    /\ Goto(r, IF EmailIsAvailable(r, local[r].changes.email) THEN "userInsert" ELSE "error")
    /\ UNCHANGED accountVars

AfterInsert(op) == CASE op = "createUser" -> "ok"
                     [] op = "register" -> "verificationSet"
                     [] op = "createSpeaker" -> "speakerInsert"

InsertUser(r) ==
    /\ pc[r] = "userInsert"
    /\ accounts' = [accounts EXCEPT ![r] =
            With([NoAccount EXCEPT !.password = r], local[r].changes)]
    /\ \E label \in {AfterInsert(local[r].op), "failed"} : Goto(r, label)
    /\ UNCHANGED companyVars

\* update: the e-mail is compared, the other fields are not looked at.
AfterRead(u, b) ==
    IF GivenEmail(b) \in {None, accounts[u].email} THEN "userSet" ELSE "userCheck"

\* Any user may update any other; refused as a creation is, or when u is gone.
UpdateUser(r) ==
    /\ \E u \in AccountNames :
        \/ Start(r, "error", UserRequest("updateUser", u, NoChanges))
        \/ /\ AccountIsHere(u)
           /\ \E b \in UserBodies : Start(r, AfterRead(u, b), UserRequest("updateUser", u, b))
    /\ UNCHANGED accountVars

CheckUser(r) ==
    /\ pc[r] = "userCheck"
    /\ Goto(r, IF EmailIsAvailable(local[r].user, GivenEmail(local[r].changes))
               THEN "userSet" ELSE "error")
    /\ UNCHANGED accountVars

\* $set of the fields given.
SetUser(r) ==
    /\ pc[r] = "userSet"
    /\ LET u == local[r].user
       IN  SetAccount(r, u, With(accounts[u], local[r].changes), "ok")
    /\ UNCHANGED companyVars

\* Mutant: a status that is none of the enumeration.
Disabled(doc, s) == [doc EXCEPT !.status = IF s = "inactive" THEN "disabled" ELSE s]

StatusSet(doc, s) == [doc EXCEPT !.status = s]

\* changeStatus, and softDelete: a deleted user may become active again.
ChangeUserStatus(r) ==
    /\ \E u \in AccountNames, s \in EntityStatus :
        LET request == [op |-> "userStatus", user |-> u, status |-> s]
        IN  \/ accounts[u].email = None /\ Start(r, "error", request) /\ UNCHANGED accounts
            \/ /\ accounts[u].email # None
               /\ \E label \in {"ok", "failed"} : Start(r, label, request)
               /\ accounts' = [accounts EXCEPT ![u] = StatusSet(@, s)]
    /\ UNCHANGED companyVars

(***************************************************************************)
(* AuthService: registration and login                                      *)
(***************************************************************************)
\* register, and registerWithCompany, whose company comes first.
Register(r) ==
    /\ \E m \in Emails :
        \/ /\ Holders(m) # {}
           /\ Start(r, "error", [op |-> "register", company |-> FALSE])
        \/ /\ Holders(m) = {}
           /\ Start(r, "emailLookup", [op |-> "register", company |-> FALSE,
                                       changes |-> [email |-> m]])
        \/ /\ Holders(m) = {}
           /\ \E b \in CompanyBodies :
                Start(r, "companyLookup", [op |-> "register", company |-> TRUE, firm |-> b,
                                           changes |-> [email |-> m, companyIds |-> {r}]])
    /\ UNCHANGED accountVars

SetVerification(r) ==
    /\ pc[r] = "verificationSet"
    /\ SetAccount(r, r, [accounts[r] EXCEPT !.verification = r], "login")
    /\ UNCHANGED companyVars

\* validateUser: the account found by the e-mail, its status, its password.
LoginAnswer(u, password) ==
    IF accounts[u].status = "active" /\ accounts[u].password = password
    THEN "lastLogin" ELSE "error"

Login(r) ==
    /\ \E m \in Emails, p \in Requests \cup {None} :
        \/ \E u \in Holders(m) : Start(r, LoginAnswer(u, p), UserRequest("login", u, NoChanges))
        \/ Holders(m) = {} /\ Start(r, "error", UserRequest("login", None, NoChanges))
    /\ UNCHANGED accountVars

\* The login that ends a registration.
LoginRegistered(r) ==
    /\ pc[r] = "login"
    /\ LET held == Holders(local[r].changes.email)
       IN  \/ \E u \in held : Goto(r, LoginAnswer(u, r))
           \/ held = {} /\ Goto(r, "error")
    /\ UNCHANGED accountVars

\* updateLastLogin: nothing is refused.
NoteLogin(r) == pc[r] = "lastLogin" /\ Ends(r) /\ UNCHANGED accountVars

\* refreshToken and getProfile read the account the token names.
Refresh(r) ==
    /\ \E u \in AccountNames :
        Start(r, IF AccountIsHere(u) /\ accounts[u].status = "active" THEN "ok" ELSE "error",
              [op |-> "refresh", user |-> u])
    /\ UNCHANGED accountVars

(***************************************************************************)
(* AuthService: passwords and tokens                                        *)
(***************************************************************************)
TokenRequest(op, u, token) == [op |-> op, user |-> u, token |-> token]

\* changePassword: the current password is compared, then the new one is set.
ChangePassword(r) ==
    /\ \E u \in AccountNames, known \in Requests \cup {None} :
        Start(r, IF AccountIsHere(u) /\ accounts[u].password = known
                 THEN "passwordSet" ELSE "error", TokenRequest("changePassword", u, None))
    /\ UNCHANGED accountVars

ForgotPassword(r) ==
    /\ \E m \in Emails :
        \/ \E u \in Holders(m) : Start(r, "tokenSet", TokenRequest("forgot", u, r))
        \/ Holders(m) = {} /\ Start(r, "ok", TokenRequest("forgot", None, r))
    /\ UNCHANGED accountVars

SetToken(r) ==
    /\ pc[r] = "tokenSet"
    /\ LET u == local[r].user
       IN  SetAccount(r, u, [accounts[u] EXCEPT !.reset = r, !.expired = FALSE], "ok")
    /\ UNCHANGED companyVars

\* Mutant: any unexpired token will do.
AnyToken(t) == {u \in AccountNames : AccountIsHere(u) /\ accounts[u].reset # None /\ ~accounts[u].expired}

\* findUserByResetToken.
TokenHolders(t) ==
    {u \in AccountNames : AccountIsHere(u) /\ accounts[u].reset = t /\ ~accounts[u].expired}

ResetPassword(r) ==
    /\ \E t \in Requests :
        \/ \E u \in TokenHolders(t) : Start(r, "resetRead", TokenRequest("reset", u, t))
        \/ TokenHolders(t) = {} /\ Start(r, "error", TokenRequest("reset", None, None))
    /\ UNCHANGED accountVars

\* The account is read again: its expiry, and no longer the token.
ReadReset(r) ==
    /\ pc[r] = "resetRead"
    /\ LET u == local[r].user
       IN  Goto(r, IF AccountIsHere(u) /\ ~accounts[u].expired THEN "passwordSet" ELSE "error")
    /\ UNCHANGED accountVars

\* Mutant: the new password is stored for no one.
PasswordLost(doc, r) == doc

PasswordGiven(doc, r) == [doc EXCEPT !.password = r]

SetPassword(r) ==
    /\ pc[r] = "passwordSet"
    /\ LET u == local[r].user
       IN  SetAccount(r, u, PasswordGiven(accounts[u], r),
                      IF Asked(r, "reset") THEN "tokenUnset" ELSE "ok")
    /\ UNCHANGED companyVars

\* The update that should clear the token sets its fields to undefined, which
\* sanitizeFlat drops: the token stays.
UnsetToken(r) ==
    /\ pc[r] = "tokenUnset"
    /\ SetAccount(r, local[r].user, accounts[local[r].user], "ok")
    /\ UNCHANGED companyVars

\* verifyEmail, by the token, or as an administrator by the user.
VerifyEmail(r) ==
    /\ \/ \E t \in Requests :
            LET found == {u \in AccountNames : /\ AccountIsHere(u) /\ ~accounts[u].verified
                                               /\ accounts[u].verification = t}
            IN  \/ \E u \in found : Start(r, "verifySet", TokenRequest("verify", u, t))
                \/ found = {} /\ Start(r, "error", TokenRequest("verify", None, None))
       \/ \E u \in AccountNames : Start(r, "verifySet", TokenRequest("verify", u, None))
    /\ UNCHANGED accountVars

SetVerified(r) ==
    /\ pc[r] = "verifySet"
    /\ LET u == local[r].user
       IN  SetAccount(r, u, [accounts[u] EXCEPT !.verified = TRUE, !.verification = None], "ok")
    /\ UNCHANGED companyVars

\* The hour of a reset token is over, or the time an update set.
TokenExpires(u) ==
    /\ ~accounts[u].expired
    /\ accounts' = [accounts EXCEPT ![u].expired = TRUE]
    /\ UNCHANGED <<companyVars, handlerVars>>

UserArrive(r) == CreateUser(r) \/ UpdateUser(r) \/ ChangeUserStatus(r)
AuthArrive(r) == \/ Register(r) \/ Login(r) \/ Refresh(r) \/ ChangePassword(r)
                 \/ ForgotPassword(r) \/ ResetPassword(r) \/ VerifyEmail(r)

AccountStep(r) ==
    \/ LookUpEmail(r) \/ InsertUser(r) \/ CheckUser(r) \/ SetUser(r)
    \/ SetVerification(r) \/ LoginRegistered(r) \/ NoteLogin(r) \/ SetToken(r)
    \/ ReadReset(r) \/ SetPassword(r) \/ UnsetToken(r) \/ SetVerified(r)

AccountLabels == {"emailLookup", "userInsert", "userCheck", "userSet", "verificationSet",
                  "login", "lastLogin", "tokenSet", "resetRead", "passwordSet",
                  "tokenUnset", "verifySet"}

AccountInit ==
    accounts = [u \in AccountNames |->
        IF u \in EarlierAccounts
        THEN [NoAccount EXCEPT !.email = AccountEmail[u],
                               !.avatar = IF u \in EarlierFiles THEN u ELSE None]
        ELSE NoAccount]

(***************************************************************************)
(* Properties                                                               *)
(***************************************************************************)
AccountTypeOK == accounts \in [AccountNames -> AccountDoc]

\* w set a reset token of u: the user demanded it, or an update gave it.
GivesToken(w, u) ==
    /\ pc[w] \in {"ok", "failed"}
    /\ \/ Asked(w, "forgot") /\ local[w].user = u
       \/ Asked(w, "updateUser") /\ local[w].user = u /\ "reset" \in DOMAIN local[w].changes

TokenGiven(w) == IF Asked(w, "forgot") THEN w ELSE local[w].changes.reset

\* A password is reset with the token its user was given last, by a demand or an
\* update that had ended when the reset arrived: one that a later request had
\* replaced by then resets nothing, nor does a token of another user.
ResetUsesLatestToken ==
    \A r \in Requests : Asked(r, "reset") /\ pc[r] = "ok" =>
        LET u == local[r].user
        IN  \E w \in before[r] :
                /\ GivesToken(w, u) /\ TokenGiven(w) = local[r].token
                /\ ~\E q \in before[r] : pc[q] = "ok" /\ GivesToken(q, u) /\ w \in before[q]

\* An update gave the companies of u.
Relinked(u) ==
    \E q \in Requests : /\ Asked(q, "updateUser") /\ local[q].user = u
                        /\ "companyIds" \in DOMAIN local[q].changes

\* A registration that was answered left its user, linked to its company unless
\* an update linked it to others, or somebody deleted it; a company of a
\* registration without its user belongs to one that is not answered, or was
\* refused.
RegistrationIsWhole ==
    \A r \in Requests : Asked(r, "register") =>
        /\ pc[r] = "ok" => /\ accounts[r].email # None
                           /\ local[r].company =>
                                companies[r].stored /\ (r \in accounts[r].companyIds \/ Relinked(r))
        /\ companies[r].stored /\ accounts[r].email = None => pc[r] # "ok"

\* Requests that do not overlap: no two users of one e-mail, unless a status
\* request brought one back; the last password given is the password.
SerialAccountsAreExact ==
    Serial =>
        /\ (\A r \in Requests : Asked(r, "userStatus") => local[r].status = "deleted")
            => \A m \in Emails : Cardinality(Holders(m)) <= 1
        /\ \A u \in AccountNames :
            \A r \in LastOf({q \in Requests : /\ pc[q] = "ok" /\ local[q].op \in {"reset", "changePassword"}
                                              /\ local[q].user = u}) :
                accounts[u].password = r
=============================================================================
