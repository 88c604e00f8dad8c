----------------------------- MODULE AuthSessions -----------------------------
(***************************************************************************)
(* The sign-in half of crates/reactor-auth: AuthService (src/service.rs)    *)
(* over PgIdentityStore (src/store/postgres.rs).  A request is a sequence   *)
(* of store calls on autocommit connections; only rotate_refresh_token is a *)
(* transaction.  Between two calls other requests run, and a request may    *)
(* end for good: its store call failed or its client went away and axum     *)
(* dropped the handler.                                                     *)
(*                                                                          *)
(* A row is named by its position in its table.  A password is named by how *)
(* many passwords its user had before it, so every new password is fresh.   *)
(* What a request may present: a refresh token, code or mailed token that   *)
(* was stored, and any password its user ever had.                          *)
(***************************************************************************)
EXTENDS Naturals, Sequences, FiniteSets

CONSTANTS
    Users,
    Requests,          \* requests in flight at a time
    MaxArrivals,       \* bound on the requests that begin
    MaxPassword,       \* bound on the passwords of one user
    MaxSessions,       \* bounds on the rows of each table
    MaxTokens,
    MaxMails,
    MaxCodes

ASSUME AuthConstants ==
    /\ IsFiniteSet(Users) /\ IsFiniteSet(Requests)
    /\ {MaxArrivals, MaxPassword, MaxSessions, MaxTokens, MaxMails, MaxCodes} \subseteq Nat

VARIABLES
    user,     \* user[u]: the row of u
    session,  \* sessions, in the order they were created
    token,    \* refresh_tokens
    mail,     \* verification_tokens: for an email address or a new password
    code,     \* authorization_codes
    req,      \* req[r]: where a request is
    arrived   \* requests that began so far

vars == <<user, session, token, mail, code, req, arrived>>

None == "none"

\* A request that is not running.  dead is left TRUE by the last request only
\* if it was answered with an access token although it came too late for one.
Idle(dead) ==
    [at |-> "idle", op |-> None, u |-> None, pw |-> 0, row |-> 0, s |-> 0,
     late |-> FALSE, dead |-> dead]

UserRow == [state : {"absent", "active", "disabled"}, pw : 0 .. MaxPassword,
            verified : BOOLEAN,
            cut : 0 .. MaxPassword]  \* passwords below cut were reset away

SessionRow == [u : Users, amr : {"pwd", "pkce"}, revoked : BOOLEAN,
               pw : 0 .. MaxPassword,    \* the password its login verified
               late : BOOLEAN,           \* that login overlapped the reset
               minted : 0 .. MaxTokens]  \* tokens issued, not rotated

TokenRow == [s : 1 .. MaxSessions, used : BOOLEAN, expired : BOOLEAN]

\* applied: how often a request changed the user row on the row's strength.
MailRow == [u : Users, type : {"email", "password_reset"}, used : BOOLEAN,
            expired : BOOLEAN, applied : 0 .. Cardinality(Requests)]

\* grants: how many requests issued tokens on the row's strength.
CodeRow == [u : Users, used : BOOLEAN, expired : BOOLEAN,
            grants : 0 .. Cardinality(Requests)]

Ops == {"signup", "login", "refresh", "reset", "verify", "delete", "exchange",
        "mfa", "forgot", None}

Places == {"idle", "create_user", "send_verification", "verify_password",
           "create_session", "use_code", "issue", "find_session", "find_user",
           "create_mail", "use_mail", "update_user", "revoke", "disable"}

Request == [at : Places, op : Ops, u : Users \cup {None}, pw : 0 .. MaxPassword,
            row : Nat, s : 0 .. MaxSessions, late : BOOLEAN, dead : BOOLEAN]

TypeOK ==
    /\ user \in [Users -> UserRow]
    /\ session \in Seq(SessionRow) /\ Len(session) <= MaxSessions
    /\ token \in Seq(TokenRow) /\ Len(token) <= MaxTokens
    /\ mail \in Seq(MailRow) /\ Len(mail) <= MaxMails
    /\ code \in Seq(CodeRow) /\ Len(code) <= MaxCodes
    /\ req \in [Requests -> Request]
    /\ arrived \in 0 .. MaxArrivals

\* A user who is not there, or who signed up, verified the address and has
\* been signed out since.
StartRow == [state : {"absent"}, pw : {0}, verified : {FALSE}, cut : {0}]
            \cup [state : {"active"}, pw : {0}, verified : {TRUE}, cut : {0}]

Init ==
    /\ user \in [Users -> StartRow]
    /\ session = <<>> /\ token = <<>> /\ mail = <<>> /\ code = <<>>
    /\ req = [r \in Requests |-> Idle(FALSE)]
    /\ arrived = 0

-----------------------------------------------------------------------------
(* How a request moves.                                                     *)

Arrival == arrived < MaxArrivals /\ arrived' = arrived + 1

Begin(r, op, at, u, pw, row, s, dead) ==
    /\ req[r].at = "idle"
    /\ Arrival
    /\ req' = [req EXCEPT ![r] = [at |-> at, op |-> op, u |-> u, pw |-> pw, row |-> row,
                                  s |-> s, late |-> FALSE, dead |-> dead]]

Goto(r, at) == req' = [req EXCEPT ![r].at = at]

Fails(r) == req' = [req EXCEPT ![r] = Idle(FALSE)]

\* The request answers with an access token.
Grants(r) == req' = [req EXCEPT ![r] = Idle(req[r].dead)]

At(r, op, at) == req[r].op = op /\ req[r].at = at

\* A store call fails, or the client is gone and the future is dropped.
Drop(r) ==
    /\ req[r].at # "idle"
    /\ Fails(r)
    /\ UNCHANGED <<user, session, token, mail, code, arrived>>

-----------------------------------------------------------------------------
(* signup                                                                   *)

Signup(r, u) ==
    /\ user[u].state = "absent"
    /\ Begin(r, "signup", "create_user", u, 0, 0, 0, FALSE)
    /\ UNCHANGED <<user, session, token, mail, code>>

\* users_email_key refuses the second of two signups: EmailExists.
CreateUser(r) ==
    /\ At(r, "signup", "create_user")
    /\ \/ /\ user[req[r].u].state = "absent"
          /\ user' = [user EXCEPT ![req[r].u].state = "active"]
          /\ Goto(r, "send_verification")
       \/ /\ user[req[r].u].state # "absent"
          /\ Fails(r)
          /\ UNCHANGED user
    /\ UNCHANGED <<session, token, mail, code, arrived>>

NewMail(u, type) ==
    Append(mail, [u |-> u, type |-> type, used |-> FALSE, expired |-> FALSE, applied |-> 0])

\* The sender may be disabled, and a failure to store the token is only logged.
SendVerification(r) ==
    /\ At(r, "signup", "send_verification")
    /\ \/ Len(mail) < MaxMails /\ mail' = NewMail(req[r].u, "email")
       \/ UNCHANGED mail
    /\ Goto(r, "create_session")
    /\ UNCHANGED <<user, session, token, code, arrived>>

-----------------------------------------------------------------------------
(* password_grant; issue_tokens; issue_mfa_tokens                           *)

\* The user is read, and found not to be disabled, before the password is.
PasswordGrant(r, u) ==
    /\ user[u].state = "active"
    /\ \E pw \in 0 .. user[u].pw : Begin(r, "login", "verify_password", u, pw, 0, 0, FALSE)
    /\ UNCHANGED <<user, session, token, mail, code>>

\* Mutant: the password is compared with a hash the user had earlier.
VerifyPasswordStale(r) ==
    /\ At(r, "login", "verify_password")
    /\ Goto(r, "create_session")
    /\ UNCHANGED <<user, session, token, mail, code, arrived>>

VerifyPassword(r) ==
    /\ At(r, "login", "verify_password")
    /\ IF user[req[r].u].pw = req[r].pw THEN Goto(r, "create_session") ELSE Fails(r)
    /\ UNCHANGED <<user, session, token, mail, code, arrived>>

CreateSession(r) ==
    /\ req[r].at = "create_session"
    /\ Len(session) < MaxSessions
    /\ session' = Append(session,
                    [u |-> req[r].u, amr |-> IF req[r].op = "exchange" THEN "pkce" ELSE "pwd",
                     revoked |-> FALSE, pw |-> req[r].pw, late |-> req[r].late, minted |-> 0])
    /\ req' = [req EXCEPT ![r].at = IF req[r].op = "exchange" THEN "use_code" ELSE "issue",
                          ![r].s = Len(session) + 1]
    /\ UNCHANGED <<user, token, mail, code, arrived>>

NewToken(s) == Append(token, [s |-> s, used |-> FALSE, expired |-> FALSE])

\* create_refresh_token, after the access token was signed.
IssueTokens(r) ==
    /\ req[r].at = "issue"
    /\ Len(token) < MaxTokens
    /\ token' = NewToken(req[r].s)
    /\ session' = [session EXCEPT ![req[r].s].minted = @ + 1]
    /\ code' = IF req[r].op = "exchange" THEN [code EXCEPT ![req[r].row].grants = @ + 1] ELSE code
    /\ Grants(r)
    /\ UNCHANGED <<user, mail, arrived>>

\* The bearer's session is read, and no column of it is looked at but amr.
IssueMfaTokens(r, s) ==
    /\ session[s].minted > 0
    /\ Begin(r, "mfa", "issue", session[s].u, 0, 0, s, FALSE)
    /\ UNCHANGED <<user, session, token, mail, code>>

-----------------------------------------------------------------------------
(* refresh                                                                  *)

Revoked(sessions) ==
    [s \in DOMAIN session |-> IF s \in sessions THEN [session[s] EXCEPT !.revoked = TRUE]
                                                ELSE session[s]]

\* The bearer of a token of this session is not to be served any more.
Dead(s) == session[s].revoked \/ user[session[s].u].state = "disabled"

\* Mutant: used_at is not looked at.
RotateRefreshTokenUsed(r, t) ==
    LET s == token[t].s IN
    /\ ~token[t].expired
    /\ Len(token) < MaxTokens
    /\ token' = [NewToken(s) EXCEPT ![t].used = TRUE]
    /\ Begin(r, "refresh", "find_session", session[s].u, 0, t, s, Dead(s))
    /\ UNCHANGED <<user, session, mail, code>>

\* rotate_refresh_token: one transaction, the row locked FOR UPDATE.
RotateRefreshToken(r, t) ==
    LET s == token[t].s IN
    \/ /\ token[t].used
       /\ req[r].at = "idle"
       /\ session' = Revoked({s})
       /\ Fails(r)
       /\ UNCHANGED <<user, token, mail, code, arrived>>
    \/ /\ ~token[t].used /\ ~token[t].expired
       /\ Len(token) < MaxTokens
       /\ token' = [NewToken(s) EXCEPT ![t].used = TRUE]
       /\ Begin(r, "refresh", "find_session", session[s].u, 0, t, s, Dead(s))
       /\ UNCHANGED <<user, session, mail, code>>

\* Mutant: revoked_at is not looked at.
RefreshFindSessionRevoked(r) ==
    /\ At(r, "refresh", "find_session")
    /\ Goto(r, "find_user")
    /\ UNCHANGED <<user, session, token, mail, code, arrived>>

RefreshFindSession(r) ==
    /\ At(r, "refresh", "find_session")
    /\ IF session[req[r].s].revoked THEN Fails(r) ELSE Goto(r, "find_user")
    /\ UNCHANGED <<user, session, token, mail, code, arrived>>

RefreshFindUser(r) ==
    /\ At(r, "refresh", "find_user")
    /\ IF user[req[r].u].state = "disabled" THEN Fails(r) ELSE Grants(r)
    /\ UNCHANGED <<user, session, token, mail, code, arrived>>

Logout(s) ==
    /\ ~session[s].revoked
    /\ session' = Revoked({s})
    /\ Arrival
    /\ UNCHANGED <<user, token, mail, code, req>>

-----------------------------------------------------------------------------
(* request_password_reset, confirm_password_reset, verify_email             *)

RequestPasswordReset(r, u) ==
    /\ user[u].state = "active" /\ user[u].verified
    /\ Begin(r, "forgot", "create_mail", u, 0, 0, 0, FALSE)
    /\ UNCHANGED <<user, session, token, mail, code>>

CreateMail(r) ==
    /\ At(r, "forgot", "create_mail")
    /\ Len(mail) < MaxMails
    /\ mail' = NewMail(req[r].u, "password_reset")
    /\ Fails(r)
    /\ UNCHANGED <<user, session, token, code, arrived>>

FindMail(r, m) ==
    /\ ~mail[m].used /\ ~mail[m].expired
    /\ Begin(r, IF mail[m].type = "email" THEN "verify" ELSE "reset", "use_mail",
             mail[m].u, 0, m, 0, FALSE)
    /\ UNCHANGED <<user, session, token, mail, code>>

\* Mutant: the UPDATE does not require used_at to be null.
UseMailAgain(r) ==
    /\ req[r].at = "use_mail"
    /\ mail' = [mail EXCEPT ![req[r].row].used = TRUE]
    /\ Goto(r, "update_user")
    /\ UNCHANGED <<user, session, token, code, arrived>>

\* UPDATE ... WHERE used_at IS NULL; no row changed is InvalidToken.
UseMail(r) ==
    LET m == req[r].row IN
    /\ req[r].at = "use_mail"
    /\ \/ /\ ~mail[m].used
          /\ mail' = [mail EXCEPT ![m].used = TRUE]
          /\ Goto(r, "update_user")
       \/ /\ mail[m].used
          /\ Fails(r)
          /\ UNCHANGED mail
    /\ UNCHANGED <<user, session, token, code, arrived>>

SetVerified(r) ==
    /\ At(r, "verify", "update_user")
    /\ user' = [user EXCEPT ![req[r].u].verified = TRUE]
    /\ mail' = [mail EXCEPT ![req[r].row].applied = @ + 1]
    /\ Fails(r)
    /\ UNCHANGED <<session, token, code, arrived>>

\* pw remembers the password this request installed.
SetPassword(r) ==
    /\ At(r, "reset", "update_user")
    /\ user[req[r].u].pw < MaxPassword
    /\ user' = [user EXCEPT ![req[r].u].pw = @ + 1]
    /\ mail' = [mail EXCEPT ![req[r].row].applied = @ + 1]
    /\ req' = [req EXCEPT ![r].at = "revoke", ![r].pw = user[req[r].u].pw + 1]
    /\ UNCHANGED <<session, token, code, arrived>>

OfUser(u) == {s \in DOMAIN session : session[s].u = u}

Larger(a, b) == IF a > b THEN a ELSE b

\* revoke_user_sessions.  A login of u that has its password verified and its
\* session not yet stored is marked late: this statement cannot see it.
RevokeUserSessions(r) ==
    LET u == req[r].u
        reset == req[r].op = "reset"
        Late(q) == reset /\ req[q].at = "create_session" /\ req[q].u = u
    IN
    /\ req[r].at = "revoke"
    /\ session' = Revoked(OfUser(u))
    /\ user' = IF reset THEN [user EXCEPT ![u].cut = Larger(@, req[r].pw)] ELSE user
    /\ req' = [q \in Requests |->
                 IF q = r THEN IF reset THEN Idle(FALSE) ELSE [req[r] EXCEPT !.at = "disable"]
                 ELSE [req[q] EXCEPT !.late = @ \/ Late(q)]]
    /\ UNCHANGED <<token, mail, code, arrived>>

-----------------------------------------------------------------------------
(* delete_user, update_user                                                 *)

DeleteUser(r, u) ==
    /\ user[u].state # "absent"
    /\ Begin(r, "delete", "revoke", u, 0, 0, 0, FALSE)
    /\ UNCHANGED <<user, session, token, mail, code>>

DisableUser(r) ==
    /\ req[r].at = "disable"
    /\ user' = [user EXCEPT ![req[r].u].state = "disabled"]
    /\ Fails(r)
    /\ UNCHANGED <<session, token, mail, code, arrived>>

\* PATCH /user: a new password, or a new email address that is not verified.
UpdateUser(u) ==
    /\ user[u].state # "absent"
    /\ \/ user[u].pw < MaxPassword /\ user' = [user EXCEPT ![u].pw = @ + 1]
       \/ user[u].verified /\ user' = [user EXCEPT ![u].verified = FALSE]
    /\ Arrival
    /\ UNCHANGED <<session, token, mail, code, req>>

-----------------------------------------------------------------------------
(* create_authorization_code, exchange_authorization_code                   *)

\* authorize_submit runs a whole password_grant first: u has a session.
CreateAuthorizationCode(u) ==
    /\ OfUser(u) # {}
    /\ Len(code) < MaxCodes
    /\ code' = Append(code, [u |-> u, used |-> FALSE, expired |-> FALSE, grants |-> 0])
    /\ Arrival
    /\ UNCHANGED <<user, session, token, mail, req>>

ExchangeCode(r, c) ==
    /\ ~code[c].used /\ ~code[c].expired
    /\ Begin(r, "exchange", "find_user", code[c].u, 0, c, 0, FALSE)
    /\ UNCHANGED <<user, session, token, mail, code>>

ExchangeFindUser(r) ==
    /\ At(r, "exchange", "find_user")
    /\ IF user[req[r].u].state = "disabled" THEN Fails(r) ELSE Goto(r, "create_session")
    /\ UNCHANGED <<user, session, token, mail, code, arrived>>

\* UPDATE ... WHERE used_at IS NULL AND expires_at > NOW(), after the session
\* was stored: the request that loses leaves a session without a token.
UseAuthorizationCode(r) ==
    LET c == req[r].row IN
    /\ At(r, "exchange", "use_code")
    /\ \/ /\ ~code[c].used /\ ~code[c].expired
          /\ code' = [code EXCEPT ![c].used = TRUE]
          /\ Goto(r, "issue")
       \/ /\ code[c].used \/ code[c].expired
          /\ Fails(r)
          /\ UNCHANGED code
    /\ UNCHANGED <<user, session, token, mail, arrived>>

-----------------------------------------------------------------------------
(* Time passes the expires_at of a row that was not used.                   *)

ExpireToken(t) ==
    /\ ~token[t].used /\ ~token[t].expired
    /\ token' = [token EXCEPT ![t].expired = TRUE]
    /\ UNCHANGED <<user, session, mail, code, req, arrived>>

ExpireMail(m) ==
    /\ ~mail[m].used /\ ~mail[m].expired
    /\ mail' = [mail EXCEPT ![m].expired = TRUE]
    /\ UNCHANGED <<user, session, token, code, req, arrived>>

ExpireCode(c) ==
    /\ ~code[c].used /\ ~code[c].expired
    /\ code' = [code EXCEPT ![c].expired = TRUE]
    /\ UNCHANGED <<user, session, token, mail, req, arrived>>

Step(r) ==
    \/ Drop(r)
    \/ CreateUser(r) \/ SendVerification(r)
    \/ VerifyPassword(r) \/ CreateSession(r) \/ IssueTokens(r)
    \/ RefreshFindSession(r) \/ RefreshFindUser(r)
    \/ CreateMail(r) \/ UseMail(r) \/ SetVerified(r) \/ SetPassword(r)
    \/ RevokeUserSessions(r) \/ DisableUser(r)
    \/ ExchangeFindUser(r) \/ UseAuthorizationCode(r)

Arrive(r) ==
    \/ \E u \in Users : Signup(r, u) \/ PasswordGrant(r, u) \/ RequestPasswordReset(r, u)
                        \/ DeleteUser(r, u)
    \/ \E t \in DOMAIN token : RotateRefreshToken(r, t)
    \/ \E m \in DOMAIN mail : FindMail(r, m)
    \/ \E c \in DOMAIN code : ExchangeCode(r, c)
    \/ \E s \in DOMAIN session : IssueMfaTokens(r, s)

Next ==
    \/ \E r \in Requests : Arrive(r) \/ Step(r)
    \/ \E u \in Users : UpdateUser(u) \/ CreateAuthorizationCode(u)
    \/ \E s \in DOMAIN session : Logout(s)
    \/ \E t \in DOMAIN token : ExpireToken(t)
    \/ \E m \in DOMAIN mail : ExpireMail(m)
    \/ \E c \in DOMAIN code : ExpireCode(c)

Spec == Init /\ [][Next]_vars

-----------------------------------------------------------------------------
\* However many requests present the tokens of a session, and in whatever
\* order, rotation (rotate_refresh_token) never multiplies them: a session has
\* at most as many unused tokens as issue_tokens and issue_mfa_tokens gave it.
RotationNeverForks ==
    \A s \in DOMAIN session :
        Cardinality({t \in DOMAIN token : token[t].s = s /\ ~token[t].used}) <= session[s].minted

\* The rows of a session's tokens name it, and it issued no more than those.
RowsFit ==
    /\ \A t \in DOMAIN token : token[t].s \in DOMAIN session
    /\ \A s \in DOMAIN session : session[s].minted <= Len(token)

\* What a request q carries is in the tables.
Fits(q) ==
    /\ IF q.at = "idle" THEN q.op = None ELSE q.u \in Users
    /\ q.at \in {"use_code", "issue", "find_session"} => q.s \in DOMAIN session
    /\ q.op = "exchange" => q.row \in DOMAIN code
    /\ q.at \in {"use_mail", "update_user"} => q.op \in {"verify", "reset"}
    /\ q.op \in {"verify", "reset"} => q.row \in DOMAIN mail
    /\ q.op = "reset" /\ q.at = "revoke" => q.pw <= user[q.u].pw

\* What made a refresh too late lasts until the request looks for it.
StaysDead(q) ==
    q.dead => \/ /\ q.at = "find_session"
                 /\ session[q.s].revoked \/ user[q.u].state = "disabled"
              \/ q.at = "find_user" /\ user[q.u].state = "disabled"

\* A login about to store its session holds a password that no reset has
\* replaced, or overlaps that reset.
IsCurrent(q) ==
    q.at = "create_session" /\ q.op # "exchange" /\ q.pw < user[q.u].cut => q.late

RequestsFit ==
    /\ \A u \in Users : user[u].cut <= user[u].pw
    /\ \A r \in Requests : Fits(req[r]) /\ StaysDead(req[r]) /\ IsCurrent(req[r])

Applies(r) == req[r].at = "update_user"
Exchanges(r) == At(r, "exchange", "issue")

\* One request at most acts on a one-time row, and it has marked the row used.
OneActsOnARow ==
    /\ \A m \in DOMAIN mail : mail[m].applied > 0 => mail[m].used
    /\ \A c \in DOMAIN code : code[c].grants > 0 => code[c].used
    /\ \A r \in Requests :
        /\ Applies(r) => mail[req[r].row].used /\ mail[req[r].row].applied = 0
        /\ Exchanges(r) => code[req[r].row].used /\ code[req[r].row].grants = 0
    /\ \A r, q \in Requests : r # q =>
        /\ ~(Applies(r) /\ Applies(q) /\ req[r].row = req[q].row)
        /\ ~(Exchanges(r) /\ Exchanges(q) /\ req[r].row = req[q].row)

\* u was not created yet, or its signup has not sent the mail.
IsSending(r, u) == req[r].at = "send_verification" /\ req[r].u = u
IsNew(u) == user[u].state = "absent" \/ \E r \in Requests : IsSending(r, u)

\* Nobody has a mail for a user who is new, so nobody resets the password.
NewcomersHaveNoMail ==
    /\ \A u \in Users : \A r, q \in Requests : IsSending(r, u) /\ IsSending(q, u) => r = q
    /\ \A u \in Users : \A r \in Requests : IsSending(r, u) => user[u].state # "absent"
    /\ \A u \in Users : IsNew(u) =>
        /\ ~user[u].verified /\ user[u].cut = 0
        /\ \A m \in DOMAIN mail : mail[m].u # u
        /\ \A r \in Requests : req[r].u = u => req[r].op \notin {"forgot", "verify", "reset"}

\* A refresh that presents its token after the session was revoked (logout,
\* reuse of a burned token, password reset) or after its user was disabled
\* never answers with an access token, although the token is rotated before
\* either is looked at.
DeadSessionsAreNotServed == \A r \in Requests : ~(req[r].at = "idle" /\ req[r].dead)

\* A mailed token changes its user at most once and an authorization code
\* issues tokens at most once, however many requests found it unused
\* (find_*_by_hash and use_* are separate statements).
OneTimeTokensWorkOnce ==
    /\ \A m \in DOMAIN mail : mail[m].applied <= 1
    /\ \A c \in DOMAIN code : code[c].grants <= 1

\* After confirm_password_reset revoked the sessions, the only live session
\* that rests on a replaced password belongs to a login that had verified it
\* before and stored its session after: a login that starts later never
\* opens one, whatever the order of resets, password changes and logins.  Said
\* of the sessions that password_grant opened (amr pwd) only: an authorization
\* code obtained under the old password still opens one after the reset.
OldPasswordOnlyByOverlap ==
    \A s \in DOMAIN session :
        (session[s].amr = "pwd" /\ ~session[s].revoked /\ session[s].pw < user[session[s].u].cut)
            => session[s].late

\* The tables are what their schema says, the requests that run fit them, and
\* rotation forks no session; with what the three properties above need to
\* hold after every step.
SessionsInv ==
    /\ TypeOK /\ RowsFit /\ RequestsFit /\ RotationNeverForks
    /\ OneActsOnARow /\ OneTimeTokensWorkOnce
    /\ NewcomersHaveNoMail /\ OldPasswordOnlyByOverlap

\* delete_user: "Soft-delete a user and revoke all their sessions."
DeletedUsersHaveNoSession ==
    \A s \in DOMAIN session : user[session[s].u].state = "disabled" => session[s].revoked
=============================================================================
