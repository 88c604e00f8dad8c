-------------------------- MODULE AuthSessionsProofs ---------------------------
(***************************************************************************)
(* Proofs about AuthSessions for every set of users and of concurrent       *)
(* requests and every bound on the tables: SessionsInv is inductive, so     *)
(* rotation, one-time tokens, revocation and password resets do what they   *)
(* promise however requests interleave and wherever one of them ends.       *)
(***************************************************************************)
EXTENDS AuthSessions, TLAPS, FiniteSetTheorems, SequenceTheorems

(* What Append does to a table.                                             *)
LEMMA Appended ==
  ASSUME NEW S, NEW q \in Seq(S), NEW x \in S
  PROVE  /\ Append(q, x) \in Seq(S) /\ Len(Append(q, x)) = Len(q) + 1
         /\ Len(q) \in Nat /\ DOMAIN q = 1 .. Len(q)
         /\ DOMAIN Append(q, x) = 1 .. Len(q) + 1
         /\ \A i \in DOMAIN q : Append(q, x)[i] = q[i]
         /\ Append(q, x)[Len(q) + 1] = x
  BY AppendProperties, LenProperties

(* What an UPDATE does to a table.                                          *)
LEMMA Updated ==
  ASSUME NEW S, NEW q \in Seq(S), NEW f \in [DOMAIN q -> S]
  PROVE  f \in Seq(S) /\ Len(f) = Len(q) /\ DOMAIN f = DOMAIN q
<1>1. Len(q) \in Nat /\ DOMAIN q = 1 .. Len(q)
  BY LenProperties
<1>2. f \in Seq(S)
  BY <1>1, SeqDef
<1>3. DOMAIN f = 1 .. Len(f) /\ Len(f) \in Nat
  BY <1>2, LenProperties
<1> QED BY <1>1, <1>2, <1>3

(* The rows of the tables and the requests, one by one.                     *)
LEMMA Rows ==
  ASSUME TypeOK
  PROVE  /\ \A u \in Users : user[u] \in UserRow
         /\ \A s \in DOMAIN session : session[s] \in SessionRow
         /\ \A t \in DOMAIN token : token[t] \in TokenRow
         /\ \A m \in DOMAIN mail : mail[m] \in MailRow
         /\ \A c \in DOMAIN code : code[c] \in CodeRow
         /\ \A r \in Requests : req[r] \in Request
         /\ DOMAIN session = 1 .. Len(session) /\ Len(session) \in 0 .. MaxSessions
         /\ DOMAIN token = 1 .. Len(token) /\ Len(token) \in 0 .. MaxTokens
         /\ DOMAIN mail = 1 .. Len(mail) /\ Len(mail) \in 0 .. MaxMails
         /\ DOMAIN code = 1 .. Len(code) /\ Len(code) \in 0 .. MaxCodes
<1>1. \A u \in Users : user[u] \in UserRow
  BY DEF TypeOK
<1>2. \A r \in Requests : req[r] \in Request
  BY DEF TypeOK
<1>3. /\ \A s \in DOMAIN session : session[s] \in SessionRow
      /\ DOMAIN session = 1 .. Len(session) /\ Len(session) \in 0 .. MaxSessions
  BY LenProperties, ElementOfSeq, AuthConstants DEF TypeOK
<1>4. /\ \A t \in DOMAIN token : token[t] \in TokenRow
      /\ DOMAIN token = 1 .. Len(token) /\ Len(token) \in 0 .. MaxTokens
  BY LenProperties, ElementOfSeq, AuthConstants DEF TypeOK
<1>5. /\ \A m \in DOMAIN mail : mail[m] \in MailRow
      /\ DOMAIN mail = 1 .. Len(mail) /\ Len(mail) \in 0 .. MaxMails
  BY LenProperties, ElementOfSeq, AuthConstants DEF TypeOK
<1>6. /\ \A c \in DOMAIN code : code[c] \in CodeRow
      /\ DOMAIN code = 1 .. Len(code) /\ Len(code) \in 0 .. MaxCodes
  BY LenProperties, ElementOfSeq, AuthConstants DEF TypeOK
<1> QED BY <1>1, <1>2, <1>3, <1>4, <1>5, <1>6

(* A table after an UPDATE of one row.                                      *)
LEMMA RowSet ==
  ASSUME NEW S, NEW q \in Seq(S), NEW i \in DOMAIN q, NEW x \in S
  PROVE  LET f == [q EXCEPT ![i] = x]
         IN  /\ f \in Seq(S) /\ Len(f) = Len(q) /\ DOMAIN f = DOMAIN q
             /\ \A j \in DOMAIN q : f[j] = IF j = i THEN x ELSE q[j]
<1> DEFINE f == [q EXCEPT ![i] = x]
<1>1. q \in [DOMAIN q -> S]
  BY LenProperties
<1>2. f \in [DOMAIN q -> S] /\ \A j \in DOMAIN q : f[j] = IF j = i THEN x ELSE q[j]
  BY <1>1
<1> HIDE DEF f
<1>3. f \in Seq(S) /\ Len(f) = Len(q) /\ DOMAIN f = DOMAIN q
  BY <1>2, Updated
<1> QED BY <1>2, <1>3 DEF f

(* The records that the actions write.                                      *)
LEMMA SessionRows ==
  ASSUME NEW x \in SessionRow
  PROVE  /\ [x EXCEPT !.revoked = TRUE] \in SessionRow
         /\ \A n \in 0 .. MaxTokens : [x EXCEPT !.minted = n] \in SessionRow
  BY DEF SessionRow

(* A refresh token that is used or expires.                                 *)
LEMMA TokenRows ==
  ASSUME NEW x \in TokenRow
  PROVE  [x EXCEPT !.used = TRUE] \in TokenRow /\ [x EXCEPT !.expired = TRUE] \in TokenRow
  BY DEF TokenRow

(* A mailed token that is used, expires or is applied.                      *)
LEMMA MailRows ==
  ASSUME NEW x \in MailRow
  PROVE  /\ [x EXCEPT !.used = TRUE] \in MailRow /\ [x EXCEPT !.expired = TRUE] \in MailRow
         /\ \A n \in 0 .. Cardinality(Requests) : [x EXCEPT !.applied = n] \in MailRow
  BY DEF MailRow

(* A code that is used, expires or issues tokens.                           *)
LEMMA CodeRows ==
  ASSUME NEW x \in CodeRow
  PROVE  /\ [x EXCEPT !.used = TRUE] \in CodeRow /\ [x EXCEPT !.expired = TRUE] \in CodeRow
         /\ \A n \in 0 .. Cardinality(Requests) : [x EXCEPT !.grants = n] \in CodeRow
  BY DEF CodeRow

(* A user who is changed.                                                   *)
LEMMA UserRows ==
  ASSUME NEW x \in UserRow
  PROVE  /\ \A st \in {"active", "disabled"} : [x EXCEPT !.state = st] \in UserRow
         /\ \A b \in BOOLEAN : [x EXCEPT !.verified = b] \in UserRow
         /\ \A n \in 0 .. MaxPassword : /\ [x EXCEPT !.pw = n] \in UserRow
                                        /\ [x EXCEPT !.cut = n] \in UserRow
  BY DEF UserRow

(* A request that goes on to its next store call.                           *)
LEMMA RequestGoesOn ==
  ASSUME NEW x \in Request
  PROVE  /\ \A at \in Places : [x EXCEPT !.at = at] \in Request
         /\ \A at \in Places, n \in 0 .. MaxPassword : [x EXCEPT !.at = at, !.pw = n] \in Request
         /\ \A at \in Places, n \in 0 .. MaxSessions : [x EXCEPT !.at = at, !.s = n] \in Request
         /\ \A b \in BOOLEAN : [x EXCEPT !.late = b] \in Request
  BY DEF Request

(* There is room for one request to act on a row.                           *)
LEMMA OneRequest ==
  ASSUME NEW r \in Requests
  PROVE  1 \in 0 .. Cardinality(Requests) /\ 0 \in 0 .. Cardinality(Requests)
<1>1. Cardinality(Requests) \in Nat /\ Cardinality(Requests) # 0
  BY AuthConstants, FS_CardinalityType, FS_EmptySet
<1> QED BY <1>1

(* A request that is over.                                                  *)
LEMMA IdleFits ==
  ASSUME NEW b \in BOOLEAN
  PROVE  /\ Idle(b) \in Request /\ Fits(Idle(b)) /\ IsCurrent(Idle(b)) /\ (~b => StaysDead(Idle(b)))
         /\ Idle(b).at = "idle" /\ Idle(b).op = None /\ Idle(b).dead = b
  BY AuthConstants DEF Idle, Request, Fits, StaysDead, IsCurrent, None, Places, Ops

-----------------------------------------------------------------------------
(* What stays while a step changes other things.                            *)

\* No request but r moves, and r moves to q if at all.
Moves(r, q) == \A p \in Requests : req'[p] = req[p] \/ (p = r /\ req'[p] = q)

\* Rows are not deleted, a revocation and a disabling last, passwords count up.
Later ==
    /\ DOMAIN session \subseteq DOMAIN session'
    /\ DOMAIN mail \subseteq DOMAIN mail' /\ DOMAIN code \subseteq DOMAIN code'
    /\ \A s \in DOMAIN session : session[s].revoked => session'[s].revoked
    /\ \A u \in Users : /\ user[u].pw <= user'[u].pw
                        /\ user[u].state = "disabled" => user'[u].state = "disabled"

SameCuts == \A u \in Users : user'[u].cut = user[u].cut

\* Nobody begins to act on a one-time row, and nothing is done on one.
OneTimeRowsStay ==
    /\ \A m \in DOMAIN mail : mail'[m].used = mail[m].used /\ mail'[m].applied = mail[m].applied
    /\ \A m \in DOMAIN mail' : m \notin DOMAIN mail => mail'[m].applied = 0
    /\ \A c \in DOMAIN code : code'[c].used = code[c].used /\ code'[c].grants = code[c].grants
    /\ \A c \in DOMAIN code' : c \notin DOMAIN code => code'[c].grants = 0

ActsOnRow(q) == q.at = "update_user" \/ (q.op = "exchange" /\ q.at = "issue")

\* Nobody becomes new, and no mail or reset comes up for who is.
NewcomersStay ==
    /\ \A u \in Users : /\ user'[u].state = "absent" => user[u].state = "absent"
                        /\ user'[u].verified => user[u].verified \/ ~IsNew(u)
    /\ \A m \in DOMAIN mail' : \/ m \in DOMAIN mail /\ mail'[m].u = mail[m].u
                               \/ ~IsNew(mail'[m].u)

Mails(q) == q.op \in {"forgot", "verify", "reset"}

SessionsStay ==
    /\ DOMAIN session' = DOMAIN session
    /\ \A s \in DOMAIN session :
        /\ session'[s].u = session[s].u /\ session'[s].amr = session[s].amr
        /\ session'[s].pw = session[s].pw /\ session'[s].late = session[s].late
        /\ session[s].revoked => session'[s].revoked

\* What the tokens say, but for their expiry, and what issued them.
TokensStay ==
    /\ DOMAIN token' = DOMAIN token
    /\ \A t \in DOMAIN token : token'[t].s = token[t].s /\ token'[t].used = token[t].used
    /\ \A s \in DOMAIN session : session'[s].minted = session[s].minted

(* What a request carries fits as well after the tables changed.            *)
LEMMA FitsStays ==
  ASSUME TypeOK, TypeOK', Later, NEW q \in Request, Fits(q)
  PROVE  /\ Fits(q)'
         /\ StaysDead(q) => StaysDead(q)'
         /\ SameCuts /\ IsCurrent(q) => IsCurrent(q)'
<1> /\ \A u \in Users : user[u] \in UserRow /\ user'[u] \in UserRow
    /\ q.pw \in Nat
  BY AuthConstants DEF TypeOK, Request
<1>1. Fits(q)'
  <2>1. q.op = "reset" /\ q.at = "revoke" => q.pw <= user'[q.u].pw
    <3> SUFFICES ASSUME q.op = "reset", q.at = "revoke"
                 PROVE  q.pw <= user'[q.u].pw
      OBVIOUS
    <3>1. q.u \in Users /\ q.pw <= user[q.u].pw /\ user[q.u].pw <= user'[q.u].pw
      BY DEF Fits, Later
    <3>2. user[q.u].pw \in Nat /\ user'[q.u].pw \in Nat
      BY <3>1, AuthConstants DEF UserRow
    <3> QED BY <3>1, <3>2
  <2> QED BY <2>1 DEF Fits, Later
<1>2. StaysDead(q) => StaysDead(q)'
  BY DEF StaysDead, Fits, Later
<1>3. SameCuts /\ IsCurrent(q) => IsCurrent(q)'
  BY DEF SameCuts, IsCurrent, Fits
<1> QED BY <1>1, <1>2, <1>3

(* All requests fit when one moves to where what it carries fits.           *)
LEMMA RequestsStay ==
  ASSUME SessionsInv, TypeOK', Later, SameCuts, NEW r, NEW q, Moves(r, q),
         Fits(q)', StaysDead(q)', IsCurrent(q)'
  PROVE  RequestsFit'
<1>1. TypeOK /\ \A p \in Requests : req[p] \in Request
             /\ Fits(req[p]) /\ StaysDead(req[p]) /\ IsCurrent(req[p])
  BY Rows DEF SessionsInv, RequestsFit
<1>2. ASSUME NEW p \in Requests
      PROVE  /\ Fits(req[p])' /\ StaysDead(req[p])' /\ IsCurrent(req[p])'
  <2>1. CASE req'[p] = q
    BY <2>1 DEF Fits, StaysDead, IsCurrent
  <2>2. CASE req'[p] = req[p]
    <3>1. PICK x \in Request : x = req[p]
      BY <1>1
    <3>2. Fits(x)' /\ StaysDead(x)' /\ IsCurrent(x)'
      BY <1>1, <3>1, FitsStays
    <3>3. req'[p] = x
      BY <2>2, <3>1
    <3> QED BY <3>2, <3>3 DEF Fits, StaysDead, IsCurrent
  <2> QED BY <2>1, <2>2 DEF Moves
<1>3. \A u \in Users : user'[u].cut <= user'[u].pw
  <2> SUFFICES ASSUME NEW u \in Users PROVE user'[u].cut <= user'[u].pw
    OBVIOUS
  <2>1. user[u].cut <= user[u].pw /\ user[u].pw <= user'[u].pw /\ user'[u].cut = user[u].cut
    BY DEF SessionsInv, RequestsFit, Later, SameCuts
  <2>2. user[u] \in UserRow /\ user'[u] \in UserRow
    BY DEF SessionsInv, TypeOK
  <2>3. user[u].cut \in 0 .. MaxPassword /\ user[u].pw \in 0 .. MaxPassword
        /\ user'[u].pw \in 0 .. MaxPassword /\ MaxPassword \in Nat
    BY <2>2, AuthConstants DEF UserRow
  <2>4. \A a, b, c \in 0 .. MaxPassword : a <= b /\ b <= c => a <= c
    BY <2>3
  <2> QED BY <2>1, <2>3, <2>4
<1> QED BY <1>2, <1>3 DEF RequestsFit

(* One-time rows are safe when nobody acts on one.                          *)
LEMMA OneTimeStays ==
  ASSUME SessionsInv, Later, OneTimeRowsStay, NEW r, NEW q, Moves(r, q), ~ActsOnRow(q)
  PROVE  OneActsOnARow' /\ OneTimeTokensWorkOnce'
<1>1. \A p \in Requests : Applies(p)' => Applies(p) /\ req'[p] = req[p]
  BY DEF Moves, ActsOnRow, Applies
<1>2. \A p \in Requests : Exchanges(p)' => Exchanges(p) /\ req'[p] = req[p]
  BY DEF Moves, ActsOnRow, Exchanges, At
<1>3. \A p \in Requests : /\ Applies(p) => req[p].row \in DOMAIN mail
                          /\ Exchanges(p) => req[p].row \in DOMAIN code
  BY DEF SessionsInv, RequestsFit, Fits, Applies, Exchanges, At
<1>4. OneTimeTokensWorkOnce'
  BY DEF SessionsInv, OneTimeTokensWorkOnce, OneTimeRowsStay
<1>5. /\ \A m \in DOMAIN mail' : mail'[m].applied > 0 => mail'[m].used
      /\ \A c \in DOMAIN code' : code'[c].grants > 0 => code'[c].used
  BY DEF SessionsInv, OneActsOnARow, OneTimeRowsStay
<1>6. \A p \in Requests :
        /\ Applies(p)' => mail'[req'[p].row].used /\ mail'[req'[p].row].applied = 0
        /\ Exchanges(p)' => code'[req'[p].row].used /\ code'[req'[p].row].grants = 0
  BY <1>1, <1>2, <1>3 DEF SessionsInv, OneActsOnARow, OneTimeRowsStay
<1>7. \A p1, p2 \in Requests : p1 # p2 =>
        /\ ~(Applies(p1)' /\ Applies(p2)' /\ req'[p1].row = req'[p2].row)
        /\ ~(Exchanges(p1)' /\ Exchanges(p2)' /\ req'[p1].row = req'[p2].row)
  BY <1>1, <1>2 DEF SessionsInv, OneActsOnARow
<1> QED BY <1>4, <1>5, <1>6, <1>7 DEF OneActsOnARow

(* New users have no mail when no mail or reset comes up for one.           *)
LEMMA NewcomersStayNew ==
  ASSUME SessionsInv, NewcomersStay, SameCuts, NEW r, NEW q, Moves(r, q),
         q.at # "send_verification", Mails(q) => ~IsNew(q.u)
  PROVE  NewcomersHaveNoMail'
<1>1. \A u \in Users : \A p \in Requests : IsSending(p, u)' => IsSending(p, u)
  BY DEF Moves, IsSending
<1>2. \A u \in Users : IsNew(u)' => IsNew(u)
  BY <1>1 DEF IsNew, NewcomersStay
<1>3. /\ \A u \in Users : \A p1, p2 \in Requests : IsSending(p1, u)' /\ IsSending(p2, u)' => p1 = p2
      /\ \A u \in Users : \A p \in Requests : IsSending(p, u)' => user'[u].state # "absent"
  BY <1>1 DEF SessionsInv, NewcomersHaveNoMail, NewcomersStay
<1>4. ASSUME NEW u \in Users, IsNew(u)'
      PROVE  /\ ~user'[u].verified /\ user'[u].cut = 0
             /\ \A m \in DOMAIN mail' : mail'[m].u # u
             /\ \A p \in Requests : req'[p].u = u => req'[p].op \notin {"forgot", "verify", "reset"}
  <2>1. IsNew(u)
    BY <1>2, <1>4
  <2>2. /\ ~user[u].verified /\ user[u].cut = 0
        /\ \A m \in DOMAIN mail : mail[m].u # u
        /\ \A p \in Requests : req[p].u = u => req[p].op \notin {"forgot", "verify", "reset"}
    BY <2>1 DEF SessionsInv, NewcomersHaveNoMail
  <2>3. ~user'[u].verified /\ user'[u].cut = 0
    BY <2>1, <2>2 DEF NewcomersStay, SameCuts
  <2>4. \A m \in DOMAIN mail' : mail'[m].u # u
    BY <2>1, <2>2 DEF NewcomersStay
  <2>5. \A p \in Requests : req'[p].u = u => req'[p].op \notin {"forgot", "verify", "reset"}
    BY <2>1, <2>2 DEF Moves, Mails
  <2> QED BY <2>3, <2>4, <2>5
<1> QED BY <1>3, <1>4 DEF NewcomersHaveNoMail

(* Sessions rest on the passwords that they rested on.                      *)
LEMMA OldPasswordsStay ==
  ASSUME SessionsInv, TypeOK', SessionsStay, SameCuts
  PROVE  OldPasswordOnlyByOverlap'
<1>1. \A s \in DOMAIN session : session[s].u \in Users
  BY Rows DEF SessionsInv, SessionRow
<1> QED BY <1>1 DEF SessionsInv, OldPasswordOnlyByOverlap, SessionsStay, SameCuts

\* The tokens of a session that were not used.
Unused(s) == {t \in DOMAIN token : token[t].s = s /\ ~token[t].used}

(* Sessions have the unused tokens that they had.                           *)
LEMMA TokensStayUnforked ==
  ASSUME SessionsInv, SessionsStay, TokensStay, TypeOK'
  PROVE  RotationNeverForks' /\ RowsFit'
<1>1. Len(token') = Len(token)
  BY Rows, LenProperties DEF SessionsInv, TypeOK, TokensStay
<1>2. RowsFit'
  BY <1>1 DEF SessionsInv, RowsFit, SessionsStay, TokensStay
<1>3. \A s \in DOMAIN session : Unused(s)' = Unused(s)
  BY DEF Unused, TokensStay
<1>4. RotationNeverForks'
  BY <1>3 DEF SessionsInv, RotationNeverForks, Unused, SessionsStay, TokensStay
<1> QED BY <1>2, <1>4

\* Nothing happens to the tables that the invariant speaks of, but for new
\* users; and not for them either.
Calm == Later /\ SameCuts /\ OneTimeRowsStay /\ SessionsStay /\ TokensStay
Quiet == Calm /\ NewcomersStay

(* A calm step that moves a request to where what it carries fits.          *)
LEMMA CalmStep ==
  ASSUME SessionsInv, TypeOK', Calm, NEW r, NEW q, Moves(r, q),
         Fits(q)', StaysDead(q)', IsCurrent(q)', ~ActsOnRow(q), NewcomersHaveNoMail'
  PROVE  SessionsInv'
<1>1. RequestsFit'
  BY RequestsStay DEF Calm
<1>2. OneActsOnARow' /\ OneTimeTokensWorkOnce'
  BY OneTimeStays DEF Calm
<1>3. OldPasswordOnlyByOverlap'
  BY OldPasswordsStay DEF Calm
<1>4. RotationNeverForks' /\ RowsFit'
  BY TokensStayUnforked DEF Calm
<1> QED BY <1>1, <1>2, <1>3, <1>4 DEF SessionsInv

(* A quiet step that moves a request to where what it carries fits.         *)
LEMMA QuietStep ==
  ASSUME SessionsInv, TypeOK', Quiet, NEW r, NEW q, Moves(r, q),
         Fits(q)', StaysDead(q)', IsCurrent(q)',
         ~ActsOnRow(q), q.at # "send_verification", Mails(q) => ~IsNew(q.u)
  PROVE  SessionsInv'
<1>1. NewcomersHaveNoMail'
  BY NewcomersStayNew DEF Quiet, Calm
<1> QED BY <1>1, CalmStep DEF Quiet

-----------------------------------------------------------------------------
(* The steps that are quiet.                                                *)

(* Passwords are counted by numbers.                                        *)
LEMMA PasswordsCount ==
  ASSUME SessionsInv, NEW u \in Users
  PROVE  user[u].pw <= user[u].pw
<1>1. user[u].pw \in 0 .. MaxPassword /\ MaxPassword \in Nat
  BY Rows, AuthConstants DEF SessionsInv, UserRow
<1> QED BY <1>1

(* A step that leaves the tables alone is quiet.                            *)
LEMMA TablesAlone ==
  ASSUME SessionsInv, UNCHANGED <<user, session, token, mail, code>>
  PROVE  Quiet
<1>1. \A u \in Users : user[u].pw <= user[u].pw
  BY PasswordsCount
<1> QED BY <1>1 DEF Quiet, Calm, Later, SameCuts, OneTimeRowsStay, NewcomersStay, SessionsStay, TokensStay

(* A request that moves and leaves the tables alone.                        *)
LEMMA RequestMoves ==
  ASSUME SessionsInv, NEW r \in Requests, NEW q \in Request, req' = [req EXCEPT ![r] = q],
         UNCHANGED <<user, session, token, mail, code>>, arrived' \in 0 .. MaxArrivals,
         Fits(q), StaysDead(q), IsCurrent(q),
         ~ActsOnRow(q), q.at # "send_verification", Mails(q) => ~IsNew(q.u)
  PROVE  SessionsInv'
<1>1. req \in [Requests -> Request]
  BY DEF SessionsInv, TypeOK
<1>2. TypeOK' /\ Moves(r, q)
  BY <1>1 DEF SessionsInv, TypeOK, Moves
<1>3. Fits(q)' /\ StaysDead(q)' /\ IsCurrent(q)'
  BY DEF Fits, StaysDead, IsCurrent
<1> QED BY <1>2, <1>3, TablesAlone, QuietStep

(* A request that ends and leaves the tables alone.                         *)
LEMMA RequestEnds ==
  ASSUME SessionsInv, NEW r \in Requests, Fails(r),
         UNCHANGED <<user, session, token, mail, code, arrived>>
  PROVE  SessionsInv'
<1>1. arrived' \in 0 .. MaxArrivals
  BY DEF SessionsInv, TypeOK
<1>2. ~ActsOnRow(Idle(FALSE)) /\ ~Mails(Idle(FALSE)) /\ Idle(FALSE).at # "send_verification"
  BY IdleFits DEF ActsOnRow, Mails, None
<1> QED BY <1>1, <1>2, IdleFits, RequestMoves DEF Fails

(* Who carries a mail is not new.                                           *)
LEMMA MailedAreKnown ==
  ASSUME SessionsInv, NEW r \in Requests, Mails(req[r])
  PROVE  req[r].u \in Users /\ ~IsNew(req[r].u)
<1>1. req[r].at # "idle" /\ req[r].u \in Users
  BY DEF SessionsInv, RequestsFit, Fits, Mails, None
<1> QED BY <1>1 DEF SessionsInv, NewcomersHaveNoMail, Mails

(* A request that goes on and leaves the tables alone.                      *)
LEMMA RequestGoes ==
  ASSUME SessionsInv, NEW r \in Requests, NEW at \in {"create_session", "find_user"}, Goto(r, at),
         UNCHANGED <<user, session, token, mail, code, arrived>>,
         req[r].at \in {"verify_password", "find_session", "find_user"},
         at = "create_session" =>
            ~req[r].dead /\ (req[r].op = "exchange" \/ req[r].pw = user[req[r].u].pw),
         at = "find_user" => (req[r].dead => user[req[r].u].state = "disabled")
  PROVE  SessionsInv'
<1>1. req[r] \in Request /\ Fits(req[r]) /\ arrived' \in 0 .. MaxArrivals
  BY Rows DEF SessionsInv, RequestsFit, TypeOK
<1>2. PICK q \in Request : q = [req[r] EXCEPT !.at = at]
  BY <1>1, RequestGoesOn DEF Places
<1>3. /\ q.at = at /\ q.op = req[r].op /\ q.u = req[r].u /\ q.pw = req[r].pw
      /\ q.row = req[r].row /\ q.s = req[r].s /\ q.late = req[r].late /\ q.dead = req[r].dead
  BY <1>1, <1>2 DEF Request
<1>4. req' = [req EXCEPT ![r] = q]
  BY <1>2 DEF Goto, SessionsInv, TypeOK
<1>5. req[r].u \in Users
  BY <1>1 DEF Fits
<1>6. Fits(q)
  BY <1>1, <1>3 DEF Fits
<1>7. StaysDead(q)
  BY <1>3 DEF StaysDead
<1>8. IsCurrent(q)
  <2>1. user[req[r].u].cut <= user[req[r].u].pw
    BY <1>5 DEF SessionsInv, RequestsFit
  <2>2. user[req[r].u].cut \in 0 .. MaxPassword /\ user[req[r].u].pw \in 0 .. MaxPassword
        /\ MaxPassword \in Nat
    BY <1>5, Rows, AuthConstants DEF SessionsInv, UserRow
  <2>3. ~(user[req[r].u].pw < user[req[r].u].cut)
    BY <2>1, <2>2
  <2> QED BY <1>3, <2>3 DEF IsCurrent
<1>9. ~ActsOnRow(q) /\ q.at # "send_verification" /\ (Mails(q) => ~IsNew(q.u))
  BY <1>3, MailedAreKnown DEF ActsOnRow, Mails
<1> QED BY <1>1, <1>4, <1>6, <1>7, <1>8, <1>9, RequestMoves

(* A request that arrives to do something.                                  *)
LEMMA Arrives ==
  ASSUME SessionsInv, NEW r \in Requests, NEW q \in Request, Arrival,
         req' = [req EXCEPT ![r] = q], UNCHANGED <<user, session, token, mail, code>>,
         q.at \in {"create_user", "verify_password", "create_mail", "revoke", "use_mail",
                   "find_user", "issue"},
         q.u \in Users, ~q.dead, Fits(q),
         q.op = "exchange" => q.at # "issue", Mails(q) => ~IsNew(q.u)
  PROVE  SessionsInv'
<1>1. arrived' \in 0 .. MaxArrivals
  BY AuthConstants DEF Arrival, SessionsInv, TypeOK
<1>2. StaysDead(q) /\ IsCurrent(q)
  BY DEF StaysDead, IsCurrent
<1>3. ~ActsOnRow(q) /\ q.at # "send_verification"
  BY DEF ActsOnRow
<1> QED BY <1>1, <1>2, <1>3, RequestMoves

(* The requests that begin with a read.                                     *)
LEMMA ArrivalsKeep ==
  ASSUME SessionsInv, NEW r \in Requests,
         \/ \E u \in Users : \/ Signup(r, u) \/ PasswordGrant(r, u) \/ RequestPasswordReset(r, u)
                             \/ DeleteUser(r, u)
         \/ \E m \in DOMAIN mail : FindMail(r, m)
         \/ \E c \in DOMAIN code : ExchangeCode(r, c)
         \/ \E s \in DOMAIN session : IssueMfaTokens(r, s)
  PROVE  SessionsInv'
<1> DEFINE R(at, op, u, pw, row, s) ==
             [at |-> at, op |-> op, u |-> u, pw |-> pw, row |-> row, s |-> s,
              late |-> FALSE, dead |-> FALSE]
<1>0. 0 \in 0 .. MaxPassword /\ 0 \in 0 .. MaxSessions
  BY AuthConstants
<1>1. ASSUME NEW u \in Users,
             \/ Signup(r, u) \/ PasswordGrant(r, u) \/ RequestPasswordReset(r, u) \/ DeleteUser(r, u)
      PROVE  SessionsInv'
  <2>1. \E at \in {"create_user", "verify_password", "create_mail", "revoke"},
           op \in {"signup", "login", "forgot", "delete"}, pw \in 0 .. MaxPassword :
           /\ Arrival /\ req' = [req EXCEPT ![r] = R(at, op, u, pw, 0, 0)]
           /\ UNCHANGED <<user, session, token, mail, code>>
           /\ op = "forgot" => user[u].verified
    <3>1. CASE Signup(r, u) \/ RequestPasswordReset(r, u) \/ DeleteUser(r, u)
      BY <1>0, <3>1 DEF Signup, RequestPasswordReset, DeleteUser, Begin
    <3>2. CASE PasswordGrant(r, u)
      <4>1. user[u].pw \in 0 .. MaxPassword /\ MaxPassword \in Nat
        BY Rows, AuthConstants DEF SessionsInv, UserRow
      <4>2. PICK pw \in 0 .. user[u].pw : Begin(r, "login", "verify_password", u, pw, 0, 0, FALSE)
        BY <3>2 DEF PasswordGrant
      <4>3. pw \in 0 .. MaxPassword
        BY <4>1
      <4> QED BY <3>2, <4>2, <4>3 DEF PasswordGrant, Begin
    <3> QED BY <1>1, <3>1, <3>2
  <2>2. PICK at \in {"create_user", "verify_password", "create_mail", "revoke"},
             op \in {"signup", "login", "forgot", "delete"}, pw \in 0 .. MaxPassword :
           /\ Arrival /\ req' = [req EXCEPT ![r] = R(at, op, u, pw, 0, 0)]
           /\ UNCHANGED <<user, session, token, mail, code>>
           /\ op = "forgot" => user[u].verified
    BY <2>1
  <2>3. PICK q : q = R(at, op, u, pw, 0, 0)
    OBVIOUS
  <2>4. q \in Request
    BY <1>0, <2>3 DEF Request, Places, Ops
  <2>5. Fits(q)
    BY <2>3 DEF Fits
  <2>6. Mails(q) => ~IsNew(q.u)
    BY <2>2, <2>3 DEF Mails, SessionsInv, NewcomersHaveNoMail
  <2> QED BY <2>2, <2>3, <2>4, <2>5, <2>6, Arrives
<1>2. ASSUME NEW m \in DOMAIN mail, FindMail(r, m)
      PROVE  SessionsInv'
  <2>1. mail[m].u \in Users /\ m \in Nat
    BY Rows DEF SessionsInv, MailRow
  <2>2. PICK op \in {"verify", "reset"}, u \in Users :
           /\ u = mail[m].u
           /\ Arrival /\ req' = [req EXCEPT ![r] = R("use_mail", op, u, 0, m, 0)]
           /\ UNCHANGED <<user, session, token, mail, code>>
    BY <1>2, <2>1 DEF FindMail, Begin
  <2>3. PICK q : q = R("use_mail", op, u, 0, m, 0)
    OBVIOUS
  <2>4. q \in Request
    BY <1>0, <2>1, <2>3 DEF Request, Places, Ops
  <2>5. Fits(q)
    BY <2>3 DEF Fits
  <2>6. Mails(q) => ~IsNew(q.u)
    BY <2>2, <2>3 DEF Mails, SessionsInv, NewcomersHaveNoMail
  <2> QED BY <2>2, <2>3, <2>4, <2>5, <2>6, Arrives
<1>3. ASSUME NEW c \in DOMAIN code, ExchangeCode(r, c)
      PROVE  SessionsInv'
  <2>1. code[c].u \in Users /\ c \in Nat
    BY Rows DEF SessionsInv, CodeRow
  <2>2. PICK u \in Users :
           /\ u = code[c].u
           /\ Arrival /\ req' = [req EXCEPT ![r] = R("find_user", "exchange", u, 0, c, 0)]
           /\ UNCHANGED <<user, session, token, mail, code>>
    BY <1>3, <2>1 DEF ExchangeCode, Begin
  <2>3. PICK q : q = R("find_user", "exchange", u, 0, c, 0)
    OBVIOUS
  <2>4. q \in Request
    BY <1>0, <2>1, <2>3 DEF Request, Places, Ops
  <2>5. Fits(q) /\ ~Mails(q)
    BY <2>3 DEF Fits, Mails
  <2> QED BY <2>2, <2>3, <2>4, <2>5, Arrives
<1>4. ASSUME NEW s \in DOMAIN session, IssueMfaTokens(r, s)
      PROVE  SessionsInv'
  <2>1. session[s].u \in Users /\ s \in 0 .. MaxSessions
    BY Rows, AuthConstants DEF SessionsInv, SessionRow
  <2>2. PICK u \in Users :
           /\ u = session[s].u
           /\ Arrival /\ req' = [req EXCEPT ![r] = R("issue", "mfa", u, 0, 0, s)]
           /\ UNCHANGED <<user, session, token, mail, code>>
    BY <1>4, <2>1 DEF IssueMfaTokens, Begin
  <2>3. PICK q : q = R("issue", "mfa", u, 0, 0, s)
    OBVIOUS
  <2>4. q \in Request
    BY <1>0, <2>1, <2>3 DEF Request, Places, Ops
  <2>5. Fits(q) /\ ~Mails(q)
    BY <2>3 DEF Fits, Mails
  <2> QED BY <2>2, <2>3, <2>4, <2>5, Arrives
<1> QED BY <1>1, <1>2, <1>3, <1>4

(* The steps of a request that only read.                                   *)
LEMMA ReadsKeep ==
  ASSUME SessionsInv, NEW r \in Requests,
         \/ Drop(r) \/ VerifyPassword(r) \/ RefreshFindSession(r) \/ RefreshFindUser(r)
         \/ ExchangeFindUser(r)
  PROVE  SessionsInv'
<1>1. req[r] \in Request /\ Fits(req[r]) /\ StaysDead(req[r])
  BY Rows DEF SessionsInv, RequestsFit
<1>2. CASE Drop(r)
  BY <1>2, RequestEnds DEF Drop
<1>3. CASE VerifyPassword(r)
  BY <1>1, <1>3, RequestEnds, RequestGoes DEF VerifyPassword, At, StaysDead
<1>4. CASE RefreshFindSession(r)
  BY <1>1, <1>4, RequestEnds, RequestGoes DEF RefreshFindSession, At, StaysDead
<1>5. CASE ExchangeFindUser(r)
  BY <1>1, <1>5, RequestEnds, RequestGoes DEF ExchangeFindUser, At, StaysDead
<1>6. CASE RefreshFindUser(r)
  <2>1. CASE user[req[r].u].state = "disabled"
    BY <1>6, <2>1, RequestEnds DEF RefreshFindUser
  <2>2. CASE user[req[r].u].state # "disabled"
    <3>1. req[r].dead = FALSE
      BY <1>1, <1>6, <2>2 DEF RefreshFindUser, At, StaysDead, Request
    <3>2. Fails(r)
      BY <1>6, <2>2, <3>1 DEF RefreshFindUser, Grants, Fails
    <3> QED BY <1>6, <3>2, RequestEnds DEF RefreshFindUser
  <2> QED BY <2>1, <2>2
<1> QED BY <1>2, <1>3, <1>4, <1>5, <1>6

-----------------------------------------------------------------------------
(* The steps that change a table quietly.                                   *)

(* A quiet step in which a request ends, or none moves.                     *)
LEMMA QuietEnd ==
  ASSUME SessionsInv, TypeOK', Quiet, NEW r, Moves(r, Idle(FALSE))
  PROVE  SessionsInv'
<1>1. PICK q \in Request : q = Idle(FALSE)
  BY IdleFits
<1>2. q.at = "idle" /\ q.op = None /\ q.dead = FALSE
  BY <1>1, IdleFits
<1>3. Fits(q)' /\ StaysDead(q)' /\ IsCurrent(q)'
  BY <1>2 DEF Fits, StaysDead, IsCurrent, None
<1>4. ~ActsOnRow(q) /\ q.at # "send_verification" /\ ~Mails(q)
  BY <1>2 DEF ActsOnRow, Mails, None
<1>5. Moves(r, q)
  BY <1>1
<1> QED BY <1>3, <1>4, <1>5, QuietStep

(* What a request that ends, or none that moves, does to req.               *)
LEMMA EndsAlone ==
  ASSUME SessionsInv, NEW r, Fails(r) \/ UNCHANGED req
  PROVE  req' \in [Requests -> Request] /\ Moves(r, Idle(FALSE))
<1>1. req \in [Requests -> Request] /\ Idle(FALSE) \in Request
  BY IdleFits DEF SessionsInv, TypeOK
<1> QED BY <1>1 DEF Fails, Moves

(* What revoke_session, revoke_user_sessions and reuse do to sessions.      *)
LEMMA RevokedRows ==
  ASSUME SessionsInv, NEW S, session' = Revoked(S)
  PROVE  /\ session' \in Seq(SessionRow) /\ Len(session') = Len(session)
         /\ DOMAIN session' = DOMAIN session
         /\ \A s \in DOMAIN session :
               /\ session'[s].u = session[s].u /\ session'[s].amr = session[s].amr
               /\ session'[s].pw = session[s].pw /\ session'[s].late = session[s].late
               /\ session'[s].minted = session[s].minted
               /\ session'[s].revoked = (session[s].revoked \/ s \in S)
<1>1. session \in Seq(SessionRow) /\ \A s \in DOMAIN session : session[s] \in SessionRow
  BY Rows DEF SessionsInv, TypeOK
<1>2. \A s \in DOMAIN session : [session[s] EXCEPT !.revoked = TRUE] \in SessionRow
  BY <1>1, SessionRows
<1>3. session' \in [DOMAIN session -> SessionRow]
  BY <1>1, <1>2 DEF Revoked
<1>4. session' \in Seq(SessionRow) /\ Len(session') = Len(session) /\ DOMAIN session' = DOMAIN session
  BY <1>1, <1>3, Updated
<1>5. ASSUME NEW s \in DOMAIN session
      PROVE  /\ session'[s].u = session[s].u /\ session'[s].amr = session[s].amr
             /\ session'[s].pw = session[s].pw /\ session'[s].late = session[s].late
             /\ session'[s].minted = session[s].minted
             /\ session'[s].revoked = (session[s].revoked \/ s \in S)
  <2>1. session'[s] = IF s \in S THEN [session[s] EXCEPT !.revoked = TRUE] ELSE session[s]
    BY DEF Revoked
  <2> QED BY <1>1, <2>1 DEF SessionRow
<1> QED BY <1>4, <1>5

(* Revoking sessions is quiet, but for what becomes of the requests.        *)
LEMMA RevokeIsQuiet ==
  ASSUME SessionsInv, NEW S, session' = Revoked(S), UNCHANGED <<user, token, mail, code>>
  PROVE  /\ Quiet
         /\ req' \in [Requests -> Request] /\ arrived' \in 0 .. MaxArrivals => TypeOK'
<1>1. \A u \in Users : user[u].pw <= user[u].pw
  BY PasswordsCount
<1>2. Quiet
  BY <1>1, RevokedRows
     DEF Quiet, Calm, Later, SameCuts, OneTimeRowsStay, NewcomersStay, SessionsStay, TokensStay
<1>3. req' \in [Requests -> Request] /\ arrived' \in 0 .. MaxArrivals => TypeOK'
  BY RevokedRows DEF SessionsInv, TypeOK
<1> QED BY <1>2, <1>3

(* A user row is changed, and its cut stays.                                *)
LEMMA UserChangeIsQuiet ==
  ASSUME SessionsInv, NEW u \in Users, NEW x \in UserRow, user' = [user EXCEPT ![u] = x],
         UNCHANGED <<session, token, mail, code>>,
         x.cut = user[u].cut, user[u].pw <= x.pw,
         user[u].state = "disabled" => x.state = "disabled",
         x.state = "absent" => user[u].state = "absent",
         x.verified => user[u].verified \/ ~IsNew(u)
  PROVE  /\ Quiet
         /\ req' \in [Requests -> Request] /\ arrived' \in 0 .. MaxArrivals => TypeOK'
<1>1. user \in [Users -> UserRow]
  BY DEF SessionsInv, TypeOK
<1>2. \A v \in Users : user[v].pw <= user[v].pw
  BY PasswordsCount
<1>3. \A v \in Users : user'[v] = IF v = u THEN x ELSE user[v]
  BY <1>1
<1>4. Later /\ SameCuts
  BY <1>2, <1>3 DEF Later, SameCuts
<1>5. NewcomersStay
  BY <1>3 DEF NewcomersStay
<1>6. OneTimeRowsStay /\ SessionsStay /\ TokensStay
  BY DEF OneTimeRowsStay, SessionsStay, TokensStay
<1>7. req' \in [Requests -> Request] /\ arrived' \in 0 .. MaxArrivals => TypeOK'
  BY <1>1 DEF SessionsInv, TypeOK
<1> QED BY <1>4, <1>5, <1>6, <1>7 DEF Quiet, Calm

(* Reuse of a burned token, logout, disabling and PATCH /user.              *)
LEMMA QuietUpdatesKeep ==
  ASSUME SessionsInv,
         \/ \E r \in Requests, s \in DOMAIN session :
              /\ session' = Revoked({s}) /\ Fails(r)
              /\ UNCHANGED <<user, token, mail, code, arrived>>
         \/ \E s \in DOMAIN session : Logout(s)
         \/ \E r \in Requests : DisableUser(r)
         \/ \E u \in Users : UpdateUser(u)
  PROVE  SessionsInv'
<1>0. arrived \in 0 .. MaxArrivals /\ (Arrival => arrived' \in 0 .. MaxArrivals)
  BY AuthConstants DEF SessionsInv, TypeOK, Arrival
<1>1. ASSUME NEW r \in Requests, NEW s \in DOMAIN session, session' = Revoked({s}), Fails(r),
             UNCHANGED <<user, token, mail, code, arrived>>
      PROVE  SessionsInv'
  BY <1>0, <1>1, RevokeIsQuiet, EndsAlone, QuietEnd
<1>2. ASSUME NEW s \in DOMAIN session, Logout(s) PROVE SessionsInv'
  BY <1>0, <1>2, RevokeIsQuiet, EndsAlone, QuietEnd DEF Logout
<1>3. ASSUME NEW r \in Requests, DisableUser(r) PROVE SessionsInv'
  <2>1. req[r].u \in Users
    BY <1>3 DEF SessionsInv, RequestsFit, Fits, DisableUser
  <2>2. PICK u \in Users : u = req[r].u
    BY <2>1
  <2>3. user[u] \in UserRow /\ [user[u] EXCEPT !.state = "disabled"] \in UserRow
    BY Rows, UserRows DEF SessionsInv
  <2>4. PICK x \in UserRow : x = [user[u] EXCEPT !.state = "disabled"]
    BY <2>3
  <2>5. /\ x.state = "disabled" /\ x.verified = user[u].verified
        /\ x.cut = user[u].cut /\ x.pw = user[u].pw
    BY <2>3, <2>4 DEF UserRow
  <2>6. user[u].pw <= x.pw
    <3>1. user[u].pw \in 0 .. MaxPassword /\ MaxPassword \in Nat
      BY <2>3, AuthConstants DEF UserRow
    <3> QED BY <2>5, <3>1
  <2>8. Quiet /\ (req' \in [Requests -> Request] /\ arrived' \in 0 .. MaxArrivals => TypeOK')
    BY <1>3, <2>2, <2>4, <2>5, <2>6, UserChangeIsQuiet DEF DisableUser, SessionsInv, TypeOK
  <2> QED BY <1>0, <1>3, <2>8, EndsAlone, QuietEnd DEF DisableUser
<1>4. ASSUME NEW u \in Users, UpdateUser(u) PROVE SessionsInv'
  <2>1. user[u] \in UserRow /\ MaxPassword \in Nat
    BY Rows, AuthConstants DEF SessionsInv
  <2>2. user[u].pw \in 0 .. MaxPassword
    BY <2>1 DEF UserRow
  <2>3. CASE user[u].pw < MaxPassword /\ user' = [user EXCEPT ![u].pw = @ + 1]
    <3>1. user[u].pw + 1 \in 0 .. MaxPassword
      BY <2>1, <2>2, <2>3
    <3>2. PICK x \in UserRow : x = [user[u] EXCEPT !.pw = user[u].pw + 1]
      BY <2>1, <3>1, UserRows
    <3>3. /\ x.state = user[u].state /\ x.verified = user[u].verified
          /\ x.cut = user[u].cut /\ x.pw = user[u].pw + 1
      BY <2>1, <3>2 DEF UserRow
    <3>4. user[u].pw <= x.pw
      BY <2>1, <2>2, <3>3
    <3>5. user' = [user EXCEPT ![u] = x]
      BY <2>3, <3>2
    <3>6. Quiet /\ (req' \in [Requests -> Request] /\ arrived' \in 0 .. MaxArrivals => TypeOK')
      BY <1>4, <3>3, <3>4, <3>5, UserChangeIsQuiet DEF UpdateUser
    <3> QED BY <1>0, <1>4, <3>6, EndsAlone, QuietEnd DEF UpdateUser
  <2>4. CASE user' = [user EXCEPT ![u].verified = FALSE]
    <3>1. PICK x \in UserRow : x = [user[u] EXCEPT !.verified = FALSE]
      BY <2>1, UserRows
    <3>2. /\ x.state = user[u].state /\ x.verified = FALSE
          /\ x.cut = user[u].cut /\ x.pw = user[u].pw
      BY <2>1, <3>1 DEF UserRow
    <3>3. user[u].pw <= x.pw
      BY <2>1, <2>2, <3>2
    <3>4. user' = [user EXCEPT ![u] = x]
      BY <2>4, <3>1
    <3>5. Quiet /\ (req' \in [Requests -> Request] /\ arrived' \in 0 .. MaxArrivals => TypeOK')
      BY <1>4, <3>2, <3>3, <3>4, UserChangeIsQuiet DEF UpdateUser
    <3> QED BY <1>0, <1>4, <3>5, EndsAlone, QuietEnd DEF UpdateUser
  <2> QED BY <1>4, <2>3, <2>4 DEF UpdateUser
<1> QED BY <1>1, <1>2, <1>3, <1>4

(* Expiry.                                                                  *)
LEMMA ExpiryKeeps ==
  ASSUME SessionsInv,
         \/ \E t \in DOMAIN token : ExpireToken(t)
         \/ \E m \in DOMAIN mail : ExpireMail(m)
         \/ \E c \in DOMAIN code : ExpireCode(c)
  PROVE  SessionsInv'
<1>0. \A u \in Users : user[u].pw <= user[u].pw
  BY PasswordsCount
<1>1. ASSUME NEW t \in DOMAIN token, ExpireToken(t) PROVE SessionsInv'
  <2>1. token \in Seq(TokenRow) /\ token[t] \in TokenRow
    BY Rows DEF SessionsInv, TypeOK
  <2>2. PICK x \in TokenRow : x = [token[t] EXCEPT !.expired = TRUE]
    BY <2>1, TokenRows
  <2>3. x.s = token[t].s /\ x.used = token[t].used
    BY <2>1, <2>2 DEF TokenRow
  <2>4. token' = [token EXCEPT ![t] = x]
    BY <1>1, <2>2 DEF ExpireToken
  <2>5. /\ token' \in Seq(TokenRow) /\ Len(token') = Len(token) /\ DOMAIN token' = DOMAIN token
        /\ \A j \in DOMAIN token : token'[j] = IF j = t THEN x ELSE token[j]
    BY <2>1, <2>4, RowSet
  <2>6. TypeOK'
    BY <1>1, <2>5 DEF SessionsInv, TypeOK, ExpireToken
  <2>7. Quiet
    BY <1>0, <1>1, <2>3, <2>5 DEF Quiet, Calm, Later, SameCuts, OneTimeRowsStay, NewcomersStay,
                                  SessionsStay, TokensStay, ExpireToken
  <2> QED BY <1>1, <2>6, <2>7, EndsAlone, QuietEnd DEF ExpireToken
<1>2. ASSUME NEW m \in DOMAIN mail, ExpireMail(m) PROVE SessionsInv'
  <2>1. mail \in Seq(MailRow) /\ mail[m] \in MailRow
    BY Rows DEF SessionsInv, TypeOK
  <2>2. PICK x \in MailRow : x = [mail[m] EXCEPT !.expired = TRUE]
    BY <2>1, MailRows
  <2>3. x.u = mail[m].u /\ x.used = mail[m].used /\ x.applied = mail[m].applied
    BY <2>1, <2>2 DEF MailRow
  <2>4. mail' = [mail EXCEPT ![m] = x]
    BY <1>2, <2>2 DEF ExpireMail
  <2>5. /\ mail' \in Seq(MailRow) /\ Len(mail') = Len(mail) /\ DOMAIN mail' = DOMAIN mail
        /\ \A j \in DOMAIN mail : mail'[j] = IF j = m THEN x ELSE mail[j]
    BY <2>1, <2>4, RowSet
  <2>6. TypeOK'
    BY <1>2, <2>5 DEF SessionsInv, TypeOK, ExpireMail
  <2>7. Quiet
    BY <1>0, <1>2, <2>3, <2>5 DEF Quiet, Calm, Later, SameCuts, OneTimeRowsStay, NewcomersStay,
                                  SessionsStay, TokensStay, ExpireMail
  <2> QED BY <1>2, <2>6, <2>7, EndsAlone, QuietEnd DEF ExpireMail
<1>3. ASSUME NEW c \in DOMAIN code, ExpireCode(c) PROVE SessionsInv'
  <2>1. code \in Seq(CodeRow) /\ code[c] \in CodeRow
    BY Rows DEF SessionsInv, TypeOK
  <2>2. PICK x \in CodeRow : x = [code[c] EXCEPT !.expired = TRUE]
    BY <2>1, CodeRows
  <2>3. x.u = code[c].u /\ x.used = code[c].used /\ x.grants = code[c].grants
    BY <2>1, <2>2 DEF CodeRow
  <2>4. code' = [code EXCEPT ![c] = x]
    BY <1>3, <2>2 DEF ExpireCode
  <2>5. /\ code' \in Seq(CodeRow) /\ Len(code') = Len(code) /\ DOMAIN code' = DOMAIN code
        /\ \A j \in DOMAIN code : code'[j] = IF j = c THEN x ELSE code[j]
    BY <2>1, <2>4, RowSet
  <2>6. TypeOK'
    BY <1>3, <2>5 DEF SessionsInv, TypeOK, ExpireCode
  <2>7. Quiet
    BY <1>0, <1>3, <2>3, <2>5 DEF Quiet, Calm, Later, SameCuts, OneTimeRowsStay, NewcomersStay,
                                  SessionsStay, TokensStay, ExpireCode
  <2> QED BY <1>3, <2>6, <2>7, EndsAlone, QuietEnd DEF ExpireCode
<1> QED BY <1>1, <1>2, <1>3

-----------------------------------------------------------------------------
(* The steps about mail and new users.                                      *)

(* A row is added to verification_tokens.                                   *)
LEMMA MailAdded ==
  ASSUME SessionsInv, NEW u \in Users, NEW type \in {"email", "password_reset"},
         Len(mail) < MaxMails, mail' = NewMail(u, type)
  PROVE  /\ mail' \in Seq(MailRow) /\ Len(mail') <= MaxMails
         /\ DOMAIN mail \subseteq DOMAIN mail'
         /\ \A m \in DOMAIN mail : mail'[m] = mail[m]
         /\ \A m \in DOMAIN mail' : m \notin DOMAIN mail => mail'[m].u = u /\ mail'[m].applied = 0
<1> DEFINE x == [u |-> u, type |-> type, used |-> FALSE, expired |-> FALSE, applied |-> 0]
<1>1. 0 \in 0 .. Cardinality(Requests)
  BY AuthConstants, FS_CardinalityType
<1>2. x \in MailRow /\ x.u = u /\ x.applied = 0
  BY <1>1 DEF MailRow
<1>3. mail \in Seq(MailRow) /\ mail' = Append(mail, x)
  BY DEF SessionsInv, TypeOK, NewMail
<1> HIDE DEF x
<1>4. /\ mail' \in Seq(MailRow) /\ Len(mail') = Len(mail) + 1 /\ Len(mail) \in Nat
      /\ DOMAIN mail = 1 .. Len(mail) /\ DOMAIN mail' = 1 .. Len(mail) + 1
      /\ \A m \in DOMAIN mail : mail'[m] = mail[m]
      /\ mail'[Len(mail) + 1] = x
  BY <1>2, <1>3, Appended
<1>5. Len(mail') <= MaxMails
  BY <1>4, AuthConstants
<1>6. \A m \in DOMAIN mail' : m \notin DOMAIN mail => m = Len(mail) + 1
  BY <1>4
<1>7. DOMAIN mail \subseteq DOMAIN mail'
  BY <1>4
<1> QED BY <1>2, <1>4, <1>5, <1>6, <1>7

(* A password reset is mailed to a user who is not new.                     *)
LEMMA CreateMailKeeps ==
  ASSUME SessionsInv, NEW r \in Requests, CreateMail(r)
  PROVE  SessionsInv'
<1>1. req[r].u \in Users /\ ~IsNew(req[r].u)
  BY MailedAreKnown DEF CreateMail, At, Mails
<1>2. PICK u \in Users : u = req[r].u
  BY <1>1
<1>3. mail' = NewMail(u, "password_reset") /\ Len(mail) < MaxMails /\ ~IsNew(u)
  BY <1>1, <1>2 DEF CreateMail
<1>4. /\ mail' \in Seq(MailRow) /\ Len(mail') <= MaxMails
      /\ DOMAIN mail \subseteq DOMAIN mail'
      /\ \A m \in DOMAIN mail : mail'[m] = mail[m]
      /\ \A m \in DOMAIN mail' : m \notin DOMAIN mail => mail'[m].u = u /\ mail'[m].applied = 0
  BY <1>3, MailAdded
<1>5. req' \in [Requests -> Request] /\ Moves(r, Idle(FALSE))
  BY EndsAlone DEF CreateMail
<1>6. TypeOK'
  BY <1>4, <1>5 DEF CreateMail, SessionsInv, TypeOK
<1>7. \A v \in Users : user[v].pw <= user[v].pw
  BY PasswordsCount
<1>8. Calm
  BY <1>4, <1>7 DEF CreateMail, Calm, Later, SameCuts, OneTimeRowsStay, SessionsStay, TokensStay
<1>9. NewcomersStay
  BY <1>3, <1>4 DEF CreateMail, NewcomersStay
<1> QED BY <1>5, <1>6, <1>8, <1>9, QuietEnd DEF Quiet

(* A signup stores its user: nobody else is sending the mail.               *)
LEMMA CreateUserKeeps ==
  ASSUME SessionsInv, NEW r \in Requests, CreateUser(r)
  PROVE  SessionsInv'
<1>0. req[r] \in Request /\ Fits(req[r]) /\ StaysDead(req[r]) /\ req \in [Requests -> Request]
      /\ arrived \in 0 .. MaxArrivals
  BY Rows DEF SessionsInv, RequestsFit, TypeOK
<1>1. CASE user[req[r].u].state # "absent"
  BY <1>1, RequestEnds DEF CreateUser
<1>2. CASE user[req[r].u].state = "absent"
  <2>1. PICK u \in Users : u = req[r].u
    BY <1>0 DEF CreateUser, At, Fits
  <2>2. /\ user[u].state = "absent" /\ user' = [user EXCEPT ![u].state = "active"]
        /\ Goto(r, "send_verification") /\ UNCHANGED <<session, token, mail, code, arrived>>
    BY <1>2, <2>1 DEF CreateUser
  <2>3. user \in [Users -> UserRow] /\ user[u] \in UserRow
    BY DEF SessionsInv, TypeOK
  <2>4. PICK x \in UserRow : x = [user[u] EXCEPT !.state = "active"]
    BY <2>3, UserRows
  <2>5. /\ x.state = "active" /\ x.verified = user[u].verified
        /\ x.cut = user[u].cut /\ x.pw = user[u].pw
    BY <2>3, <2>4 DEF UserRow
  <2>6. user' = [user EXCEPT ![u] = x]
    BY <2>2, <2>4
  <2>7. \A v \in Users : user'[v] = IF v = u THEN x ELSE user[v]
    BY <2>3, <2>6
  <2>8. user[u].pw <= x.pw
    BY <2>5, PasswordsCount
  <2>9. PICK q \in Request : q = [req[r] EXCEPT !.at = "send_verification"]
    BY <1>0, RequestGoesOn DEF Places
  <2>10. /\ q.at = "send_verification" /\ q.op = "signup" /\ q.u = u /\ q.dead = req[r].dead
    BY <1>0, <2>1, <2>9 DEF Request, CreateUser, At
  <2>11. req' = [req EXCEPT ![r] = q]
    BY <1>0, <2>2, <2>9 DEF Goto
  <2>12. req' \in [Requests -> Request] /\ Moves(r, q) /\ req'[r] = q
    BY <1>0, <2>11 DEF Moves
  <2>13. Quiet /\ TypeOK'
    BY <1>0, <2>2, <2>5, <2>6, <2>8, <2>12, UserChangeIsQuiet
  <2>14. Fits(q)' /\ IsCurrent(q)' /\ ~ActsOnRow(q)
    BY <2>10 DEF Fits, IsCurrent, ActsOnRow
  <2>15. StaysDead(q)'
    BY <1>0, <2>10 DEF StaysDead, CreateUser, At
  <2>16. NewcomersHaveNoMail'
    <3>1. ~IsSending(r, u) /\ \A p \in Requests : ~IsSending(p, u)
      BY <2>2 DEF SessionsInv, NewcomersHaveNoMail
    <3>2. \A p \in Requests, v \in Users : IsSending(p, v)' => \/ p = r /\ v = u
                                                               \/ v # u /\ IsSending(p, v)
      BY <2>10, <2>12, <3>1 DEF Moves, IsSending
    <3>3. \A v \in Users : IsNew(v)' => IsNew(v)
      BY <2>2, <2>7, <3>2 DEF IsNew
    <3>4. /\ \A v \in Users : \A p1, p2 \in Requests :
               IsSending(p1, v)' /\ IsSending(p2, v)' => p1 = p2
          /\ \A v \in Users : \A p \in Requests : IsSending(p, v)' => user'[v].state # "absent"
      BY <2>5, <2>7, <3>2 DEF SessionsInv, NewcomersHaveNoMail
    <3>5. \A v \in Users : user'[v].verified = user[v].verified /\ user'[v].cut = user[v].cut
      BY <2>5, <2>7
    <3>6. \A p \in Requests : req'[p].u = req[p].u /\ (Mails(req'[p]) <=> Mails(req[p]))
      BY <2>1, <2>10, <2>12 DEF Moves, Mails, CreateUser, At
    <3>7. \A v \in Users : IsNew(v)' =>
            /\ ~user'[v].verified /\ user'[v].cut = 0
            /\ \A m \in DOMAIN mail' : mail'[m].u # v
            /\ \A p \in Requests : req'[p].u = v => req'[p].op \notin {"forgot", "verify", "reset"}
      BY <2>2, <3>3, <3>5, <3>6 DEF SessionsInv, NewcomersHaveNoMail, Mails
    <3> QED BY <3>4, <3>7 DEF NewcomersHaveNoMail
  <2> QED BY <2>12, <2>13, <2>14, <2>15, <2>16, CalmStep DEF Quiet
<1> QED BY <1>1, <1>2

(* The signup sends its mail, or fails to, and its user is new no more.     *)
LEMMA SendVerificationKeeps ==
  ASSUME SessionsInv, NEW r \in Requests, SendVerification(r)
  PROVE  SessionsInv'
<1>0. req[r] \in Request /\ Fits(req[r]) /\ StaysDead(req[r]) /\ req \in [Requests -> Request]
      /\ arrived \in 0 .. MaxArrivals
  BY Rows DEF SessionsInv, RequestsFit, TypeOK
<1>1. PICK u \in Users : u = req[r].u
  BY <1>0 DEF SendVerification, At, Fits
<1>2. IsSending(r, u) /\ IsNew(u) /\ user[u].cut = 0 /\ user[u].state # "absent"
  BY <1>1 DEF SendVerification, At, IsSending, IsNew, SessionsInv, NewcomersHaveNoMail
<1>3. PICK q \in Request : q = [req[r] EXCEPT !.at = "create_session"]
  BY <1>0, RequestGoesOn DEF Places
<1>4. /\ q.at = "create_session" /\ q.op = "signup" /\ q.u = u /\ q.dead = req[r].dead
  BY <1>0, <1>1, <1>3 DEF Request, SendVerification, At
<1>5. req' = [req EXCEPT ![r] = q]
  BY <1>0, <1>3 DEF SendVerification, Goto
<1>6. req' \in [Requests -> Request] /\ Moves(r, q) /\ req'[r] = q
  BY <1>0, <1>5 DEF Moves
<1>7. /\ mail' \in Seq(MailRow) /\ Len(mail') <= MaxMails
      /\ DOMAIN mail \subseteq DOMAIN mail'
      /\ \A m \in DOMAIN mail : mail'[m] = mail[m]
      /\ \A m \in DOMAIN mail' : m \notin DOMAIN mail => mail'[m].u = u /\ mail'[m].applied = 0
  <2>1. CASE UNCHANGED mail
    BY <2>1 DEF SessionsInv, TypeOK
  <2>2. CASE Len(mail) < MaxMails /\ mail' = NewMail(u, "email")
    BY <2>2, MailAdded
  <2> QED BY <1>1, <2>1, <2>2 DEF SendVerification
<1>8. UNCHANGED <<user, session, token, code, arrived>>
  BY DEF SendVerification
<1>9. TypeOK'
  BY <1>6, <1>7, <1>8 DEF SessionsInv, TypeOK
<1>10. \A v \in Users : user[v].pw <= user[v].pw
  BY PasswordsCount
<1>11. Calm
  BY <1>7, <1>8, <1>10 DEF Calm, Later, SameCuts, OneTimeRowsStay, SessionsStay, TokensStay
<1>12. Fits(q)' /\ ~ActsOnRow(q)
  BY <1>4 DEF Fits, ActsOnRow
<1>13. StaysDead(q)'
  BY <1>0, <1>4 DEF StaysDead, SendVerification, At
<1>14. IsCurrent(q)'
  <2>1. q.pw \in 0 .. MaxPassword /\ MaxPassword \in Nat
    BY AuthConstants DEF Request
  <2>2. ~(q.pw < 0)
    BY <2>1
  <2> QED BY <1>2, <1>4, <1>8, <2>2 DEF IsCurrent
<1>15. NewcomersHaveNoMail'
  <2>1. \A p \in Requests, v \in Users : IsSending(p, v)' => IsSending(p, v) /\ p # r
    BY <1>4, <1>6 DEF Moves, IsSending
  <2>2. \A p \in Requests : IsSending(p, u) => p = r
    BY <1>2 DEF SessionsInv, NewcomersHaveNoMail
  <2>3. \A v \in Users : IsNew(v)' => IsNew(v) /\ v # u
    BY <1>2, <1>8, <2>1, <2>2 DEF IsNew
  <2>4. /\ \A v \in Users : \A p1, p2 \in Requests :
             IsSending(p1, v)' /\ IsSending(p2, v)' => p1 = p2
        /\ \A v \in Users : \A p \in Requests : IsSending(p, v)' => user'[v].state # "absent"
    BY <1>8, <2>1 DEF SessionsInv, NewcomersHaveNoMail
  <2>5. \A p \in Requests : req'[p].u = req[p].u /\ (Mails(req'[p]) <=> Mails(req[p]))
    BY <1>1, <1>4, <1>6 DEF Moves, Mails, SendVerification, At
  <2>6. ASSUME NEW v \in Users, IsNew(v)'
        PROVE  /\ ~user'[v].verified /\ user'[v].cut = 0
               /\ \A m \in DOMAIN mail' : mail'[m].u # v
               /\ \A p \in Requests : req'[p].u = v => req'[p].op \notin {"forgot", "verify", "reset"}
    <3>1. IsNew(v) /\ v # u
      BY <2>3, <2>6
    <3>2. /\ ~user[v].verified /\ user[v].cut = 0
          /\ \A m \in DOMAIN mail : mail[m].u # v
          /\ \A p \in Requests : req[p].u = v => ~Mails(req[p])
      BY <3>1 DEF SessionsInv, NewcomersHaveNoMail, Mails
    <3>3. \A m \in DOMAIN mail' : mail'[m].u # v
      BY <1>7, <3>1, <3>2
    <3>4. \A p \in Requests : req'[p].u = v => ~Mails(req'[p])
      BY <2>5, <3>2
    <3> QED BY <1>8, <3>2, <3>3, <3>4 DEF Mails
  <2> QED BY <2>4, <2>6 DEF NewcomersHaveNoMail
<1> QED BY <1>6, <1>9, <1>11, <1>12, <1>13, <1>14, <1>15, CalmStep

(* create_authorization_code adds a row that nobody acted on.               *)
LEMMA CreateCodeKeeps ==
  ASSUME SessionsInv, NEW u \in Users, CreateAuthorizationCode(u)
  PROVE  SessionsInv'
<1> DEFINE x == [u |-> u, used |-> FALSE, expired |-> FALSE, grants |-> 0]
<1>1. 0 \in 0 .. Cardinality(Requests)
  BY AuthConstants, FS_CardinalityType
<1>2. x \in CodeRow /\ x.grants = 0
  BY <1>1 DEF CodeRow
<1>3. code \in Seq(CodeRow) /\ code' = Append(code, x) /\ Len(code) < MaxCodes
  BY DEF SessionsInv, TypeOK, CreateAuthorizationCode
<1> HIDE DEF x
<1>4. /\ code' \in Seq(CodeRow) /\ Len(code') = Len(code) + 1 /\ Len(code) \in Nat
      /\ DOMAIN code = 1 .. Len(code) /\ DOMAIN code' = 1 .. Len(code) + 1
      /\ \A m \in DOMAIN code : code'[m] = code[m]
      /\ code'[Len(code) + 1] = x
  BY <1>2, <1>3, Appended
<1>5. Len(code') <= MaxCodes
  BY <1>3, <1>4, AuthConstants
<1>6. \A m \in DOMAIN code' : m \notin DOMAIN code => m = Len(code) + 1
  BY <1>4
<1>7. DOMAIN code \subseteq DOMAIN code'
  BY <1>4
<1>8. req' \in [Requests -> Request] /\ arrived' \in 0 .. MaxArrivals
  BY AuthConstants DEF SessionsInv, TypeOK, CreateAuthorizationCode, Arrival
<1>9. TypeOK'
  BY <1>4, <1>5, <1>8 DEF CreateAuthorizationCode, SessionsInv, TypeOK
<1>10. \A v \in Users : user[v].pw <= user[v].pw
  BY PasswordsCount
<1>11. \A c \in DOMAIN code' : c \notin DOMAIN code => code'[c].grants = 0
  BY <1>2, <1>4, <1>6
<1>12. Quiet
  BY <1>4, <1>7, <1>10, <1>11
     DEF CreateAuthorizationCode, Quiet, Calm, Later, SameCuts, OneTimeRowsStay, NewcomersStay,
         SessionsStay, TokensStay
<1> QED BY <1>9, <1>12, EndsAlone, QuietEnd DEF CreateAuthorizationCode

-----------------------------------------------------------------------------
(* The steps about one-time tokens.                                         *)

(* Of the requests that found a mail unused one marks it, the others fail.  *)
LEMMA UseMailKeeps ==
  ASSUME SessionsInv, NEW r \in Requests, UseMail(r)
  PROVE  SessionsInv'
<1>0. /\ req[r] \in Request /\ Fits(req[r]) /\ StaysDead(req[r]) /\ req \in [Requests -> Request]
      /\ mail \in Seq(MailRow)
  BY Rows DEF SessionsInv, RequestsFit, TypeOK
<1>1. CASE Fails(r) /\ UNCHANGED mail
  BY <1>1, RequestEnds DEF UseMail
<1>2. CASE ~mail[req[r].row].used /\ mail' = [mail EXCEPT ![req[r].row].used = TRUE]
           /\ Goto(r, "update_user")
  <2>1. PICK m \in DOMAIN mail : m = req[r].row
    BY <1>0 DEF UseMail, Fits
  <2>2. mail[m] \in MailRow /\ ~mail[m].used
    BY <1>2, <2>1, Rows DEF SessionsInv
  <2>3. PICK x \in MailRow : x = [mail[m] EXCEPT !.used = TRUE]
    BY <2>2, MailRows
  <2>4. x.u = mail[m].u /\ x.used = TRUE /\ x.applied = mail[m].applied
    BY <2>2, <2>3 DEF MailRow
  <2>5. mail' = [mail EXCEPT ![m] = x]
    BY <1>2, <2>1, <2>3
  <2>6. /\ mail' \in Seq(MailRow) /\ Len(mail') = Len(mail) /\ DOMAIN mail' = DOMAIN mail
        /\ \A j \in DOMAIN mail : mail'[j] = IF j = m THEN x ELSE mail[j]
    BY <1>0, <2>5, RowSet
  <2>7. PICK q \in Request : q = [req[r] EXCEPT !.at = "update_user"]
    BY <1>0, RequestGoesOn DEF Places
  <2>8. /\ q.at = "update_user" /\ q.op = req[r].op /\ q.u = req[r].u /\ q.row = m
        /\ q.dead = req[r].dead /\ q.op \in {"verify", "reset"}
    BY <1>0, <2>1, <2>7 DEF Request, UseMail, Fits
  <2>9. req' = [req EXCEPT ![r] = q]
    BY <1>0, <1>2, <2>7 DEF Goto
  <2>10. req' \in [Requests -> Request] /\ Moves(r, q) /\ req'[r] = q
         /\ \A p \in Requests : p # r => req'[p] = req[p]
    BY <1>0, <2>9 DEF Moves
  <2>11. TypeOK'
    BY <2>6, <2>10 DEF UseMail, SessionsInv, TypeOK
  <2>12. \A v \in Users : user[v].pw <= user[v].pw
    BY PasswordsCount
  <2>13. Later /\ SameCuts /\ SessionsStay /\ TokensStay
    BY <2>6, <2>12 DEF UseMail, Later, SameCuts, SessionsStay, TokensStay
  <2>14. NewcomersStay
    BY <2>4, <2>6 DEF UseMail, NewcomersStay
  <2>15. RequestsFit'
    <3>1. Fits(q)'
      BY <1>0, <2>6, <2>8 DEF Fits, UseMail
    <3>2. StaysDead(q)' /\ IsCurrent(q)'
      BY <1>0, <2>8 DEF StaysDead, IsCurrent, UseMail
    <3> QED BY <2>10, <2>11, <2>13, <3>1, <3>2, RequestsStay
  <2>16. NewcomersHaveNoMail'
    <3>1. Mails(q) => ~IsNew(q.u)
      BY <2>8, MailedAreKnown DEF Mails
    <3> QED BY <2>8, <2>10, <2>13, <2>14, <3>1, NewcomersStayNew
  <2>17. OneTimeTokensWorkOnce'
    BY <2>4, <2>6 DEF UseMail, SessionsInv, OneTimeTokensWorkOnce
  <2>18. OneActsOnARow'
    <3>1. mail[m].applied = 0
      <4>1. ~(mail[m].applied > 0) /\ mail[m].applied \in Nat
        BY <2>2 DEF SessionsInv, OneActsOnARow, MailRow
      <4> QED BY <4>1
    <3>2. \A p \in Requests : Applies(p)' /\ p # r =>
             /\ Applies(p) /\ req'[p].row = req[p].row /\ req[p].row \in DOMAIN mail
             /\ req[p].row # m /\ mail'[req[p].row] = mail[req[p].row]
      <4> SUFFICES ASSUME NEW p \in Requests, Applies(p)', p # r
                   PROVE  /\ Applies(p) /\ req'[p].row = req[p].row /\ req[p].row \in DOMAIN mail
                          /\ req[p].row # m /\ mail'[req[p].row] = mail[req[p].row]
        OBVIOUS
      <4>1. Applies(p) /\ req'[p].row = req[p].row
        BY <2>10 DEF Applies
      <4>2. req[p].row \in DOMAIN mail
        BY <4>1 DEF SessionsInv, RequestsFit, Fits, Applies
      <4>3. req[p].row # m
        BY <2>2, <4>1 DEF SessionsInv, OneActsOnARow
      <4> QED BY <2>6, <4>1, <4>2, <4>3
    <3>3. \A p \in Requests : Exchanges(p)' => Exchanges(p) /\ req'[p] = req[p]
      BY <2>8, <2>10 DEF Exchanges, At
    <3>4. \A i \in DOMAIN mail' : mail'[i].applied > 0 => mail'[i].used
      BY <2>4, <2>6 DEF SessionsInv, OneActsOnARow
    <3>5. \A p \in Requests : Applies(p)' =>
             mail'[req'[p].row].used /\ mail'[req'[p].row].applied = 0
      BY <2>4, <2>6, <2>8, <2>10, <3>1, <3>2 DEF SessionsInv, OneActsOnARow
    <3>6. \A p1, p2 \in Requests : p1 # p2 =>
             ~(Applies(p1)' /\ Applies(p2)' /\ req'[p1].row = req'[p2].row)
      BY <2>8, <2>10, <3>2 DEF SessionsInv, OneActsOnARow
    <3>7. /\ \A c \in DOMAIN code' : code'[c].grants > 0 => code'[c].used
          /\ \A p \in Requests :
                Exchanges(p)' => code'[req'[p].row].used /\ code'[req'[p].row].grants = 0
          /\ \A p1, p2 \in Requests : p1 # p2 =>
                ~(Exchanges(p1)' /\ Exchanges(p2)' /\ req'[p1].row = req'[p2].row)
      BY <3>3 DEF UseMail, SessionsInv, OneActsOnARow
    <3> QED BY <3>4, <3>5, <3>6, <3>7 DEF OneActsOnARow
  <2> QED BY <2>11, <2>13, <2>15, <2>16, <2>17, <2>18, OldPasswordsStay, TokensStayUnforked
          DEF SessionsInv
<1> QED BY <1>1, <1>2 DEF UseMail

(* A mail was not applied when its request is about to.                     *)
LEMMA AppliedOnce ==
  ASSUME SessionsInv, NEW r \in Requests, Applies(r)
  PROVE  /\ req[r].row \in DOMAIN mail
         /\ \E x \in MailRow :
               /\ x.u = mail[req[r].row].u /\ x.used /\ x.applied <= 1
               /\ [mail EXCEPT ![req[r].row].applied = @ + 1] = [mail EXCEPT ![req[r].row] = x]
<1>1. Fits(req[r])
  BY DEF SessionsInv, RequestsFit
<1>2. PICK m \in DOMAIN mail : m = req[r].row
  BY <1>1 DEF Applies, Fits
<1>3. mail[m] \in MailRow /\ mail[m].used /\ mail[m].applied = 0
  BY <1>2, Rows DEF SessionsInv, OneActsOnARow
<1>4. mail[m].applied + 1 = 1 /\ 1 \in 0 .. Cardinality(Requests)
  BY <1>3, OneRequest
<1>5. PICK x \in MailRow : x = [mail[m] EXCEPT !.applied = 1]
  BY <1>3, <1>4, MailRows
<1>6. x.u = mail[m].u /\ x.used /\ x.applied = 1
  BY <1>3, <1>5 DEF MailRow
<1>7. [mail EXCEPT ![m].applied = @ + 1] = [mail EXCEPT ![m] = x]
  BY <1>4, <1>5
<1>8. x.applied <= 1
  BY <1>6
<1> QED BY <1>2, <1>6, <1>7, <1>8

(* The request that marked a mail changes its user, once.                   *)
LEMMA MailApplied ==
  ASSUME SessionsInv, NEW r \in Requests, Applies(r), UNCHANGED code,
         NEW m \in DOMAIN mail, m = req[r].row, NEW x \in MailRow,
         x.u = mail[m].u, x.used, x.applied <= 1, mail' = [mail EXCEPT ![m] = x],
         NEW q, Moves(r, q), req'[r] = q, ~ActsOnRow(q)
  PROVE  /\ mail' \in Seq(MailRow) /\ Len(mail') = Len(mail) /\ DOMAIN mail' = DOMAIN mail
         /\ \A j \in DOMAIN mail : mail'[j].u = mail[j].u
         /\ OneActsOnARow' /\ OneTimeTokensWorkOnce'
<1>0. mail \in Seq(MailRow)
  BY DEF SessionsInv, TypeOK
<1>1. /\ mail' \in Seq(MailRow) /\ Len(mail') = Len(mail) /\ DOMAIN mail' = DOMAIN mail
      /\ \A j \in DOMAIN mail : mail'[j] = IF j = m THEN x ELSE mail[j]
  BY <1>0, RowSet
<1>2. \A j \in DOMAIN mail : mail'[j].u = mail[j].u
  BY <1>1
<1>3. OneTimeTokensWorkOnce'
  BY <1>1 DEF SessionsInv, OneTimeTokensWorkOnce
<1>4. OneActsOnARow'
  <2>1. \A p \in Requests : Applies(p)' \/ Exchanges(p)' => p # r /\ req'[p] = req[p]
    BY DEF Moves, ActsOnRow, Applies, Exchanges, At
  <2>2. \A p \in Requests : Applies(p)' =>
           /\ Applies(p) /\ req'[p].row = req[p].row /\ req[p].row \in DOMAIN mail
           /\ mail'[req[p].row] = mail[req[p].row]
    <3> SUFFICES ASSUME NEW p \in Requests, Applies(p)'
                 PROVE  /\ Applies(p) /\ req'[p].row = req[p].row /\ req[p].row \in DOMAIN mail
                        /\ mail'[req[p].row] = mail[req[p].row]
      OBVIOUS
    <3>1. Applies(p) /\ req'[p].row = req[p].row /\ p # r
      BY <2>1 DEF Applies
    <3>2. req[p].row \in DOMAIN mail
      BY <3>1 DEF SessionsInv, RequestsFit, Fits, Applies
    <3>3. req[p].row # m
      BY <3>1 DEF SessionsInv, OneActsOnARow
    <3> QED BY <1>1, <3>1, <3>2, <3>3
  <2>3. \A p \in Requests : Exchanges(p)' => Exchanges(p) /\ req'[p] = req[p]
    BY <2>1 DEF Exchanges, At
  <2>4. \A i \in DOMAIN mail' : mail'[i].applied > 0 => mail'[i].used
    BY <1>1 DEF SessionsInv, OneActsOnARow
  <2>5. \A p \in Requests : Applies(p)' =>
           mail'[req'[p].row].used /\ mail'[req'[p].row].applied = 0
    BY <2>2 DEF SessionsInv, OneActsOnARow
  <2>6. \A p1, p2 \in Requests : p1 # p2 =>
           ~(Applies(p1)' /\ Applies(p2)' /\ req'[p1].row = req'[p2].row)
    BY <2>2 DEF SessionsInv, OneActsOnARow
  <2>7. /\ \A c \in DOMAIN code' : code'[c].grants > 0 => code'[c].used
        /\ \A p \in Requests :
              Exchanges(p)' => code'[req'[p].row].used /\ code'[req'[p].row].grants = 0
        /\ \A p1, p2 \in Requests : p1 # p2 =>
              ~(Exchanges(p1)' /\ Exchanges(p2)' /\ req'[p1].row = req'[p2].row)
    BY <2>3 DEF SessionsInv, OneActsOnARow
  <2> QED BY <2>4, <2>5, <2>6, <2>7 DEF OneActsOnARow
<1> QED BY <1>1, <1>2, <1>3, <1>4

(* What a change of a user row does, if its cut stays and it is not new.    *)
LEMMA UserChanged ==
  ASSUME SessionsInv, NEW u \in Users, NEW x \in UserRow, user' = [user EXCEPT ![u] = x],
         UNCHANGED <<session, token, code>>, DOMAIN mail' = DOMAIN mail,
         \A m \in DOMAIN mail : mail'[m].u = mail[m].u,
         ~IsNew(u), x.cut = user[u].cut, user[u].pw <= x.pw, x.state = user[u].state
  PROVE  /\ user' \in [Users -> UserRow] /\ \A v \in Users : user'[v] = IF v = u THEN x ELSE user[v]
         /\ Later /\ SameCuts /\ NewcomersStay /\ SessionsStay /\ TokensStay
<1>1. user \in [Users -> UserRow]
  BY DEF SessionsInv, TypeOK
<1>2. \A v \in Users : user[v].pw <= user[v].pw
  BY PasswordsCount
<1>3. \A v \in Users : user'[v] = IF v = u THEN x ELSE user[v]
  BY <1>1
<1>4. Later /\ SameCuts
  BY <1>2, <1>3 DEF Later, SameCuts
<1>5. NewcomersStay
  BY <1>3 DEF NewcomersStay
<1>6. SessionsStay /\ TokensStay
  BY DEF SessionsStay, TokensStay
<1>7. user' \in [Users -> UserRow]
  BY <1>1
<1> QED BY <1>3, <1>4, <1>5, <1>6, <1>7

(* verify_email changes its user last.                                      *)
LEMMA SetVerifiedKeeps ==
  ASSUME SessionsInv, NEW r \in Requests, SetVerified(r)
  PROVE  SessionsInv'
<1>0. req[r].u \in Users /\ ~IsNew(req[r].u) /\ Applies(r)
  BY MailedAreKnown DEF SetVerified, At, Mails, Applies
<1>1. PICK u \in Users : u = req[r].u
  BY <1>0
<1>2. user[u] \in UserRow /\ user[u].pw <= user[u].pw
  BY Rows, PasswordsCount DEF SessionsInv
<1>3. PICK x \in UserRow : x = [user[u] EXCEPT !.verified = TRUE]
  BY <1>2, UserRows
<1>4. x.state = user[u].state /\ x.cut = user[u].cut /\ x.pw = user[u].pw
  BY <1>2, <1>3 DEF UserRow
<1>5. user' = [user EXCEPT ![u] = x]
  BY <1>1, <1>3 DEF SetVerified
<1>6. PICK q \in Request : q = Idle(FALSE)
  BY IdleFits
<1>7. /\ q.at = "idle" /\ q.op = None /\ q.dead = FALSE /\ ~ActsOnRow(q) /\ ~Mails(q)
      /\ Fits(q)' /\ StaysDead(q)' /\ IsCurrent(q)'
  BY <1>6, IdleFits DEF ActsOnRow, Mails, Fits, StaysDead, IsCurrent, None
<1>8. req' \in [Requests -> Request] /\ Moves(r, q)
  BY <1>6, EndsAlone DEF SetVerified
<1>9. req'[r] = q
  BY <1>6 DEF SetVerified, Fails, SessionsInv, TypeOK
<1>10. /\ mail' \in Seq(MailRow) /\ Len(mail') = Len(mail) /\ DOMAIN mail' = DOMAIN mail
       /\ \A m \in DOMAIN mail : mail'[m].u = mail[m].u
       /\ OneActsOnARow' /\ OneTimeTokensWorkOnce'
  <2>1. PICK m \in DOMAIN mail, y \in MailRow :
           /\ m = req[r].row /\ y.u = mail[m].u /\ y.used /\ y.applied <= 1
           /\ mail' = [mail EXCEPT ![m] = y]
    BY <1>0, AppliedOnce DEF SetVerified
  <2> QED BY <1>0, <1>7, <1>8, <1>9, <2>1, MailApplied DEF SetVerified
<1>11. /\ user' \in [Users -> UserRow]
       /\ Later /\ SameCuts /\ NewcomersStay /\ SessionsStay /\ TokensStay
  BY <1>0, <1>1, <1>2, <1>4, <1>5, <1>10, UserChanged DEF SetVerified
<1>12. TypeOK'
  BY <1>8, <1>10, <1>11 DEF SetVerified, SessionsInv, TypeOK
<1>13. RequestsFit' /\ NewcomersHaveNoMail'
  BY <1>7, <1>8, <1>11, <1>12, RequestsStay, NewcomersStayNew
<1> QED BY <1>10, <1>11, <1>12, <1>13, OldPasswordsStay, TokensStayUnforked DEF SessionsInv

(* confirm_password_reset installs its password and goes on to revoke.      *)
LEMMA SetPasswordKeeps ==
  ASSUME SessionsInv, NEW r \in Requests, SetPassword(r)
  PROVE  SessionsInv'
<1>0. req[r].u \in Users /\ ~IsNew(req[r].u) /\ Applies(r)
  BY MailedAreKnown DEF SetPassword, At, Mails, Applies
<1>1. PICK u \in Users : u = req[r].u
  BY <1>0
<1>2. user[u] \in UserRow /\ req[r] \in Request /\ Fits(req[r]) /\ StaysDead(req[r])
      /\ req \in [Requests -> Request]
  BY Rows DEF SessionsInv, RequestsFit, TypeOK
<1>3. /\ user[u].pw \in 0 .. MaxPassword /\ MaxPassword \in Nat /\ user[u].pw < MaxPassword
      /\ user[u].pw + 1 \in 0 .. MaxPassword
  BY <1>1, <1>2, AuthConstants DEF UserRow, SetPassword
<1>4. PICK x \in UserRow : x = [user[u] EXCEPT !.pw = user[u].pw + 1]
  BY <1>2, <1>3, UserRows
<1>5. x.state = user[u].state /\ x.cut = user[u].cut /\ x.pw = user[u].pw + 1
  BY <1>2, <1>4 DEF UserRow
<1>6. user' = [user EXCEPT ![u] = x]
  BY <1>1, <1>4 DEF SetPassword
<1>7. user[u].pw <= x.pw /\ x.pw <= x.pw
  BY <1>3, <1>5
<1>8. PICK q \in Request : q = [req[r] EXCEPT !.at = "revoke", !.pw = user[u].pw + 1]
  BY <1>2, <1>3, RequestGoesOn DEF Places
<1>9. /\ q.at = "revoke" /\ q.op = "reset" /\ q.u = u /\ q.row = req[r].row
      /\ q.dead = req[r].dead /\ q.pw = x.pw
  BY <1>1, <1>2, <1>5, <1>8 DEF Request, SetPassword, At
<1>10. req' = [req EXCEPT ![r] = q]
  BY <1>1, <1>2, <1>8 DEF SetPassword
<1>11. req' \in [Requests -> Request] /\ Moves(r, q) /\ req'[r] = q
  BY <1>2, <1>10 DEF Moves
<1>12. ~ActsOnRow(q)
  BY <1>9 DEF ActsOnRow
<1>13. /\ mail' \in Seq(MailRow) /\ Len(mail') = Len(mail) /\ DOMAIN mail' = DOMAIN mail
       /\ \A m \in DOMAIN mail : mail'[m].u = mail[m].u
       /\ OneActsOnARow' /\ OneTimeTokensWorkOnce'
  <2>1. PICK m \in DOMAIN mail, y \in MailRow :
           /\ m = req[r].row /\ y.u = mail[m].u /\ y.used /\ y.applied <= 1
           /\ mail' = [mail EXCEPT ![m] = y]
    BY <1>0, AppliedOnce DEF SetPassword
  <2> QED BY <1>0, <1>11, <1>12, <2>1, MailApplied DEF SetPassword
<1>14. /\ user' \in [Users -> UserRow] /\ user'[u] = x
       /\ Later /\ SameCuts /\ NewcomersStay /\ SessionsStay /\ TokensStay
  BY <1>0, <1>1, <1>5, <1>6, <1>7, <1>13, UserChanged DEF SetPassword
<1>15. TypeOK'
  BY <1>11, <1>13, <1>14 DEF SetPassword, SessionsInv, TypeOK
<1>16. Fits(q)'
  <2>1. q.row \in DOMAIN mail
    BY <1>2, <1>9 DEF Fits, SetPassword, At
  <2>2. q.pw <= user'[q.u].pw
    BY <1>7, <1>9, <1>14
  <2> QED BY <1>9, <1>13, <2>1, <2>2 DEF Fits
<1>17. StaysDead(q)' /\ IsCurrent(q)'
  BY <1>2, <1>9 DEF StaysDead, IsCurrent, SetPassword, At
<1>18. RequestsFit'
  BY <1>11, <1>14, <1>15, <1>16, <1>17, RequestsStay
<1>19. NewcomersHaveNoMail'
  BY <1>0, <1>1, <1>9, <1>11, <1>14, NewcomersStayNew
<1> QED BY <1>13, <1>14, <1>15, <1>18, <1>19, OldPasswordsStay, TokensStayUnforked DEF SessionsInv

(* Of the requests that found a code unused one marks it, the others fail.  *)
LEMMA UseCodeKeeps ==
  ASSUME SessionsInv, NEW r \in Requests, UseAuthorizationCode(r)
  PROVE  SessionsInv'
<1>0. /\ req[r] \in Request /\ Fits(req[r]) /\ StaysDead(req[r]) /\ req \in [Requests -> Request]
      /\ code \in Seq(CodeRow)
  BY Rows DEF SessionsInv, RequestsFit, TypeOK
<1>1. CASE Fails(r) /\ UNCHANGED code
  BY <1>1, RequestEnds DEF UseAuthorizationCode
<1>2. CASE ~code[req[r].row].used /\ code' = [code EXCEPT ![req[r].row].used = TRUE]
           /\ Goto(r, "issue")
  <2>1. PICK c \in DOMAIN code : c = req[r].row
    BY <1>0 DEF UseAuthorizationCode, At, Fits
  <2>2. code[c] \in CodeRow /\ ~code[c].used
    BY <1>2, <2>1, Rows DEF SessionsInv
  <2>3. PICK x \in CodeRow : x = [code[c] EXCEPT !.used = TRUE]
    BY <2>2, CodeRows
  <2>4. x.used = TRUE /\ x.grants = code[c].grants
    BY <2>2, <2>3 DEF CodeRow
  <2>5. code' = [code EXCEPT ![c] = x]
    BY <1>2, <2>1, <2>3
  <2>6. /\ code' \in Seq(CodeRow) /\ Len(code') = Len(code) /\ DOMAIN code' = DOMAIN code
        /\ \A j \in DOMAIN code : code'[j] = IF j = c THEN x ELSE code[j]
    BY <1>0, <2>5, RowSet
  <2>7. PICK q \in Request : q = [req[r] EXCEPT !.at = "issue"]
    BY <1>0, RequestGoesOn DEF Places
  <2>8. /\ q.at = "issue" /\ q.op = "exchange" /\ q.u = req[r].u /\ q.row = c /\ q.s = req[r].s
        /\ q.dead = req[r].dead
    BY <1>0, <2>1, <2>7 DEF Request, UseAuthorizationCode, At
  <2>9. req' = [req EXCEPT ![r] = q]
    BY <1>0, <1>2, <2>7 DEF Goto
  <2>10. req' \in [Requests -> Request] /\ Moves(r, q) /\ req'[r] = q
         /\ \A p \in Requests : p # r => req'[p] = req[p]
    BY <1>0, <2>9 DEF Moves
  <2>11. TypeOK'
    BY <2>6, <2>10 DEF UseAuthorizationCode, SessionsInv, TypeOK
  <2>12. \A v \in Users : user[v].pw <= user[v].pw
    BY PasswordsCount
  <2>13. Later /\ SameCuts /\ SessionsStay /\ TokensStay /\ NewcomersStay
    BY <2>6, <2>12
       DEF UseAuthorizationCode, Later, SameCuts, SessionsStay, TokensStay, NewcomersStay
  <2>14. RequestsFit'
    <3>1. Fits(q)'
      BY <1>0, <2>6, <2>8 DEF Fits, UseAuthorizationCode, At
    <3>2. StaysDead(q)' /\ IsCurrent(q)'
      BY <1>0, <2>8 DEF StaysDead, IsCurrent, UseAuthorizationCode, At
    <3> QED BY <2>10, <2>11, <2>13, <3>1, <3>2, RequestsStay
  <2>15. NewcomersHaveNoMail'
    BY <2>8, <2>10, <2>13, NewcomersStayNew DEF Mails
  <2>16. OneTimeTokensWorkOnce'
    BY <2>4, <2>6 DEF UseAuthorizationCode, SessionsInv, OneTimeTokensWorkOnce
  <2>17. OneActsOnARow'
    <3>1. code[c].grants = 0
      <4>1. ~(code[c].grants > 0) /\ code[c].grants \in Nat
        BY <2>2 DEF SessionsInv, OneActsOnARow, CodeRow
      <4> QED BY <4>1
    <3>2. \A p \in Requests : Exchanges(p)' /\ p # r =>
             /\ Exchanges(p) /\ req'[p].row = req[p].row /\ req[p].row \in DOMAIN code
             /\ req[p].row # c /\ code'[req[p].row] = code[req[p].row]
      <4> SUFFICES ASSUME NEW p \in Requests, Exchanges(p)', p # r
                   PROVE  /\ Exchanges(p) /\ req'[p].row = req[p].row
                          /\ req[p].row \in DOMAIN code
                          /\ req[p].row # c /\ code'[req[p].row] = code[req[p].row]
        OBVIOUS
      <4>1. Exchanges(p) /\ req'[p].row = req[p].row
        BY <2>10 DEF Exchanges, At
      <4>2. req[p].row \in DOMAIN code
        BY <4>1 DEF SessionsInv, RequestsFit, Fits, Exchanges, At
      <4>3. req[p].row # c
        BY <2>2, <4>1 DEF SessionsInv, OneActsOnARow
      <4> QED BY <2>6, <4>1, <4>2, <4>3
    <3>3. \A p \in Requests : Applies(p)' => Applies(p) /\ req'[p] = req[p]
      BY <2>8, <2>10 DEF Applies
    <3>4. \A i \in DOMAIN code' : code'[i].grants > 0 => code'[i].used
      BY <2>4, <2>6 DEF SessionsInv, OneActsOnARow
    <3>5. \A p \in Requests : Exchanges(p)' =>
             code'[req'[p].row].used /\ code'[req'[p].row].grants = 0
      BY <2>4, <2>6, <2>8, <2>10, <3>1, <3>2 DEF SessionsInv, OneActsOnARow
    <3>6. \A p1, p2 \in Requests : p1 # p2 =>
             ~(Exchanges(p1)' /\ Exchanges(p2)' /\ req'[p1].row = req'[p2].row)
      BY <2>8, <2>10, <3>2 DEF SessionsInv, OneActsOnARow
    <3>7. /\ \A m \in DOMAIN mail' : mail'[m].applied > 0 => mail'[m].used
          /\ \A p \in Requests :
                Applies(p)' => mail'[req'[p].row].used /\ mail'[req'[p].row].applied = 0
          /\ \A p1, p2 \in Requests : p1 # p2 =>
                ~(Applies(p1)' /\ Applies(p2)' /\ req'[p1].row = req'[p2].row)
      BY <3>3 DEF UseAuthorizationCode, SessionsInv, OneActsOnARow
    <3> QED BY <3>4, <3>5, <3>6, <3>7 DEF OneActsOnARow
  <2> QED BY <2>11, <2>13, <2>14, <2>15, <2>16, <2>17, OldPasswordsStay, TokensStayUnforked
          DEF SessionsInv
<1> QED BY <1>1, <1>2 DEF UseAuthorizationCode

-----------------------------------------------------------------------------
(* The steps about sessions and their tokens.                               *)

(* A new session has no token, and rests on a password that is current, or  *)
(* overlapped the reset that replaced it.                                   *)
LEMMA CreateSessionKeeps ==
  ASSUME SessionsInv, NEW r \in Requests, CreateSession(r)
  PROVE  SessionsInv'
<1> DEFINE x == [u |-> req[r].u, amr |-> IF req[r].op = "exchange" THEN "pkce" ELSE "pwd",
                 revoked |-> FALSE, pw |-> req[r].pw, late |-> req[r].late, minted |-> 0]
           n == Len(session) + 1
<1>0. /\ req[r] \in Request /\ Fits(req[r]) /\ StaysDead(req[r]) /\ IsCurrent(req[r])
      /\ req \in [Requests -> Request] /\ session \in Seq(SessionRow)
      /\ req[r].at = "create_session" /\ req[r].u \in Users
  BY Rows DEF SessionsInv, RequestsFit, TypeOK, CreateSession, Fits
<1>1. 0 \in 0 .. MaxTokens
  BY AuthConstants
<1>2. /\ x \in SessionRow /\ x.u = req[r].u /\ x.revoked = FALSE /\ x.pw = req[r].pw
      /\ x.late = req[r].late /\ x.minted = 0
      /\ x.amr = IF req[r].op = "exchange" THEN "pkce" ELSE "pwd"
  BY <1>0, <1>1 DEF SessionRow, Request
<1>3. session' = Append(session, x) /\ Len(session) < MaxSessions
  BY DEF CreateSession
<1> HIDE DEF x
<1>4. /\ session' \in Seq(SessionRow) /\ Len(session') = Len(session) + 1 /\ Len(session) \in Nat
      /\ DOMAIN session = 1 .. Len(session) /\ DOMAIN session' = 1 .. Len(session) + 1
      /\ \A s \in DOMAIN session : session'[s] = session[s]
      /\ session'[n] = x
  BY <1>0, <1>2, <1>3, Appended
<1>5. /\ Len(session') <= MaxSessions /\ n \in 0 .. MaxSessions /\ n \in DOMAIN session'
      /\ n \notin DOMAIN session /\ DOMAIN session \subseteq DOMAIN session'
      /\ \A s \in DOMAIN session' : s \in DOMAIN session \/ s = n
  BY <1>3, <1>4, AuthConstants
<1> HIDE DEF n
<1>6. PICK at \in {"use_code", "issue"} :
         at = IF req[r].op = "exchange" THEN "use_code" ELSE "issue"
  OBVIOUS
<1>7. PICK q \in Request : q = [req[r] EXCEPT !.at = at, !.s = n]
  BY <1>0, <1>5, RequestGoesOn DEF Places
<1>8. /\ q.at = at /\ q.s = n /\ q.op = req[r].op /\ q.u = req[r].u /\ q.row = req[r].row
      /\ q.dead = req[r].dead
  BY <1>0, <1>7 DEF Request
<1>9. req' = [req EXCEPT ![r] = q]
  BY <1>0, <1>6, <1>7 DEF CreateSession, n
<1>10. req' \in [Requests -> Request] /\ Moves(r, q)
  BY <1>0, <1>9 DEF Moves
<1>11. TypeOK'
  BY <1>4, <1>5, <1>10 DEF CreateSession, SessionsInv, TypeOK
<1>12. \A v \in Users : user[v].pw <= user[v].pw
  BY PasswordsCount
<1>13. Later /\ SameCuts /\ OneTimeRowsStay /\ NewcomersStay
  BY <1>4, <1>5, <1>12 DEF CreateSession, Later, SameCuts, OneTimeRowsStay, NewcomersStay
<1>14. ~ActsOnRow(q)
  BY <1>6, <1>8 DEF ActsOnRow
<1>15. RequestsFit'
  <2>1. Fits(q)'
    BY <1>0, <1>5, <1>8 DEF Fits, CreateSession
  <2>2. StaysDead(q)' /\ IsCurrent(q)'
    BY <1>0, <1>8 DEF StaysDead, IsCurrent
  <2> QED BY <1>10, <1>11, <1>13, <2>1, <2>2, RequestsStay
<1>16. OneActsOnARow' /\ OneTimeTokensWorkOnce'
  BY <1>10, <1>13, <1>14, OneTimeStays
<1>17. NewcomersHaveNoMail'
  <2>1. Mails(q) => ~IsNew(q.u)
    BY <1>8, MailedAreKnown DEF Mails
  <2> QED BY <1>8, <1>10, <1>13, <2>1, NewcomersStayNew
<1>18. OldPasswordOnlyByOverlap'
  <2>1. x.amr = "pwd" /\ x.pw < user[x.u].cut => x.late
    BY <1>0, <1>2 DEF IsCurrent
  <2> QED BY <1>4, <1>5, <2>1 DEF CreateSession, SessionsInv, OldPasswordOnlyByOverlap
<1>19. RowsFit'
  <2>1. 0 <= Len(token)
    BY Rows DEF SessionsInv
  <2> QED BY <1>2, <1>4, <1>5, <2>1 DEF CreateSession, SessionsInv, RowsFit
<1>20. RotationNeverForks'
  <2>1. \A s \in DOMAIN session' : Unused(s)' = Unused(s)
    BY DEF Unused, CreateSession
  <2>2. Unused(n) = {}
    BY <1>5 DEF Unused, SessionsInv, RowsFit
  <2>3. Cardinality({}) <= 0
    BY FS_EmptySet
  <2>4. \A s \in DOMAIN session : Cardinality(Unused(s)) <= session[s].minted
    BY DEF SessionsInv, RotationNeverForks, Unused
  <2>5. \A s \in DOMAIN session' : Cardinality(Unused(s)') <= session'[s].minted
    BY <1>2, <1>4, <1>5, <2>1, <2>2, <2>3, <2>4
  <2> QED BY <2>5 DEF RotationNeverForks, Unused
<1> QED BY <1>11, <1>15, <1>16, <1>17, <1>18, <1>19, <1>20 DEF SessionsInv

(* Counting the unused tokens of a session.                                 *)
LEMMA OneMore ==
  ASSUME NEW S, IsFiniteSet(S), NEW x, x \notin S, NEW k \in Nat, Cardinality(S) <= k
  PROVE  Cardinality(S \cup {x}) <= k + 1
<1>1. Cardinality(S \cup {x}) = Cardinality(S) + 1 /\ Cardinality(S) \in Nat
  BY FS_AddElement, FS_CardinalityType
<1> QED BY <1>1

(* A rotation: one token goes, another comes.                               *)
LEMMA OneForAnother ==
  ASSUME NEW S, IsFiniteSet(S), NEW t \in S, NEW x, x \notin S, NEW k \in Nat,
         Cardinality(S) <= k
  PROVE  Cardinality((S \ {t}) \cup {x}) <= k
<1>1. IsFiniteSet(S \ {t}) /\ Cardinality(S \ {t}) = Cardinality(S) - 1
  BY FS_RemoveElement
<1>2. Cardinality((S \ {t}) \cup {x}) = Cardinality(S \ {t}) + 1
  BY <1>1, FS_AddElement
<1>3. Cardinality(S) \in Nat /\ Cardinality(S \ {t}) \in Nat
  BY <1>1, FS_CardinalityType
<1> QED BY <1>1, <1>2, <1>3

(* What the invariant says of the unused tokens of a session.               *)
LEMMA UnusedAreFinite ==
  ASSUME SessionsInv, NEW s \in DOMAIN session
  PROVE  /\ IsFiniteSet(Unused(s)) /\ Cardinality(Unused(s)) <= session[s].minted
         /\ session[s].minted \in Nat
<1>1. IsFiniteSet(DOMAIN token)
  BY Rows, FS_Interval DEF SessionsInv
<1>2. IsFiniteSet(Unused(s))
  BY <1>1, FS_Subset DEF Unused
<1>3. session[s].minted \in Nat
  BY Rows, AuthConstants DEF SessionsInv, SessionRow
<1> QED BY <1>2, <1>3 DEF SessionsInv, RotationNeverForks, Unused

(* A row is added to refresh_tokens.                                        *)
LEMMA TokenAdded ==
  ASSUME SessionsInv, NEW s \in DOMAIN session, Len(token) < MaxTokens
  PROVE  /\ NewToken(s) \in Seq(TokenRow) /\ Len(NewToken(s)) <= MaxTokens
         /\ Len(token) <= Len(NewToken(s))
         /\ DOMAIN token \subseteq DOMAIN NewToken(s)
         /\ \A t \in DOMAIN token : NewToken(s)[t] = token[t]
         /\ \E n \in DOMAIN NewToken(s) :
               /\ n \notin DOMAIN token /\ DOMAIN NewToken(s) = DOMAIN token \cup {n}
               /\ NewToken(s)[n].s = s /\ ~NewToken(s)[n].used
<1> DEFINE x == [s |-> s, used |-> FALSE, expired |-> FALSE]
<1>0. s \in 1 .. MaxSessions
  BY Rows, AuthConstants DEF SessionsInv
<1>1. x \in TokenRow /\ x.s = s /\ ~x.used
  BY <1>0 DEF TokenRow
<1>2. token \in Seq(TokenRow) /\ NewToken(s) = Append(token, x)
  BY DEF SessionsInv, TypeOK, NewToken
<1> HIDE DEF x
<1>3. /\ NewToken(s) \in Seq(TokenRow) /\ Len(NewToken(s)) = Len(token) + 1 /\ Len(token) \in Nat
      /\ DOMAIN token = 1 .. Len(token) /\ DOMAIN NewToken(s) = 1 .. Len(token) + 1
      /\ \A t \in DOMAIN token : NewToken(s)[t] = token[t]
      /\ NewToken(s)[Len(token) + 1] = x
  BY <1>1, <1>2, Appended
<1>4. /\ Len(NewToken(s)) <= MaxTokens /\ Len(token) <= Len(NewToken(s))
      /\ DOMAIN token \subseteq DOMAIN NewToken(s)
      /\ Len(token) + 1 \in DOMAIN NewToken(s) /\ Len(token) + 1 \notin DOMAIN token
      /\ DOMAIN NewToken(s) = DOMAIN token \cup {Len(token) + 1}
  BY <1>3, AuthConstants
<1> QED BY <1>1, <1>3, <1>4

(* Rotation marks a token used and adds one.                                *)
LEMMA RotateKeeps ==
  ASSUME SessionsInv, NEW r \in Requests, NEW t \in DOMAIN token, RotateRefreshToken(r, t)
  PROVE  SessionsInv'
<1>0. PICK s \in DOMAIN session : s = token[t].s
  BY DEF SessionsInv, RowsFit
<1>1. CASE session' = Revoked({s}) /\ Fails(r) /\ UNCHANGED <<user, token, mail, code, arrived>>
  BY <1>1, QuietUpdatesKeep
<1>2. CASE /\ ~token[t].used /\ Len(token) < MaxTokens
           /\ token' = [NewToken(s) EXCEPT ![t].used = TRUE]
           /\ Begin(r, "refresh", "find_session", session[s].u, 0, t, s, Dead(s))
           /\ UNCHANGED <<user, session, mail, code>>
  <2>1. /\ NewToken(s) \in Seq(TokenRow) /\ Len(NewToken(s)) <= MaxTokens
        /\ Len(token) <= Len(NewToken(s))
        /\ DOMAIN token \subseteq DOMAIN NewToken(s)
        /\ \A i \in DOMAIN token : NewToken(s)[i] = token[i]
    BY <1>2, TokenAdded
  <2>2. PICK n \in DOMAIN NewToken(s) :
           /\ n \notin DOMAIN token /\ DOMAIN NewToken(s) = DOMAIN token \cup {n}
           /\ NewToken(s)[n].s = s /\ ~NewToken(s)[n].used
    BY <1>2, TokenAdded
  <2>3. token[t] \in TokenRow
    BY Rows DEF SessionsInv
  <2>4. PICK x \in TokenRow : x = [token[t] EXCEPT !.used = TRUE]
    BY <2>3, TokenRows
  <2>5. x.s = s /\ x.used = TRUE
    BY <1>0, <2>3, <2>4 DEF TokenRow
  <2>6. token' = [NewToken(s) EXCEPT ![t] = x]
    BY <1>2, <2>1, <2>4
  <2>7. /\ token' \in Seq(TokenRow) /\ Len(token') = Len(NewToken(s))
        /\ DOMAIN token' = DOMAIN token \cup {n}
        /\ \A j \in DOMAIN NewToken(s) : token'[j] = IF j = t THEN x ELSE NewToken(s)[j]
    BY <2>1, <2>2, <2>6, RowSet
  <2>8. session[s] \in SessionRow /\ session[s].u \in Users /\ user[session[s].u] \in UserRow
        /\ s \in 0 .. MaxSessions /\ t \in Nat /\ 0 \in 0 .. MaxPassword
    BY Rows, AuthConstants DEF SessionsInv, SessionRow
  <2>9. PICK d \in BOOLEAN : d = Dead(s)
    BY <2>8 DEF Dead, SessionRow
  <2>10. PICK q : q = [at |-> "find_session", op |-> "refresh", u |-> session[s].u, pw |-> 0,
                       row |-> t, s |-> s, late |-> FALSE, dead |-> d]
    OBVIOUS
  <2>11. q \in Request
    BY <2>8, <2>10 DEF Request, Places, Ops
  <2>12. req' = [req EXCEPT ![r] = q] /\ Arrival
    BY <1>2, <2>9, <2>10 DEF Begin
  <2>13. req' \in [Requests -> Request] /\ Moves(r, q) /\ arrived' \in 0 .. MaxArrivals
    BY <2>11, <2>12, AuthConstants DEF SessionsInv, TypeOK, Moves, Arrival
  <2>14. TypeOK'
    BY <1>2, <2>1, <2>7, <2>13 DEF SessionsInv, TypeOK
  <2>15. \A v \in Users : user[v].pw <= user[v].pw
    BY PasswordsCount
  <2>16. Later /\ SameCuts /\ OneTimeRowsStay /\ NewcomersStay /\ SessionsStay
    BY <1>2, <2>15 DEF Later, SameCuts, OneTimeRowsStay, NewcomersStay, SessionsStay
  <2>17. /\ Fits(q)' /\ StaysDead(q)' /\ IsCurrent(q)'
         /\ ~ActsOnRow(q) /\ q.at # "send_verification" /\ ~Mails(q)
    BY <1>2, <2>8, <2>9, <2>10 DEF Fits, StaysDead, IsCurrent, ActsOnRow, Mails, Dead
  <2>18. RequestsFit' /\ OneActsOnARow' /\ OneTimeTokensWorkOnce' /\ NewcomersHaveNoMail'
         /\ OldPasswordOnlyByOverlap'
    BY <2>13, <2>14, <2>16, <2>17, RequestsStay, OneTimeStays, NewcomersStayNew, OldPasswordsStay
  <2>19. RowsFit'
    <3>1. \A i \in DOMAIN token' : token'[i].s \in DOMAIN session
      BY <2>1, <2>2, <2>5, <2>7 DEF SessionsInv, RowsFit
    <3>2. \A i \in DOMAIN session : session[i].minted <= Len(token')
      <4> SUFFICES ASSUME NEW i \in DOMAIN session PROVE session[i].minted <= Len(token')
        OBVIOUS
      <4>1. session[i].minted <= Len(token) /\ Len(token) <= Len(token')
        BY <2>1, <2>7 DEF SessionsInv, RowsFit
      <4>2. session[i].minted \in Nat /\ Len(token) \in Nat /\ Len(token') \in Nat
        BY <2>7, UnusedAreFinite, Rows, LenProperties DEF SessionsInv
      <4> QED BY <4>1, <4>2
    <3> QED BY <1>2, <3>1, <3>2 DEF RowsFit
  <2>20. RotationNeverForks'
    <3>1. Unused(s)' = (Unused(s) \ {t}) \cup {n}
      BY <1>0, <1>2, <2>1, <2>2, <2>5, <2>7 DEF Unused
    <3>2. t \in Unused(s) /\ n \notin Unused(s)
      BY <1>0, <1>2, <2>2 DEF Unused
    <3>3. Cardinality(Unused(s)') <= session[s].minted
      <4>1. Cardinality((Unused(s) \ {t}) \cup {n}) <= session[s].minted
        BY <3>2, UnusedAreFinite, OneForAnother
      <4> QED BY <3>1, <4>1
    <3>4. ASSUME NEW i \in DOMAIN session, i # s
          PROVE  Unused(i)' = Unused(i)
      BY <1>0, <2>1, <2>2, <2>5, <2>7, <3>4 DEF Unused
    <3>5. \A i \in DOMAIN session : Cardinality(Unused(i)') <= session[i].minted
      BY <3>3, <3>4, UnusedAreFinite
    <3> QED BY <1>2, <3>5 DEF RotationNeverForks, Unused
  <2> QED BY <2>14, <2>18, <2>19, <2>20 DEF SessionsInv
<1> QED BY <1>0, <1>1, <1>2 DEF RotateRefreshToken

(* A code has issued nothing when its request is about to.                  *)
LEMMA GrantedOnce ==
  ASSUME SessionsInv, NEW r \in Requests, Exchanges(r)
  PROVE  /\ req[r].row \in DOMAIN code
         /\ \E x \in CodeRow :
               /\ x.used /\ x.grants <= 1
               /\ [code EXCEPT ![req[r].row].grants = @ + 1] = [code EXCEPT ![req[r].row] = x]
<1>1. Fits(req[r])
  BY DEF SessionsInv, RequestsFit
<1>2. PICK c \in DOMAIN code : c = req[r].row
  BY <1>1 DEF Exchanges, At, Fits
<1>3. code[c] \in CodeRow /\ code[c].used /\ code[c].grants = 0
  BY <1>2, Rows DEF SessionsInv, OneActsOnARow
<1>4. code[c].grants + 1 = 1 /\ 1 \in 0 .. Cardinality(Requests)
  BY <1>3, OneRequest
<1>5. PICK x \in CodeRow : x = [code[c] EXCEPT !.grants = 1]
  BY <1>3, <1>4, CodeRows
<1>6. x.used /\ x.grants = 1
  BY <1>3, <1>5 DEF CodeRow
<1>7. [code EXCEPT ![c].grants = @ + 1] = [code EXCEPT ![c] = x]
  BY <1>4, <1>5
<1>8. x.grants <= 1
  BY <1>6
<1> QED BY <1>2, <1>6, <1>7, <1>8

(* The request that marked a code issues tokens, once.                      *)
LEMMA CodeGranted ==
  ASSUME SessionsInv, NEW r \in Requests, Exchanges(r), UNCHANGED mail,
         NEW c \in DOMAIN code, c = req[r].row, NEW x \in CodeRow,
         x.used, x.grants <= 1, code' = [code EXCEPT ![c] = x],
         NEW q, Moves(r, q), req'[r] = q, ~ActsOnRow(q)
  PROVE  /\ code' \in Seq(CodeRow) /\ Len(code') = Len(code) /\ DOMAIN code' = DOMAIN code
         /\ OneActsOnARow' /\ OneTimeTokensWorkOnce'
<1>0. code \in Seq(CodeRow)
  BY DEF SessionsInv, TypeOK
<1>1. /\ code' \in Seq(CodeRow) /\ Len(code') = Len(code) /\ DOMAIN code' = DOMAIN code
      /\ \A j \in DOMAIN code : code'[j] = IF j = c THEN x ELSE code[j]
  BY <1>0, RowSet
<1>2. OneTimeTokensWorkOnce'
  BY <1>1 DEF SessionsInv, OneTimeTokensWorkOnce
<1>3. OneActsOnARow'
  <2>1. \A p \in Requests : Applies(p)' \/ Exchanges(p)' => p # r /\ req'[p] = req[p]
    BY DEF Moves, ActsOnRow, Applies, Exchanges, At
  <2>2. \A p \in Requests : Exchanges(p)' =>
           /\ Exchanges(p) /\ req'[p].row = req[p].row /\ req[p].row \in DOMAIN code
           /\ code'[req[p].row] = code[req[p].row]
    <3> SUFFICES ASSUME NEW p \in Requests, Exchanges(p)'
                 PROVE  /\ Exchanges(p) /\ req'[p].row = req[p].row /\ req[p].row \in DOMAIN code
                        /\ code'[req[p].row] = code[req[p].row]
      OBVIOUS
    <3>1. Exchanges(p) /\ req'[p].row = req[p].row /\ p # r
      BY <2>1 DEF Exchanges, At
    <3>2. req[p].row \in DOMAIN code
      BY <3>1 DEF SessionsInv, RequestsFit, Fits, Exchanges, At
    <3>3. req[p].row # c
      BY <3>1 DEF SessionsInv, OneActsOnARow
    <3> QED BY <1>1, <3>1, <3>2, <3>3
  <2>3. \A p \in Requests : Applies(p)' => Applies(p) /\ req'[p] = req[p]
    BY <2>1 DEF Applies
  <2>4. \A i \in DOMAIN code' : code'[i].grants > 0 => code'[i].used
    BY <1>1 DEF SessionsInv, OneActsOnARow
  <2>5. \A p \in Requests : Exchanges(p)' =>
           code'[req'[p].row].used /\ code'[req'[p].row].grants = 0
    BY <2>2 DEF SessionsInv, OneActsOnARow
  <2>6. \A p1, p2 \in Requests : p1 # p2 =>
           ~(Exchanges(p1)' /\ Exchanges(p2)' /\ req'[p1].row = req'[p2].row)
    BY <2>2 DEF SessionsInv, OneActsOnARow
  <2>7. /\ \A m \in DOMAIN mail' : mail'[m].applied > 0 => mail'[m].used
        /\ \A p \in Requests :
              Applies(p)' => mail'[req'[p].row].used /\ mail'[req'[p].row].applied = 0
        /\ \A p1, p2 \in Requests : p1 # p2 =>
              ~(Applies(p1)' /\ Applies(p2)' /\ req'[p1].row = req'[p2].row)
    BY <2>3 DEF SessionsInv, OneActsOnARow
  <2> QED BY <2>4, <2>5, <2>6, <2>7 DEF OneActsOnARow
<1> QED BY <1>1, <1>2, <1>3

(* A session is charged for a token it issues.                              *)
LEMMA SessionMints ==
  ASSUME SessionsInv, NEW s \in DOMAIN session, Len(token) < MaxTokens
  PROVE  LET f == [session EXCEPT ![s].minted = @ + 1]
         IN  /\ f \in Seq(SessionRow) /\ Len(f) = Len(session) /\ DOMAIN f = DOMAIN session
             /\ \A i \in DOMAIN session :
                   /\ f[i].u = session[i].u /\ f[i].amr = session[i].amr
                   /\ f[i].pw = session[i].pw /\ f[i].late = session[i].late
                   /\ f[i].revoked = session[i].revoked
                   /\ f[i].minted = IF i = s THEN session[s].minted + 1 ELSE session[i].minted
<1> DEFINE n == session[s].minted + 1
           f == [session EXCEPT ![s].minted = @ + 1]
<1>1. session \in Seq(SessionRow) /\ session[s] \in SessionRow
  BY Rows DEF SessionsInv, TypeOK
<1>2. n \in 0 .. MaxTokens
  <2>1. session[s].minted \in Nat /\ session[s].minted <= Len(token) /\ Len(token) \in Nat
        /\ MaxTokens \in Nat
    BY UnusedAreFinite, Rows, AuthConstants DEF SessionsInv, RowsFit
  <2> QED BY <2>1
<1> HIDE DEF n
<1>3. PICK x \in SessionRow : x = [session[s] EXCEPT !.minted = n]
  BY <1>1, <1>2, SessionRows
<1>4. /\ x.u = session[s].u /\ x.amr = session[s].amr /\ x.pw = session[s].pw
      /\ x.late = session[s].late /\ x.revoked = session[s].revoked /\ x.minted = n
  BY <1>1, <1>3 DEF SessionRow
<1>5. f = [session EXCEPT ![s] = x]
  BY <1>3 DEF n
<1> HIDE DEF f
<1>6. /\ f \in Seq(SessionRow) /\ Len(f) = Len(session) /\ DOMAIN f = DOMAIN session
      /\ \A i \in DOMAIN session : f[i] = IF i = s THEN x ELSE session[i]
  BY <1>1, <1>5, RowSet
<1>7. \A i \in DOMAIN session :
         /\ f[i].u = session[i].u /\ f[i].amr = session[i].amr
         /\ f[i].pw = session[i].pw /\ f[i].late = session[i].late
         /\ f[i].revoked = session[i].revoked
         /\ f[i].minted = IF i = s THEN n ELSE session[i].minted
  BY <1>4, <1>6
<1> QED BY <1>6, <1>7 DEF f, n

(* issue_tokens adds one token, and charges its session for it.             *)
LEMMA IssueTokensKeeps ==
  ASSUME SessionsInv, NEW r \in Requests, IssueTokens(r)
  PROVE  SessionsInv'
<1>0. /\ req[r] \in Request /\ Fits(req[r]) /\ StaysDead(req[r]) /\ req[r].at = "issue"
      /\ req \in [Requests -> Request]
  BY Rows DEF SessionsInv, RequestsFit, TypeOK, IssueTokens
<1>1. PICK s \in DOMAIN session : s = req[r].s
  BY <1>0 DEF Fits
<1>2. /\ Len(token) < MaxTokens /\ token' = NewToken(s)
      /\ session' = [session EXCEPT ![s].minted = @ + 1]
      /\ UNCHANGED <<user, mail, arrived>>
  BY <1>1 DEF IssueTokens
<1>3. /\ token' \in Seq(TokenRow) /\ Len(token') <= MaxTokens
      /\ Len(token) <= Len(token')
      /\ DOMAIN token \subseteq DOMAIN token'
      /\ \A t \in DOMAIN token : token'[t] = token[t]
  BY <1>2, TokenAdded
<1>4. PICK n \in DOMAIN token' :
         /\ n \notin DOMAIN token /\ DOMAIN token' = DOMAIN token \cup {n}
         /\ token'[n].s = s /\ ~token'[n].used
  BY <1>2, TokenAdded
<1>5. /\ session' \in Seq(SessionRow) /\ Len(session') = Len(session)
      /\ DOMAIN session' = DOMAIN session
      /\ \A i \in DOMAIN session :
            /\ session'[i].u = session[i].u /\ session'[i].amr = session[i].amr
            /\ session'[i].pw = session[i].pw /\ session'[i].late = session[i].late
            /\ session'[i].revoked = session[i].revoked
            /\ session'[i].minted = IF i = s THEN session[s].minted + 1 ELSE session[i].minted
  BY <1>2, SessionMints
<1>6. PICK q \in Request : q = Idle(FALSE)
  BY IdleFits
<1>7. /\ q.at = "idle" /\ q.op = None /\ q.dead = FALSE /\ ~ActsOnRow(q) /\ ~Mails(q)
      /\ Fits(q)' /\ StaysDead(q)' /\ IsCurrent(q)'
  BY <1>6, IdleFits DEF ActsOnRow, Mails, Fits, StaysDead, IsCurrent, None
<1>8. req' = [req EXCEPT ![r] = q]
  <2>1. req[r].dead = FALSE
    BY <1>0 DEF StaysDead, Request
  <2> QED BY <1>6, <2>1 DEF IssueTokens, Grants
<1>9. req' \in [Requests -> Request] /\ Moves(r, q) /\ req'[r] = q
  BY <1>0, <1>8 DEF Moves
<1>10. \A v \in Users : user[v].pw <= user[v].pw
  BY PasswordsCount
<1>11. code' \in Seq(CodeRow) /\ Len(code') = Len(code) /\ DOMAIN code' = DOMAIN code
       /\ OneActsOnARow' /\ OneTimeTokensWorkOnce'
  <2>1. CASE req[r].op = "exchange"
    <3>1. Exchanges(r)
      BY <1>0, <2>1 DEF Exchanges, At
    <3>2. PICK c \in DOMAIN code, x \in CodeRow :
             /\ c = req[r].row /\ x.used /\ x.grants <= 1 /\ code' = [code EXCEPT ![c] = x]
      BY <2>1, <3>1, GrantedOnce DEF IssueTokens
    <3> QED BY <1>2, <1>7, <1>9, <3>1, <3>2, CodeGranted
  <2>2. CASE req[r].op # "exchange"
    <3>1. UNCHANGED code
      BY <2>2 DEF IssueTokens
    <3>2. Later /\ OneTimeRowsStay
      BY <1>2, <1>5, <1>10, <3>1 DEF Later, OneTimeRowsStay
    <3>3. OneActsOnARow' /\ OneTimeTokensWorkOnce'
      BY <1>7, <1>9, <3>2, OneTimeStays
    <3> QED BY <3>1, <3>3 DEF SessionsInv, TypeOK
  <2> QED BY <2>1, <2>2
<1>12. TypeOK'
  BY <1>2, <1>3, <1>5, <1>9, <1>11 DEF SessionsInv, TypeOK
<1>13. Later /\ SameCuts /\ NewcomersStay /\ SessionsStay
  BY <1>2, <1>5, <1>10, <1>11 DEF Later, SameCuts, NewcomersStay, SessionsStay
<1>14. RequestsFit' /\ NewcomersHaveNoMail' /\ OldPasswordOnlyByOverlap'
  BY <1>7, <1>9, <1>12, <1>13, RequestsStay, NewcomersStayNew, OldPasswordsStay
<1>15. RowsFit'
  <2>1. \A t \in DOMAIN token' : token'[t].s \in DOMAIN session'
    BY <1>3, <1>4, <1>5 DEF SessionsInv, RowsFit
  <2>2. ASSUME NEW i \in DOMAIN session PROVE session'[i].minted <= Len(token')
    <3>1. /\ session[i].minted <= Len(token) /\ session[i].minted \in Nat
          /\ session[s].minted <= Len(token) /\ session[s].minted \in Nat
      BY UnusedAreFinite DEF SessionsInv, RowsFit
    <3>2. Len(token) \in Nat /\ Len(token') = Len(token) + 1
      BY <1>2, Rows, AppendProperties DEF SessionsInv, TypeOK, NewToken
    <3>3. session[i].minted <= Len(token') /\ session[s].minted + 1 <= Len(token')
      BY <3>1, <3>2
    <3> QED BY <1>5, <3>3
  <2> QED BY <1>5, <2>1, <2>2 DEF RowsFit
<1>16. RotationNeverForks'
  <2>1. Unused(s)' = Unused(s) \cup {n} /\ n \notin Unused(s)
    BY <1>3, <1>4 DEF Unused
  <2>2. Cardinality(Unused(s)') <= session[s].minted + 1
    <3>1. Cardinality(Unused(s) \cup {n}) <= session[s].minted + 1
      BY <2>1, UnusedAreFinite, OneMore
    <3> QED BY <2>1, <3>1
  <2>3. ASSUME NEW i \in DOMAIN session, i # s
        PROVE  Unused(i)' = Unused(i)
    BY <1>3, <1>4, <2>3 DEF Unused
  <2>4. \A i \in DOMAIN session : Cardinality(Unused(i)') <= session'[i].minted
    BY <1>5, <2>2, <2>3, UnusedAreFinite
  <2> QED BY <1>5, <2>4 DEF RotationNeverForks, Unused
<1> QED BY <1>11, <1>12, <1>14, <1>15, <1>16 DEF SessionsInv

(* Soft deletion revokes the sessions of its user and goes on to disable.   *)
LEMMA DeletionRevokes ==
  ASSUME SessionsInv, NEW r \in Requests, RevokeUserSessions(r), req[r].op # "reset"
  PROVE  SessionsInv'
<1>0. /\ req[r] \in Request /\ Fits(req[r]) /\ StaysDead(req[r]) /\ req[r].at = "revoke"
      /\ \A p \in Requests : req[p] \in Request
  BY Rows DEF SessionsInv, RequestsFit, RevokeUserSessions
<1>1. PICK q \in Request : q = [req[r] EXCEPT !.at = "disable"]
  BY <1>0, RequestGoesOn DEF Places
<1>2. q.at = "disable" /\ q.op = req[r].op /\ q.u = req[r].u /\ q.row = req[r].row /\ q.dead = req[r].dead
  BY <1>0, <1>1 DEF Request
<1>3. \A p \in Requests : [req[p] EXCEPT !.late = @ \/ FALSE] = req[p]
  BY <1>0 DEF Request
<1>4. \A p \in Requests : req'[p] = IF p = r THEN q ELSE req[p]
  BY <1>1, <1>3 DEF RevokeUserSessions
<1>5. DOMAIN req' = Requests /\ req' = [p \in Requests |-> req'[p]]
  BY DEF RevokeUserSessions
<1>6. req' \in [Requests -> Request] /\ Moves(r, q)
  BY <1>0, <1>4, <1>5 DEF Moves
<1>7. /\ session' = Revoked(OfUser(req[r].u)) /\ UNCHANGED <<user, token, mail, code, arrived>>
  BY DEF RevokeUserSessions
<1>8. Quiet /\ TypeOK'
  BY <1>6, <1>7, RevokeIsQuiet DEF SessionsInv, TypeOK
<1>9. Fits(q)' /\ StaysDead(q)' /\ IsCurrent(q)'
  BY <1>0, <1>2, <1>7 DEF Fits, StaysDead, IsCurrent
<1>10. ~ActsOnRow(q) /\ q.at # "send_verification" /\ (Mails(q) => ~IsNew(q.u))
  BY <1>2, MailedAreKnown DEF ActsOnRow, Mails
<1> QED BY <1>6, <1>8, <1>9, <1>10, QuietStep

(* A reset revokes the sessions it sees; the logins whose session it cannot *)
(* see are marked.                                                          *)
LEMMA ResetRevokes ==
  ASSUME SessionsInv, NEW r \in Requests, RevokeUserSessions(r), req[r].op = "reset"
  PROVE  SessionsInv'
<1>0. /\ Fits(req[r]) /\ req[r].at = "revoke" /\ req[r] \in Request
      /\ \A p \in Requests : /\ req[p] \in Request /\ Fits(req[p])
                             /\ StaysDead(req[p]) /\ IsCurrent(req[p])
  BY Rows DEF SessionsInv, RequestsFit, RevokeUserSessions
<1>1. req[r].u \in Users /\ ~IsNew(req[r].u)
  BY MailedAreKnown DEF Mails
<1>2. PICK u \in Users : u = req[r].u
  BY <1>1
<1>3. /\ session' = Revoked(OfUser(u)) /\ UNCHANGED <<token, mail, code, arrived>>
      /\ user' = [user EXCEPT ![u].cut = Larger(@, req[r].pw)]
  BY <1>2 DEF RevokeUserSessions
<1>4. user \in [Users -> UserRow] /\ user[u] \in UserRow /\ \A v \in Users : user[v] \in UserRow
  BY DEF SessionsInv, TypeOK
<1>5. PICK k \in 0 .. MaxPassword : k = Larger(user[u].cut, req[r].pw) /\ k <= user[u].pw
  <2>1. user[u].cut <= user[u].pw /\ req[r].pw <= user[u].pw
    BY <1>0, <1>2 DEF Fits, SessionsInv, RequestsFit
  <2>2. user[u].cut \in 0 .. MaxPassword /\ req[r].pw \in 0 .. MaxPassword
    BY <1>0, <1>4 DEF UserRow, Request
  <2>3. Larger(user[u].cut, req[r].pw) \in {user[u].cut, req[r].pw}
    BY DEF Larger
  <2> QED BY <2>1, <2>2, <2>3
<1>6. PICK x \in UserRow : x = [user[u] EXCEPT !.cut = k]
  BY <1>4, UserRows
<1>7. x.state = user[u].state /\ x.verified = user[u].verified /\ x.cut = k /\ x.pw = user[u].pw
  BY <1>4, <1>6 DEF UserRow
<1>8. user' = [user EXCEPT ![u] = x]
  BY <1>3, <1>5, <1>6
<1>9. user' \in [Users -> UserRow] /\ \A v \in Users : user'[v] = IF v = u THEN x ELSE user[v]
  BY <1>4, <1>8
<1>10. /\ session' \in Seq(SessionRow) /\ Len(session') = Len(session)
       /\ DOMAIN session' = DOMAIN session
       /\ \A s \in DOMAIN session :
             /\ session'[s].u = session[s].u /\ session'[s].amr = session[s].amr
             /\ session'[s].pw = session[s].pw /\ session'[s].late = session[s].late
             /\ session'[s].minted = session[s].minted
             /\ session'[s].revoked = (session[s].revoked \/ s \in OfUser(u))
  BY <1>3, RevokedRows
<1>11. \A p \in Requests :
          IF p = r THEN req'[p] = Idle(FALSE)
          ELSE /\ req'[p] \in Request /\ req'[p].at = req[p].at /\ req'[p].op = req[p].op
               /\ req'[p].u = req[p].u /\ req'[p].pw = req[p].pw /\ req'[p].row = req[p].row
               /\ req'[p].s = req[p].s /\ req'[p].dead = req[p].dead
               /\ req'[p].late = (req[p].late \/ (req[p].at = "create_session" /\ req[p].u = u))
  <2> SUFFICES ASSUME NEW p \in Requests
               PROVE  IF p = r THEN req'[p] = Idle(FALSE)
                      ELSE /\ req'[p] \in Request /\ req'[p].at = req[p].at /\ req'[p].op = req[p].op
                           /\ req'[p].u = req[p].u /\ req'[p].pw = req[p].pw
                           /\ req'[p].row = req[p].row
                           /\ req'[p].s = req[p].s /\ req'[p].dead = req[p].dead
                           /\ req'[p].late = \/ req[p].late
                                             \/ req[p].at = "create_session" /\ req[p].u = u
    OBVIOUS
  <2>1. CASE p = r
    BY <2>1 DEF RevokeUserSessions
  <2>2. CASE p # r
    <3>1. PICK b \in BOOLEAN : b = \/ req[p].late
                                   \/ req[p].at = "create_session" /\ req[p].u = u
      BY <1>0 DEF Request
    <3>2. req'[p] = [req[p] EXCEPT !.late = b]
      BY <1>2, <2>2, <3>1 DEF RevokeUserSessions
    <3>3. [req[p] EXCEPT !.late = b] \in Request
      BY <1>0, RequestGoesOn
    <3>4. req[p] \in Request
      BY <1>0
    <3> QED BY <2>2, <3>1, <3>2, <3>3, <3>4 DEF Request
  <2> QED BY <2>1, <2>2
<1>12. req' \in [Requests -> Request]
  BY <1>11, IdleFits DEF RevokeUserSessions
<1>13. TypeOK'
  BY <1>3, <1>9, <1>10, <1>12 DEF SessionsInv, TypeOK
<1>13a. Later
  <2>1. \A v \in Users : user[v].pw <= user'[v].pw /\ user'[v].state = user[v].state
    <3>1. \A v \in Users : user[v].pw <= user[v].pw
      BY PasswordsCount
    <3> QED BY <1>7, <1>9, <3>1
  <2> QED BY <1>3, <1>10, <2>1 DEF Later
<1>14. RequestsFit'
  <2>1. \A v \in Users : user'[v].cut <= user'[v].pw
    BY <1>5, <1>7, <1>9 DEF SessionsInv, RequestsFit
  <2>2. Fits(req[r])' /\ StaysDead(req[r])' /\ IsCurrent(req[r])'
    BY <1>11, IdleFits DEF Idle, Fits, StaysDead, IsCurrent, None
  <2>3. ASSUME NEW p \in Requests, p # r
        PROVE  Fits(req[p])' /\ StaysDead(req[p])' /\ IsCurrent(req[p])'
    <3>1. PICK y : y = req'[p]
      OBVIOUS
    <3>2. PICK q \in Request : q = req[p]
      BY <1>0
    <3>3. /\ y.at = q.at /\ y.op = q.op /\ y.u = q.u /\ y.pw = q.pw /\ y.row = q.row
          /\ y.s = q.s /\ y.dead = q.dead
          /\ q.late => y.late
          /\ q.at = "create_session" /\ q.u = u => y.late
      BY <1>11, <2>3, <3>1, <3>2
    <3>4. Fits(q) /\ StaysDead(q) /\ IsCurrent(q)
      BY <1>0, <3>2
    <3>5. Fits(q)' /\ StaysDead(q)'
      <4>1. TypeOK
        BY DEF SessionsInv
      <4> QED BY <1>13, <1>13a, <3>4, <4>1, FitsStays
    <3>6. Fits(y)' /\ StaysDead(y)'
      BY <3>3, <3>5 DEF Fits, StaysDead
    <3>7. IsCurrent(y)'
      <4> SUFFICES ASSUME y.at = "create_session", y.op # "exchange", y.pw < user'[y.u].cut
                   PROVE  y.late
        BY DEF IsCurrent
      <4>1. CASE y.u = u
        BY <3>3, <4>1
      <4>2. CASE y.u # u
        <5>1. y.u \in Users
          BY <3>3, <3>4 DEF Fits
        <5>2. user'[y.u] = user[y.u]
          BY <1>9, <4>2, <5>1
        <5>3. q.pw < user[q.u].cut
          BY <3>3, <5>2
        <5> QED BY <3>3, <3>4, <5>3 DEF IsCurrent
      <4> QED BY <4>1, <4>2
    <3> QED BY <3>1, <3>6, <3>7 DEF Fits, StaysDead, IsCurrent
  <2> QED BY <2>1, <2>2, <2>3 DEF RequestsFit
<1>15. OneActsOnARow' /\ OneTimeTokensWorkOnce'
  <2>1. \A p \in Requests :
           /\ Applies(p)' => Applies(p) /\ req'[p].row = req[p].row
           /\ Exchanges(p)' => Exchanges(p) /\ req'[p].row = req[p].row
    BY <1>11, IdleFits DEF Applies, Exchanges, At
  <2> QED BY <1>3, <2>1 DEF SessionsInv, OneActsOnARow, OneTimeTokensWorkOnce
<1>16. NewcomersHaveNoMail'
  <2>1. \A p \in Requests, v \in Users : IsSending(p, v)' => IsSending(p, v)
    BY <1>11, IdleFits DEF IsSending
  <2>2. \A v \in Users : IsNew(v)' => IsNew(v) /\ v # u
    BY <1>1, <1>2, <1>7, <1>9, <2>1 DEF IsNew
  <2>3. /\ \A v \in Users : \A p1, p2 \in Requests :
              IsSending(p1, v)' /\ IsSending(p2, v)' => p1 = p2
        /\ \A v \in Users : \A p \in Requests : IsSending(p, v)' => user'[v].state # "absent"
    BY <1>7, <1>9, <2>1 DEF SessionsInv, NewcomersHaveNoMail
  <2>4. ASSUME NEW v \in Users, IsNew(v)'
        PROVE  /\ ~user'[v].verified /\ user'[v].cut = 0
               /\ \A m \in DOMAIN mail' : mail'[m].u # v
               /\ \A p \in Requests : req'[p].u = v => req'[p].op \notin {"forgot", "verify", "reset"}
    <3>1. IsNew(v) /\ v # u
      BY <2>2, <2>4
    <3>2. \A p \in Requests : req'[p].u = v => req'[p].op \notin {"forgot", "verify", "reset"}
      BY <1>11, <3>1, IdleFits DEF SessionsInv, NewcomersHaveNoMail, None
    <3> QED BY <1>3, <1>9, <3>1, <3>2 DEF SessionsInv, NewcomersHaveNoMail
  <2> QED BY <2>3, <2>4 DEF NewcomersHaveNoMail
<1>17. OldPasswordOnlyByOverlap'
  <2>1. \A s \in DOMAIN session : session[s].u \in Users
    BY Rows DEF SessionsInv, SessionRow
  <2> SUFFICES ASSUME NEW s \in DOMAIN session, session'[s].amr = "pwd", ~session'[s].revoked,
                      session'[s].pw < user'[session'[s].u].cut
               PROVE  session'[s].late
    BY <1>10 DEF OldPasswordOnlyByOverlap
  <2>2. session[s].u # u /\ ~session[s].revoked
    BY <1>10 DEF OfUser
  <2>3. user'[session'[s].u] = user[session[s].u]
    BY <1>9, <1>10, <2>1, <2>2
  <2>4. session[s].amr = "pwd" /\ session[s].pw < user[session[s].u].cut
    BY <1>10, <2>3
  <2> QED BY <1>10, <2>2, <2>4 DEF SessionsInv, OldPasswordOnlyByOverlap
<1>18. SessionsStay /\ TokensStay
  BY <1>3, <1>10 DEF SessionsStay, TokensStay
<1> QED BY <1>13, <1>14, <1>15, <1>16, <1>17, <1>18, TokensStayUnforked DEF SessionsInv

-----------------------------------------------------------------------------
(* The invariant, and what follows from it.                                 *)

(* The invariant holds of the tables as they start.                         *)
LEMMA SessionsInvInit == Init => SessionsInv
<1> SUFFICES ASSUME Init PROVE SessionsInv
  OBVIOUS
<1>1. /\ user \in [Users -> StartRow] /\ arrived = 0
      /\ session = <<>> /\ token = <<>> /\ mail = <<>> /\ code = <<>>
      /\ \A r \in Requests : req[r] = Idle(FALSE)
      /\ req = [r \in Requests |-> Idle(FALSE)]
  BY DEF Init
<1>2. /\ DOMAIN session = {} /\ DOMAIN token = {} /\ DOMAIN mail = {} /\ DOMAIN code = {}
      /\ Len(session) = 0 /\ Len(token) = 0 /\ Len(mail) = 0 /\ Len(code) = 0
  BY <1>1, EmptySeq
<1>3. \A u \in Users : user[u] \in UserRow /\ user[u].pw = 0 /\ user[u].cut = 0
                       /\ (user[u].state = "absent" => ~user[u].verified)
  <2> SUFFICES ASSUME NEW u \in Users
               PROVE  user[u] \in UserRow /\ user[u].pw = 0 /\ user[u].cut = 0
                      /\ (user[u].state = "absent" => ~user[u].verified)
    OBVIOUS
  <2>1. PICK x \in StartRow : x = user[u]
    BY <1>1
  <2>2. 0 \in 0 .. MaxPassword
    BY AuthConstants
  <2>3. /\ x \in UserRow /\ x.pw = 0 /\ x.cut = 0
        /\ x.state = "absent" => ~x.verified
    <3>1. CASE x \in [state : {"absent"}, pw : {0}, verified : {FALSE}, cut : {0}]
      BY <2>2, <3>1 DEF UserRow
    <3>2. CASE x \in [state : {"active"}, pw : {0}, verified : {TRUE}, cut : {0}]
      BY <2>2, <3>2 DEF UserRow
    <3> QED BY <3>1, <3>2 DEF StartRow
  <2> QED BY <2>1, <2>3
<1>4. user \in [Users -> UserRow]
  BY <1>1, <1>3
<1>5. TypeOK
  <2>1. session \in Seq(SessionRow) /\ token \in Seq(TokenRow) /\ mail \in Seq(MailRow)
        /\ code \in Seq(CodeRow)
    BY <1>1, EmptySeq
  <2>2. /\ Len(session) <= MaxSessions /\ Len(token) <= MaxTokens /\ Len(mail) <= MaxMails
        /\ Len(code) <= MaxCodes /\ arrived \in 0 .. MaxArrivals
    BY <1>1, <1>2, AuthConstants
  <2>3. req \in [Requests -> Request]
    BY <1>1, IdleFits
  <2> QED BY <1>4, <2>1, <2>2, <2>3 DEF TypeOK
<1>6. RequestsFit
  <2>1. 0 <= 0
    OBVIOUS
  <2>2. \A u \in Users : user[u].cut <= user[u].pw
    BY <1>3, <2>1, Zenon
  <2>3. \A r \in Requests : Fits(req[r]) /\ StaysDead(req[r]) /\ IsCurrent(req[r])
    BY <1>1, IdleFits
  <2> QED BY <2>2, <2>3 DEF RequestsFit
<1>7. RowsFit /\ RotationNeverForks /\ OneTimeTokensWorkOnce /\ OldPasswordOnlyByOverlap
  BY <1>2 DEF RowsFit, RotationNeverForks, OneTimeTokensWorkOnce, OldPasswordOnlyByOverlap
<1>8. OneActsOnARow
  BY <1>1, <1>2, IdleFits DEF OneActsOnARow, Applies, Exchanges, At
<1>9. NewcomersHaveNoMail
  BY <1>1, <1>2, <1>3, IdleFits DEF NewcomersHaveNoMail, IsSending, IsNew, None
<1> QED BY <1>5, <1>6, <1>7, <1>8, <1>9 DEF SessionsInv

(* Every step keeps the invariant.                                          *)
LEMMA SessionsInvStep == SessionsInv /\ [Next]_vars => SessionsInv'
<1> SUFFICES ASSUME SessionsInv, [Next]_vars PROVE SessionsInv'
  OBVIOUS
<1>1. CASE UNCHANGED vars
  BY <1>1 DEF vars, SessionsInv, TypeOK, RowsFit, RequestsFit, Fits, StaysDead, IsCurrent,
              RotationNeverForks, OneActsOnARow, Applies, Exchanges, At, OneTimeTokensWorkOnce,
              NewcomersHaveNoMail, IsNew, IsSending, OldPasswordOnlyByOverlap
<1>2. ASSUME NEW r \in Requests, Arrive(r) PROVE SessionsInv'
  BY <1>2, ArrivalsKeep, RotateKeeps DEF Arrive
<1>3. ASSUME NEW r \in Requests, Step(r) PROVE SessionsInv'
  <2>1. CASE \/ Drop(r) \/ VerifyPassword(r) \/ RefreshFindSession(r) \/ RefreshFindUser(r)
             \/ ExchangeFindUser(r)
    BY <2>1, ReadsKeep
  <2>2. CASE CreateUser(r) \/ SendVerification(r) \/ CreateMail(r)
    BY <2>2, CreateUserKeeps, SendVerificationKeeps, CreateMailKeeps
  <2>3. CASE CreateSession(r) \/ IssueTokens(r)
    BY <2>3, CreateSessionKeeps, IssueTokensKeeps
  <2>4. CASE UseMail(r) \/ SetVerified(r) \/ SetPassword(r) \/ UseAuthorizationCode(r)
    BY <2>4, UseMailKeeps, SetVerifiedKeeps, SetPasswordKeeps, UseCodeKeeps
  <2>5. CASE RevokeUserSessions(r)
    BY <2>5, DeletionRevokes, ResetRevokes
  <2>6. CASE DisableUser(r)
    BY <2>6, QuietUpdatesKeep
  <2> QED BY <1>3, <2>1, <2>2, <2>3, <2>4, <2>5, <2>6 DEF Step
<1>4. ASSUME NEW u \in Users, UpdateUser(u) \/ CreateAuthorizationCode(u) PROVE SessionsInv'
  BY <1>4, QuietUpdatesKeep, CreateCodeKeeps
<1>5. ASSUME NEW s \in DOMAIN session, Logout(s) PROVE SessionsInv'
  BY <1>5, QuietUpdatesKeep
<1>6. ASSUME \/ \E t \in DOMAIN token : ExpireToken(t)
             \/ \E m \in DOMAIN mail : ExpireMail(m)
             \/ \E c \in DOMAIN code : ExpireCode(c)
      PROVE  SessionsInv'
  BY <1>6, ExpiryKeeps
<1> QED BY <1>1, <1>2, <1>3, <1>4, <1>5, <1>6 DEF Next

(* However requests of the auth service interleave, wherever one of them    *)
(* ends and whatever expires: the tables keep their types, what a request   *)
(* carries from one store call to the next still fits them, and rotation    *)
(* (rotate_refresh_token) never gives a session more unused tokens than     *)
(* issue_tokens and issue_mfa_tokens did.                                   *)
THEOREM SessionsAreConsistent == Spec => []SessionsInv
<1> QED BY SessionsInvInit, SessionsInvStep, PTL DEF Spec

(* A refresh that presents its token after the session was revoked or after *)
(* its user was disabled is refused by one of the two reads that follow the *)
(* rotation, though both happen outside its transaction.                    *)
THEOREM DeadSessionsAreRefused == Spec => []DeadSessionsAreNotServed
<1>1. SessionsInv => DeadSessionsAreNotServed
  BY DEF SessionsInv, RequestsFit, StaysDead, DeadSessionsAreNotServed
<1> QED BY <1>1, SessionsAreConsistent, PTL

(* A mailed token changes its user once and an authorization code issues    *)
(* tokens once, because the UPDATE that marks the row used is refused to    *)
(* every request but one of those that found it unused.                     *)
THEOREM OneTimeTokensAreSpent == Spec => []OneTimeTokensWorkOnce
<1>1. SessionsInv => OneTimeTokensWorkOnce
  BY DEF SessionsInv
<1> QED BY <1>1, SessionsAreConsistent, PTL

(* Once confirm_password_reset has revoked the sessions, only a login that  *)
(* overlapped it can leave a live session, opened by password, on the        *)
(* password it replaced.                                                     *)
THEOREM ReplacedPasswordsAreShutOut == Spec => []OldPasswordOnlyByOverlap
<1>1. SessionsInv => OldPasswordOnlyByOverlap
  BY DEF SessionsInv
<1> QED BY <1>1, SessionsAreConsistent, PTL
=============================================================================
